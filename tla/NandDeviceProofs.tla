-------------------------- MODULE NandDeviceProofs --------------------------
(***************************************************************************)
(* The device under every command, proved for every number of lines, of    *)
(* pages in a line and of pages in a command: it keeps two agreeing        *)
(* records of a line, no command leaves a hole, and a run of pages that    *)
(* follow the programmed ones is written as a whole.                       *)
(***************************************************************************)
EXTENDS NandDevice, WellFoundedInduction, TLAPS

\* The number of a page on the device (pgidx).
PageNo(l, o) == l * PagesPerLine + o

\* Page o of line l is among the n pages from page p of line k on.
InRun(k, p, n, l, o) == PageNo(k, p) <= PageNo(l, o) /\ PageNo(l, o) < PageNo(k, p) + n

\* The programmed pages of a line are those below its write pointer.
Prefix(d) == \A l \in Lines : d.state[l] = 0 .. d.wp[l] - 1

\* One iteration of the loop of ssd_write_ppa.
Step(out, l, o) ==
    IF out.rc # Done THEN out
    ELSE [dev |-> ProgramPage(out.dev, l, o), rc |-> ProgramResult(out.dev, l, o)]

LineOf(l, o, i) == l + (o + i) \div PagesPerLine

OfftOf(o, i) == (o + i) % PagesPerLine

-----------------------------------------------------------------------------
(***************************************************************************)
(* Page numbers.                                                           *)
(***************************************************************************)
\* Every non-empty set of naturals has a least element.
LEMMA LeastNat ==
    ASSUME NEW T \in SUBSET Nat, T # {} PROVE \E x \in T : \A y \in T : x <= y
<1>1. PICK x \in T : \A y \in T : ~(<<y, x>> \in OpToRel(<, Nat))
  BY NatLessThanWellFounded, WFMin
<1>2. \A y \in T : ~(y < x)
  BY <1>1 DEF OpToRel
<1> QED BY <1>2

\* Page numbers go up through a line and from one line to the next.
LEMMA PageOrder ==
    ASSUME NandAssumption, NEW l \in Nat, NEW k \in Nat, NEW o \in Offsets, NEW p \in Offsets
    PROVE  /\ PageNo(l, o) \in Nat
           /\ l < k => PageNo(l, o) < PageNo(k, p)
           /\ PageNo(l, o) = PageNo(k, p) => l = k /\ o = p
           /\ PageNo(l, o) < PageNo(l, p) <=> o < p
<1>1. PagesPerLine \in Nat /\ PagesPerLine > 0
  BY DEF NandAssumption
<1>2. o \in Nat /\ p \in Nat /\ o < PagesPerLine /\ p < PagesPerLine
  BY <1>1 DEF Offsets
<1>3. l * PagesPerLine \in Nat /\ k * PagesPerLine \in Nat
  BY <1>1
<1>4. ASSUME NEW a \in Nat, NEW b \in Nat, a < b
      PROVE  a * PagesPerLine + PagesPerLine <= b * PagesPerLine
  <2>1. PICK c \in Nat : b = a + 1 + c
    <3>1. b - a - 1 \in Nat /\ b = a + 1 + (b - a - 1)
      BY <1>4
    <3> QED BY <3>1
  <2>2. b * PagesPerLine = a * PagesPerLine + PagesPerLine + c * PagesPerLine
    BY <1>1, <2>1
  <2>3. c * PagesPerLine \in Nat /\ a * PagesPerLine \in Nat
    BY <1>1
  <2> QED BY <1>1, <2>2, <2>3
<1>5. l < k => l * PagesPerLine + PagesPerLine <= k * PagesPerLine
  BY <1>4
<1>6. k < l => k * PagesPerLine + PagesPerLine <= l * PagesPerLine
  BY <1>4
<1>7. PICK x \in Nat : x = l * PagesPerLine
  BY <1>3
<1>8. PICK y \in Nat : y = k * PagesPerLine
  BY <1>3
<1>9. l = k => x = y
  BY <1>7, <1>8
<1>10. PageNo(l, o) = x + o /\ PageNo(k, p) = y + p /\ PageNo(l, p) = x + p
  BY <1>7, <1>8 DEF PageNo
<1>11. /\ l < k => x + PagesPerLine <= y
       /\ k < l => y + PagesPerLine <= x
  BY <1>5, <1>6, <1>7, <1>8
<1> QED BY <1>1, <1>2, <1>9, <1>10, <1>11

\* The i-th page of a run from page o of line l on.
LEMMA RunPage ==
    ASSUME NandAssumption, NEW l \in Nat, NEW o \in Offsets, NEW i \in Nat
    PROVE  /\ LineOf(l, o, i) \in Nat /\ OfftOf(o, i) \in Offsets
           /\ PageNo(LineOf(l, o, i), OfftOf(o, i)) = PageNo(l, o) + i
<1>1. PagesPerLine \in Nat /\ PagesPerLine > 0 /\ o \in Nat
  BY DEF NandAssumption, Offsets
<1>2. PICK q : q = (o + i) \div PagesPerLine
  OBVIOUS
<1>3. PICK r : r = (o + i) % PagesPerLine
  OBVIOUS
<1>4. q \in Nat /\ r \in 0 .. PagesPerLine - 1 /\ o + i = PagesPerLine * q + r
  BY <1>1, <1>2, <1>3
<1>5. (l + q) * PagesPerLine + r = l * PagesPerLine + (PagesPerLine * q + r)
  BY <1>1, <1>4
<1>6. l * PagesPerLine \in Nat
  BY <1>1
<1>7. PageNo(l + q, r) = PageNo(l, o) + i
  BY <1>1, <1>4, <1>5, <1>6 DEF PageNo
<1> QED BY <1>2, <1>3, <1>4, <1>7 DEF LineOf, OfftOf, Offsets

-----------------------------------------------------------------------------
(***************************************************************************)
(* The loop of ssd_write_ppa.                                              *)
(***************************************************************************)
\* The states of the loop, one after the other.
LEMMA WriteLoop ==
    ASSUME NEW d, NEW l, NEW o, NEW n \in Nat
    PROVE  \E f : /\ ssd_write_ppa(d, l, o, n) = f[n]
                  /\ f[0] = [dev |-> d, rc |-> Done]
                  /\ \A i \in 1 .. n : f[i] = Step(f[i - 1], LineOf(l, o, i - 1), OfftOf(o, i - 1))
<1> DEFINE First == [dev |-> d, rc |-> Done]
           Nxt(x, i) == Step(x, LineOf(l, o, i - 1), OfftOf(o, i - 1))
           Runs(f, m) == /\ f[0] = First
                         /\ \A i \in 1 .. m : f[i] = Nxt(f[i - 1], i)
           Loop(f) == f = [i \in 0 .. n |-> IF i = 0 THEN First ELSE Nxt(f[i - 1], i)]
           Bad == { m \in 0 .. n : ~\E f : Runs(f, m) }
<1> HIDE DEF First, Nxt
<1>1. Bad = {}
  <2> SUFFICES ASSUME Bad # {} PROVE FALSE
    OBVIOUS
  <2>1. Bad \in SUBSET Nat
    OBVIOUS
  <2>2. PICK m \in Bad : \A y \in Bad : m <= y
    BY <2>1, LeastNat
  <2>3. m \in 0 .. n /\ m \in Int
    OBVIOUS
  <2>4. CASE m = 0
    <3> DEFINE g == [i \in {0} |-> First]
    <3>1. Runs(g, 0)
      OBVIOUS
    <3> QED BY <2>4, <3>1
  <2>5. CASE m # 0
    <3>1. m - 1 \in 0 .. n /\ ~(m <= m - 1)
      BY <2>3, <2>5
    <3>2. m - 1 \notin Bad
      <4> HIDE DEF Bad
      <4> QED BY <2>2, <3>1
    <3>3. PICK f : Runs(f, m - 1)
      BY <3>1, <3>2
    <3> DEFINE g == [i \in 0 .. m |-> IF i = m THEN Nxt(f[m - 1], m) ELSE f[i]]
    <3>4. g[0] = First
      BY <2>3, <2>5, <3>3
    <3>5. ASSUME NEW i \in 1 .. m PROVE g[i] = Nxt(g[i - 1], i)
      <4>1. i - 1 \in 0 .. m /\ i - 1 # m /\ i \in 0 .. m
        BY <2>3
      <4>2. g[i - 1] = f[i - 1]
        BY <4>1
      <4>3. CASE i = m
        BY <4>1, <4>2, <4>3
      <4>4. CASE i # m
        <5>1. i \in 1 .. m - 1
          BY <2>3, <4>4
        <5>2. f[i] = Nxt(f[i - 1], i)
          BY <3>3, <5>1
        <5> QED BY <4>1, <4>2, <4>4, <5>2
      <4> QED BY <4>3, <4>4
    <3>6. Runs(g, m)
      BY <3>4, <3>5
    <3> QED BY <2>2, <3>6
  <2> QED BY <2>4, <2>5
<1>2. PICK g : Runs(g, n)
  <2>1. n \notin Bad
    <3> HIDE DEF Bad
    <3> QED BY <1>1
  <2>2. n \in 0 .. n
    OBVIOUS
  <2> QED BY <2>1, <2>2
<1> DEFINE h == [i \in 0 .. n |-> g[i]]
<1>3. Loop(h)
  <2>1. ASSUME NEW i \in 0 .. n PROVE h[i] = IF i = 0 THEN First ELSE Nxt(h[i - 1], i)
    <3>1. CASE i = 0
      BY <1>2, <3>1
    <3>2. CASE i # 0
      <4>1. i \in 1 .. n /\ i - 1 \in 0 .. n
        BY <3>2
      <4> QED BY <1>2, <3>2, <4>1
    <3> QED BY <3>1, <3>2
  <2> HIDE DEF h
  <2>2. h = [i \in 0 .. n |-> h[i]]
    BY DEF h
  <2> QED BY <2>1, <2>2
<1> DEFINE after == CHOOSE f : Loop(f)
<1>4. Loop(after)
  <2> HIDE DEF Loop
  <2> QED BY <1>3
<1>5. ssd_write_ppa(d, l, o, n) = after[n]
  BY DEF ssd_write_ppa, First, Nxt, Step, LineOf, OfftOf
<1> HIDE DEF after
<1>6. after[0] = First /\ \A i \in 1 .. n : after[i] = Nxt(after[i - 1], i)
  <2>1. after[0] = First
    BY <1>4
  <2>2. ASSUME NEW i \in 1 .. n PROVE after[i] = Nxt(after[i - 1], i)
    <3>1. i \in 0 .. n /\ i # 0
      OBVIOUS
    <3> QED BY <1>4, <3>1
  <2> QED BY <2>1, <2>2
<1> QED BY <1>5, <1>6 DEF First, Nxt

\* What programming one page changes.
LEMMA ProgramFields ==
    ASSUME NEW d \in Device, NEW l, NEW o \in Offsets, ProgramResult(d, l, o) = Done
    PROVE  /\ o \notin d.state[l] /\ d.wp[l] = o
           /\ ProgramPage(d, l, o) = [state |-> [d.state EXCEPT ![l] = @ \cup {o}],
                                      wp |-> [d.wp EXCEPT ![l] = @ + 1]]
<1>1. d = [state |-> d.state, wp |-> d.wp]
  BY DEF Device
<1>2. o \notin d.state[l] /\ d.wp[l] = o
  BY DEF ProgramResult, Done, Overwrite, OutOfOrder
<1>3. ProgramPage(d, l, o) = [d EXCEPT !.state[l] = @ \cup {o}, !.wp[l] = @ + 1]
  BY DEF ProgramPage
<1>4. [d EXCEPT !.state[l] = @ \cup {o}, !.wp[l] = @ + 1]
        = [state |-> [d.state EXCEPT ![l] = @ \cup {o}], wp |-> [d.wp EXCEPT ![l] = @ + 1]]
  <2>1. PICK e : e = [d EXCEPT !.state[l] = @ \cup {o}, !.wp[l] = @ + 1]
    OBVIOUS
  <2>2. e = [state |-> e.state, wp |-> e.wp]
    BY <1>1, <2>1
  <2>3. e.state = [d.state EXCEPT ![l] = @ \cup {o}]
    BY <1>1, <2>1
  <2>4. e.wp = [d.wp EXCEPT ![l] = @ + 1]
    BY <1>1, <2>1
  <2> QED BY <2>1, <2>2, <2>3, <2>4
<1> QED BY <1>2, <1>3, <1>4

\* A page keeps the records agreeing and lowers no write pointer.
LEMMA ProgramSound ==
    ASSUME NandAssumption, NEW d \in Device, Prefix(d), NEW l, NEW o \in Offsets,
           NEW e, e = ProgramPage(d, l, o)
    PROVE  /\ e \in Device /\ Prefix(e) /\ \A k \in Lines : d.wp[k] <= e.wp[k]
           /\ ProgramResult(d, l, o) \in {Done, Overwrite, OutOfOrder}
<1>1. ProgramResult(d, l, o) \in {Done, Overwrite, OutOfOrder}
  BY DEF ProgramResult
<1>2. /\ PagesPerLine \in Nat /\ PagesPerLine > 0 /\ o \in Nat /\ o < PagesPerLine
      /\ d.state \in [Lines -> SUBSET Offsets] /\ d.wp \in [Lines -> 0 .. PagesPerLine]
  BY DEF NandAssumption, Device, Offsets
<1>3. CASE ProgramResult(d, l, o) # Done
  <2>1. e = d
    BY <1>3 DEF ProgramPage
  <2>2. \A k \in Lines : d.wp[k] <= d.wp[k]
    BY <1>2
  <2> QED BY <1>1, <2>1, <2>2
<1>4. CASE ProgramResult(d, l, o) = Done
  <2>1. /\ d.wp[l] = o
        /\ e = [state |-> [d.state EXCEPT ![l] = @ \cup {o}], wp |-> [d.wp EXCEPT ![l] = @ + 1]]
    BY <1>4, ProgramFields
  <2>2. e.state = [d.state EXCEPT ![l] = @ \cup {o}] /\ e.wp = [d.wp EXCEPT ![l] = @ + 1]
    BY <2>1
  <2>3. \A k \in Lines : k # l => e.state[k] = d.state[k] /\ e.wp[k] = d.wp[k]
    BY <1>2, <2>2
  <2>4. l \in Lines => e.state[l] = d.state[l] \cup {o} /\ e.wp[l] = o + 1
    BY <1>2, <2>1, <2>2
  <2>5. l \in Lines => e.state[l] = 0 .. e.wp[l] - 1
    <3> SUFFICES ASSUME l \in Lines PROVE e.state[l] = 0 .. e.wp[l] - 1
      OBVIOUS
    <3>1. d.state[l] = 0 .. o - 1
      BY <2>1 DEF Prefix
    <3>2. 0 .. (o + 1) - 1 = (0 .. o - 1) \cup {o}
      BY <1>2
    <3> QED BY <2>4, <3>1, <3>2
  <2>6. Prefix(e)
    BY <2>3, <2>5 DEF Prefix
  <2>7. \A k \in Lines : e.state[k] \in SUBSET Offsets /\ e.wp[k] \in 0 .. PagesPerLine
    <3>1. \A k \in Lines : k # l => e.state[k] \in SUBSET Offsets /\ e.wp[k] \in 0 .. PagesPerLine
      BY <1>2, <2>3
    <3>2. l \in Lines => e.state[l] \in SUBSET Offsets /\ e.wp[l] \in 0 .. PagesPerLine
      BY <1>2, <2>4
    <3> QED BY <3>1, <3>2
  <2>8. e \in Device
    <3>1. e.state \in [Lines -> SUBSET Offsets] /\ e.wp \in [Lines -> 0 .. PagesPerLine]
      BY <1>2, <2>2, <2>7
    <3>2. e = [state |-> e.state, wp |-> e.wp]
      BY <2>1
    <3> QED BY <3>1, <3>2 DEF Device
  <2>9. \A k \in Lines : d.wp[k] <= e.wp[k]
    <3>1. \A k \in Lines : d.wp[k] <= d.wp[k]
      BY <1>2
    <3>2. o <= o + 1
      BY <1>2
    <3> QED BY <2>1, <2>3, <2>4, <3>1, <3>2
  <2> QED BY <1>1, <2>6, <2>8, <2>9
<1> QED BY <1>3, <1>4

\* A command keeps the records agreeing and lowers no write pointer, refused or not.
LEMMA WriteSound ==
    ASSUME NandAssumption, NEW d \in Device, Prefix(d), NEW l \in Nat, NEW o \in Offsets,
           NEW n \in Nat, NEW w, w = ssd_write_ppa(d, l, o, n)
    PROVE  /\ w.dev \in Device /\ Prefix(w.dev) /\ \A k \in Lines : d.wp[k] <= w.dev.wp[k]
           /\ w.rc \in {Done, Overwrite, OutOfOrder}
<1> DEFINE Sound(x) == /\ x.dev \in Device /\ Prefix(x.dev)
                       /\ \A k \in Lines : d.wp[k] <= x.dev.wp[k]
                       /\ x.rc \in {Done, Overwrite, OutOfOrder}
<1>1. PICK f : /\ w = f[n] /\ f[0] = [dev |-> d, rc |-> Done]
               /\ \A i \in 1 .. n : f[i] = Step(f[i - 1], LineOf(l, o, i - 1), OfftOf(o, i - 1))
  BY WriteLoop
<1> DEFINE Bad == { i \in 0 .. n : ~Sound(f[i]) }
<1>2. Sound(f[0])
  <2>1. \A k \in Lines : d.wp[k] <= d.wp[k]
    BY DEF Device
  <2> QED BY <1>1, <2>1
<1>3. ASSUME NEW x, Sound(x), NEW i \in Nat PROVE Sound(Step(x, LineOf(l, o, i), OfftOf(o, i)))
  <2>1. PICK k : k = LineOf(l, o, i)
    OBVIOUS
  <2>2. PICK p \in Offsets : p = OfftOf(o, i)
    BY RunPage
  <2>3. CASE x.rc # Done
    BY <1>3, <2>1, <2>2, <2>3 DEF Step
  <2>4. CASE x.rc = Done
    <3>1. PICK y : y = Step(x, k, p)
      OBVIOUS
    <3>2. y.dev = ProgramPage(x.dev, k, p) /\ y.rc = ProgramResult(x.dev, k, p)
      BY <2>4, <3>1 DEF Step
    <3>3. /\ y.dev \in Device /\ Prefix(y.dev) /\ \A j \in Lines : x.dev.wp[j] <= y.dev.wp[j]
          /\ y.rc \in {Done, Overwrite, OutOfOrder}
      BY <1>3, <3>2, ProgramSound
    <3>4. ASSUME NEW e \in Device, NEW j \in Lines PROVE e.wp[j] \in Nat
      BY DEF Device, NandAssumption
    <3>5. ASSUME NEW j \in Lines PROVE d.wp[j] <= y.dev.wp[j]
      <4>1. d.wp[j] \in Nat /\ x.dev.wp[j] \in Nat /\ y.dev.wp[j] \in Nat
        BY <1>3, <3>3, <3>4
      <4>2. d.wp[j] <= x.dev.wp[j] /\ x.dev.wp[j] <= y.dev.wp[j]
        BY <1>3, <3>3
      <4> QED BY <4>1, <4>2
    <3> QED BY <2>1, <2>2, <3>1, <3>3, <3>5
  <2> QED BY <2>3, <2>4
<1> HIDE DEF Sound
<1>4. Bad = {}
  <2> SUFFICES ASSUME Bad # {} PROVE FALSE
    OBVIOUS
  <2>1. Bad \in SUBSET Nat
    OBVIOUS
  <2>2. PICK m \in Bad : \A y \in Bad : m <= y
    BY <2>1, LeastNat
  <2>3. m \in 0 .. n /\ ~Sound(f[m])
    OBVIOUS
  <2>4. m # 0
    BY <1>2, <2>3
  <2>5. m \in 1 .. n /\ m - 1 \in 0 .. n /\ m - 1 \in Nat /\ ~(m <= m - 1)
    BY <2>3, <2>4
  <2>6. Sound(f[m - 1])
    BY <2>2, <2>5
  <2>7. Sound(f[m])
    BY <1>1, <1>3, <2>5, <2>6
  <2> QED BY <2>3, <2>7
<1>5. Sound(f[n])
  <2>1. n \in 0 .. n /\ n \notin Bad
    <3> HIDE DEF Bad
    <3> QED BY <1>4
  <2> QED BY <2>1
<1> QED BY <1>1, <1>5 DEF Sound

\* The device after a write of which every page was accepted.
RunProgrammed(d, l, o, n, w) ==
    /\ w.rc = Done /\ w.dev \in Device /\ Prefix(w.dev)
    /\ \A k \in Lines : w.dev.state[k] = d.state[k] \cup { p \in Offsets : InRun(l, o, n, k, p) }

\* A run of pages, none of them programmed and each following the programmed ones of its
\* line, is written as a whole.
LEMMA RunWritten ==
    ASSUME NandAssumption, NEW d \in Device, Prefix(d), NEW l \in Lines, NEW o \in Offsets,
           NEW n \in Nat, NEW w, w = ssd_write_ppa(d, l, o, n),
           \A i \in 0 .. n - 1 : LineOf(l, o, i) \in Lines,
           \A k \in Lines, p \in Offsets : InRun(l, o, n, k, p) => p \notin d.state[k],
           \A k \in Lines, p, q \in Offsets :
              InRun(l, o, n, k, p) /\ q < p => q \in d.state[k] \/ InRun(l, o, n, k, q)
    PROVE  RunProgrammed(d, l, o, n, w)
<1> DEFINE Reached(k, i) == { p \in Offsets : InRun(l, o, i, k, p) }
           Good(x, i) == /\ x.rc = Done /\ x.dev \in Device /\ Prefix(x.dev)
                         /\ \A k \in Lines : x.dev.state[k] = d.state[k] \cup Reached(k, i)
<1>1. PICK f : /\ w = f[n] /\ f[0] = [dev |-> d, rc |-> Done]
               /\ \A i \in 1 .. n : f[i] = Step(f[i - 1], LineOf(l, o, i - 1), OfftOf(o, i - 1))
  <2>1. l \in Nat
    BY DEF NandAssumption
  <2> QED BY WriteLoop
<1> DEFINE Bad == { i \in 0 .. n : ~Good(f[i], i) }
<1>2. /\ Lines \subseteq Nat /\ PagesPerLine \in Nat /\ l \in Nat
      /\ \A k \in Lines, p \in Offsets : PageNo(k, p) \in Nat
      /\ \A p \in Offsets : p \in Nat /\ p < PagesPerLine
  BY PageOrder DEF NandAssumption, Offsets
<1>3. Good(f[0], 0)
  <2>1. ASSUME NEW k \in Lines, NEW p \in Offsets PROVE ~InRun(l, o, 0, k, p)
    <3>1. PageNo(l, o) \in Nat /\ PageNo(k, p) \in Nat
      BY <1>2
    <3> QED BY <3>1 DEF InRun
  <2>2. \A k \in Lines : Reached(k, 0) = {}
    BY <2>1
  <2> QED BY <1>1, <2>2
<1>4. ASSUME NEW x, NEW i \in 0 .. n - 1, Good(x, i)
      PROVE  Good(Step(x, LineOf(l, o, i), OfftOf(o, i)), i + 1)
  <2>1. PICK k \in Lines : k = LineOf(l, o, i)
    OBVIOUS
  <2>2. PICK p \in Offsets : p = OfftOf(o, i) /\ PageNo(k, p) = PageNo(l, o) + i
    BY <1>2, <2>1, RunPage
  <2>3. PICK base \in Nat : base = PageNo(l, o)
    BY <1>2
  <2>4. ASSUME NEW j \in Lines, NEW q \in Offsets
        PROVE  /\ InRun(l, o, i, j, q) <=> base <= PageNo(j, q) /\ PageNo(j, q) < base + i
               /\ InRun(l, o, i + 1, j, q) <=> base <= PageNo(j, q) /\ PageNo(j, q) < base + (i + 1)
               /\ InRun(l, o, n, j, q) <=> base <= PageNo(j, q) /\ PageNo(j, q) < base + n
    BY <2>3 DEF InRun
  <2>5. InRun(l, o, n, k, p) /\ ~InRun(l, o, i, k, p) /\ InRun(l, o, i + 1, k, p)
    BY <2>2, <2>3, <2>4
  <2>6. p \notin x.dev.state[k]
    BY <1>4, <2>5
  <2>7. /\ x.dev.state[k] = 0 .. x.dev.wp[k] - 1 /\ x.dev.wp[k] \in 0 .. PagesPerLine
    BY <1>4 DEF Prefix, Device
  <2>8. x.dev.wp[k] = p
    <3> SUFFICES ASSUME x.dev.wp[k] # p PROVE FALSE
      OBVIOUS
    <3>1. PICK q : q = x.dev.wp[k]
      OBVIOUS
    <3>2. q \in Offsets /\ q < p /\ q \notin x.dev.state[k]
      <4>1. q \in 0 .. PagesPerLine /\ x.dev.state[k] = 0 .. q - 1
        BY <2>7, <3>1
      <4>2. q \in Nat /\ p \in Nat /\ p < PagesPerLine /\ q # p
        BY <1>2, <3>1, <4>1
      <4>3. p \notin 0 .. q - 1
        BY <2>6, <4>1
      <4>4. q < p /\ q \notin 0 .. q - 1
        BY <4>2, <4>3
      <4> QED BY <1>2, <4>1, <4>2, <4>4 DEF Offsets
    <3>3. q \in d.state[k] \/ InRun(l, o, n, k, q)
      BY <2>5, <3>2
    <3>4. PageNo(k, q) < PageNo(k, p)
      BY <1>2, <3>2, PageOrder
    <3>5. InRun(l, o, n, k, q) => InRun(l, o, i, k, q)
      BY <1>2, <2>2, <2>3, <2>4, <3>2, <3>4
    <3> QED BY <1>4, <3>2, <3>3, <3>5
  <2>9. ProgramResult(x.dev, k, p) = Done
    BY <2>6, <2>8 DEF ProgramResult
  <2>10. PICK y : y = Step(x, k, p)
    OBVIOUS
  <2>11. /\ y.rc = Done /\ y.dev = ProgramPage(x.dev, k, p)
    BY <1>4, <2>9, <2>10 DEF Step
  <2>12. y.dev \in Device /\ Prefix(y.dev)
    BY <1>4, <2>11, ProgramSound
  <2>13. y.dev.state = [x.dev.state EXCEPT ![k] = @ \cup {p}]
    <3>1. x.dev \in Device
      BY <1>4
    <3>2. y.dev = [state |-> [x.dev.state EXCEPT ![k] = @ \cup {p}],
                   wp |-> [x.dev.wp EXCEPT ![k] = @ + 1]]
      BY <2>9, <2>11, <3>1, ProgramFields
    <3> QED BY <3>2
  <2>14. ASSUME NEW j \in Lines PROVE y.dev.state[j] = d.state[j] \cup Reached(j, i + 1)
    <3>1. ASSUME NEW q \in Offsets
          PROVE  InRun(l, o, i + 1, j, q) <=> InRun(l, o, i, j, q) \/ (j = k /\ q = p)
      <4>1. PageNo(j, q) = base + i <=> j = k /\ q = p
        BY <1>2, <2>2, <2>3, PageOrder
      <4>2. PageNo(j, q) \in Nat
        BY <1>2
      <4> QED BY <2>4, <4>1, <4>2
    <3>2. x.dev.state \in [Lines -> SUBSET Offsets]
      BY <1>4 DEF Device
    <3>3. y.dev.state[j] = IF j = k THEN x.dev.state[j] \cup {p} ELSE x.dev.state[j]
      BY <2>13, <3>2
    <3>4. Reached(j, i + 1) = IF j = k THEN Reached(j, i) \cup {p} ELSE Reached(j, i)
      BY <3>1
    <3>5. x.dev.state[j] = d.state[j] \cup Reached(j, i)
      BY <1>4
    <3> HIDE DEF Reached
    <3> QED BY <3>3, <3>4, <3>5
  <2> QED BY <2>1, <2>2, <2>10, <2>11, <2>12, <2>14
<1> HIDE DEF Good
<1>5. Bad = {}
  <2> SUFFICES ASSUME Bad # {} PROVE FALSE
    OBVIOUS
  <2>1. Bad \in SUBSET Nat
    OBVIOUS
  <2>2. PICK m \in Bad : \A y \in Bad : m <= y
    BY <2>1, LeastNat
  <2>3. m \in 0 .. n /\ ~Good(f[m], m)
    OBVIOUS
  <2>4. m # 0
    BY <1>3, <2>3
  <2>5. /\ m \in 1 .. n /\ m - 1 \in 0 .. n /\ m - 1 \in 0 .. n - 1 /\ ~(m <= m - 1)
        /\ (m - 1) + 1 = m
    BY <2>3, <2>4
  <2>6. Good(f[m - 1], m - 1)
    BY <2>2, <2>5
  <2>7. Good(f[m], (m - 1) + 1)
    BY <1>1, <1>4, <2>5, <2>6
  <2> QED BY <2>3, <2>5, <2>7
<1>6. Good(f[n], n)
  <2>1. n \in 0 .. n /\ n \notin Bad
    <3> HIDE DEF Bad
    <3> QED BY <1>5
  <2> QED BY <2>1
<1> QED BY <1>1, <1>6 DEF Good, RunProgrammed

\* All pages of a run from the write pointer of a line on are accepted, when none of them
\* is programmed.
LEMMA AllAccepted ==
    ASSUME NEW d, NEW l, NEW o \in Nat, NEW n \in Nat, d.wp[l] = o,
           \A j \in 0 .. n - 1 : o + j \notin d.state[l]
    PROVE  Accepted(d, l, o, n) = n
<1> DEFINE Ok(k) == /\ \A j \in 0 .. k - 1 : o + j \notin d.state[l]
                    /\ k < n => o + k \in d.state[l]
<1>1. n \in 0 .. n /\ Ok(n)
  OBVIOUS
<1>2. ASSUME NEW k \in 0 .. n, Ok(k) PROVE k = n
  <2> SUFFICES ASSUME k # n PROVE FALSE
    OBVIOUS
  <2>1. k < n /\ k \in 0 .. n - 1
    OBVIOUS
  <2> QED BY <1>2, <2>1
<1>3. Accepted(d, l, o, n) = CHOOSE k \in 0 .. n : Ok(k)
  BY DEF Accepted
<1> HIDE DEF Ok
<1> QED BY <1>1, <1>2, <1>3

\* Two devices with agreeing records and the same programmed pages are the same.
LEMMA SamePages ==
    ASSUME NandAssumption, NEW d \in Device, NEW e \in Device, Prefix(d), Prefix(e),
           \A k \in Lines : d.state[k] = e.state[k]
    PROVE  d = e
<1>1. /\ d.state \in [Lines -> SUBSET Offsets] /\ d.wp \in [Lines -> 0 .. PagesPerLine]
      /\ e.state \in [Lines -> SUBSET Offsets] /\ e.wp \in [Lines -> 0 .. PagesPerLine]
      /\ d = [state |-> d.state, wp |-> d.wp] /\ e = [state |-> e.state, wp |-> e.wp]
  BY DEF Device
<1>2. ASSUME NEW a \in Nat, NEW b \in Nat, 0 .. a - 1 = 0 .. b - 1 PROVE a = b
  <2>1. a \notin 0 .. a - 1 /\ b \notin 0 .. b - 1
    OBVIOUS
  <2>2. a < b => a \in 0 .. b - 1
    OBVIOUS
  <2>3. b < a => b \in 0 .. a - 1
    OBVIOUS
  <2> QED BY <1>2, <2>1, <2>2, <2>3
<1>3. ASSUME NEW k \in Lines PROVE d.wp[k] = e.wp[k]
  <2>1. d.wp[k] \in Nat /\ e.wp[k] \in Nat
    BY <1>1 DEF NandAssumption
  <2>2. 0 .. d.wp[k] - 1 = 0 .. e.wp[k] - 1
    BY DEF Prefix
  <2> QED BY <1>2, <2>1, <2>2
<1>4. d.state = e.state /\ d.wp = e.wp
  BY <1>1, <1>3
<1> QED BY <1>1, <1>4

\* The closed form of a run inside a line is the loop.
LEMMA ClosedForm ==
    ASSUME NandAssumption, NEW d \in Device, Prefix(d), NEW l \in Lines, NEW o \in Offsets,
           NEW n \in Nat \ {0}, o + n <= PagesPerLine, NEW w, w = ssd_write_ppa(d, l, o, n)
    PROVE  w.dev = WriteRun(d, l, o, n) /\ ((w.rc = Done) <=> (Accepted(d, l, o, n) = n))
<1>1. /\ Lines \subseteq Nat /\ PagesPerLine \in Nat /\ PagesPerLine > 0
      /\ o \in Nat /\ n \in Nat /\ n > 0 /\ l \in Nat
      /\ d.state \in [Lines -> SUBSET Offsets] /\ d.wp \in [Lines -> 0 .. PagesPerLine]
      /\ d = [state |-> d.state, wp |-> d.wp]
  BY DEF NandAssumption, Device, Offsets
<1>2. d.wp[l] \in Nat /\ d.state[l] = 0 .. d.wp[l] - 1
  BY <1>1 DEF Prefix
<1>3. ASSUME NEW i \in 0 .. n - 1 PROVE LineOf(l, o, i) = l /\ OfftOf(o, i) = o + i
  <2>1. o + i \in Nat /\ o + i < PagesPerLine
    BY <1>1
  <2>2. (o + i) \div PagesPerLine = 0 /\ (o + i) % PagesPerLine = o + i
    BY <1>1, <2>1
  <2> QED BY <1>1, <2>2 DEF LineOf, OfftOf
<1>4. CASE d.wp[l] = o
  <2>1. \A j \in 0 .. n - 1 : o + j \notin d.state[l]
    BY <1>1, <1>2, <1>4
  <2>2. Accepted(d, l, o, n) = n
    BY <1>1, <1>4, <2>1, AllAccepted
  <2>3. ASSUME NEW k \in Lines, NEW p \in Offsets
        PROVE  InRun(l, o, n, k, p) <=> k = l /\ o <= p /\ p < o + n
    <3>1. k \in Nat /\ p \in Nat /\ p < PagesPerLine
      BY <1>1 DEF Offsets
    <3>2. PICK z \in Offsets : z = o + (n - 1)
      BY <1>1 DEF Offsets
    <3>3. PageNo(l, z) = PageNo(l, o) + (n - 1)
      BY <1>1, <3>2 DEF PageNo
    <3>4. /\ PageNo(l, o) \in Nat /\ PageNo(k, p) \in Nat
          /\ k < l => PageNo(k, p) < PageNo(l, o)
          /\ l < k => PageNo(l, z) < PageNo(k, p)
      BY <1>1, <3>1, <3>2, PageOrder
    <3>5. l * PagesPerLine \in Nat
      BY <1>1
    <3>6. k = l => PageNo(k, p) = l * PagesPerLine + p /\ PageNo(l, o) = l * PagesPerLine + o
      BY DEF PageNo
    <3>7. k = l \/ k < l \/ l < k
      BY <1>1, <3>1
    <3>8. CASE k = l
      BY <1>1, <3>1, <3>5, <3>6, <3>8 DEF InRun
    <3>9. CASE k < l
      BY <1>1, <3>1, <3>4, <3>9 DEF InRun
    <3>10. CASE l < k
      BY <1>1, <3>1, <3>3, <3>4, <3>10 DEF InRun
    <3> QED BY <3>7, <3>8, <3>9, <3>10
  <2>4. /\ w.rc = Done /\ w.dev \in Device /\ Prefix(w.dev)
        /\ \A k \in Lines : w.dev.state[k] = d.state[k] \cup { p \in Offsets : InRun(l, o, n, k, p) }
    <3>1. \A i \in 0 .. n - 1 : LineOf(l, o, i) \in Lines
      BY <1>3
    <3>2. \A k \in Lines, p \in Offsets : InRun(l, o, n, k, p) => p \notin d.state[k]
      BY <1>1, <1>2, <1>4, <2>3
    <3>3. ASSUME NEW k \in Lines, NEW p \in Offsets, NEW q \in Offsets, InRun(l, o, n, k, p), q < p
          PROVE  q \in d.state[k] \/ InRun(l, o, n, k, q)
      <4>1. k = l /\ o <= p /\ p < o + n
        BY <2>3, <3>3
      <4>2. q \in Nat /\ p \in Nat
        BY <1>1 DEF Offsets
      <4>3. CASE q < o
        BY <1>2, <1>4, <4>1, <4>2, <4>3
      <4>4. CASE q >= o
        <5>1. o <= q /\ q < o + n
          BY <1>1, <3>3, <4>1, <4>2, <4>4
        <5> QED BY <2>3, <4>1, <5>1
      <4> QED BY <1>1, <4>2, <4>3, <4>4
    <3> QED BY <1>1, <3>1, <3>2, <3>3, RunWritten DEF RunProgrammed
  <2>5. PICK e : e = WriteRun(d, l, o, n)
    OBVIOUS
  <2>6. /\ e = [state |-> e.state, wp |-> e.wp]
        /\ e.state = [d.state EXCEPT ![l] = @ \cup (o .. o + n - 1)]
        /\ e.wp = [d.wp EXCEPT ![l] = @ + n]
    <3>1. e = [d EXCEPT !.state[l] = @ \cup (o .. o + n - 1), !.wp[l] = @ + n]
      BY <2>2, <2>5 DEF WriteRun
    <3>2. e = [state |-> e.state, wp |-> e.wp]
      BY <1>1, <3>1
    <3>3. e.state = [d.state EXCEPT ![l] = @ \cup (o .. o + n - 1)]
      BY <1>1, <3>1
    <3>4. e.wp = [d.wp EXCEPT ![l] = @ + n]
      BY <1>1, <3>1
    <3> QED BY <3>2, <3>3, <3>4
  <2>7. ASSUME NEW k \in Lines
        PROVE  /\ e.state[k] = (IF k = l THEN 0 .. o + n - 1 ELSE d.state[k])
               /\ e.wp[k] = (IF k = l THEN o + n ELSE d.wp[k])
    <3>1. (0 .. o - 1) \cup (o .. o + n - 1) = 0 .. o + n - 1
      BY <1>1
    <3> QED BY <1>1, <1>2, <1>4, <2>6, <3>1
  <2>8. e \in Device
    <3>1. 0 .. o + n - 1 \subseteq Offsets /\ o + n \in 0 .. PagesPerLine
      BY <1>1 DEF Offsets
    <3>2. \A k \in Lines : e.state[k] \in SUBSET Offsets /\ e.wp[k] \in 0 .. PagesPerLine
      BY <1>1, <2>7, <3>1
    <3>3. e.state \in [Lines -> SUBSET Offsets] /\ e.wp \in [Lines -> 0 .. PagesPerLine]
      BY <1>1, <2>6, <3>2
    <3> QED BY <2>6, <3>3 DEF Device
  <2>9. Prefix(e)
    BY <1>1, <2>7 DEF Prefix
  <2>10. ASSUME NEW k \in Lines PROVE w.dev.state[k] = e.state[k]
    <3>1. CASE k = l
      <4>1. { p \in Offsets : InRun(l, o, n, k, p) } = o .. o + n - 1
        <5>1. o .. o + n - 1 \subseteq Offsets
          BY <1>1 DEF Offsets
        <5>2. \A p \in Offsets : InRun(l, o, n, k, p) <=> p \in o .. o + n - 1
          BY <1>1, <2>3, <3>1 DEF Offsets
        <5> QED BY <5>1, <5>2
      <4>2. (0 .. o - 1) \cup (o .. o + n - 1) = 0 .. o + n - 1
        BY <1>1
      <4> QED BY <1>2, <1>4, <2>4, <2>7, <3>1, <4>1, <4>2
    <3>2. CASE k # l
      <4>1. { p \in Offsets : InRun(l, o, n, k, p) } = {}
        BY <2>3, <3>2
      <4> QED BY <2>4, <2>7, <3>2, <4>1
    <3> QED BY <3>1, <3>2
  <2>11. w.dev = e
    BY <2>4, <2>8, <2>9, <2>10, SamePages
  <2> QED BY <2>2, <2>4, <2>5, <2>11
<1>5. CASE d.wp[l] # o
  <2>1. Accepted(d, l, o, n) = 0
    BY <1>5 DEF Accepted
  <2>2. WriteRun(d, l, o, n) = d
    <3>1. PICK e : e = WriteRun(d, l, o, n)
      OBVIOUS
    <3>2. e = [d EXCEPT !.state[l] = @ \cup (o .. o + 0 - 1), !.wp[l] = @ + 0]
      BY <2>1, <3>1 DEF WriteRun
    <3>3. e = [state |-> e.state, wp |-> e.wp]
      BY <1>1, <3>2
    <3>4. e.state = [d.state EXCEPT ![l] = @ \cup (o .. o + 0 - 1)]
      BY <1>1, <3>2
    <3>5. e.wp = [d.wp EXCEPT ![l] = @ + 0]
      BY <1>1, <3>2
    <3>6. o .. o + 0 - 1 = {} /\ d.wp[l] + 0 = d.wp[l]
      BY <1>1, <1>2
    <3>7. e.state = d.state /\ e.wp = d.wp
      BY <1>1, <3>4, <3>5, <3>6
    <3> QED BY <1>1, <3>1, <3>3, <3>7
  <2>3. ProgramResult(d, l, o) # Done
    BY <1>5 DEF ProgramResult, Done, Overwrite, OutOfOrder
  <2>4. PICK f : /\ w = f[n] /\ f[0] = [dev |-> d, rc |-> Done]
                 /\ \A i \in 1 .. n : f[i] = Step(f[i - 1], LineOf(l, o, i - 1), OfftOf(o, i - 1))
    BY <1>1, WriteLoop
  <2> DEFINE Refused(x) == x.rc # Done /\ x.dev = d
             Bad == { i \in 1 .. n : ~Refused(f[i]) }
  <2>5. Refused(f[1])
    <3>1. 1 \in 1 .. n /\ 0 \in 0 .. n - 1 /\ 1 - 1 = 0 /\ o + 0 = o
      BY <1>1
    <3>2. LineOf(l, o, 0) = l /\ OfftOf(o, 0) = o
      BY <1>3, <3>1
    <3>3. f[1] = Step(f[0], l, o)
      BY <2>4, <3>1, <3>2
    <3>4. f[1] = [dev |-> ProgramPage(d, l, o), rc |-> ProgramResult(d, l, o)]
      BY <2>4, <3>3 DEF Step
    <3>5. ProgramPage(d, l, o) = d
      BY <2>3 DEF ProgramPage
    <3> QED BY <2>3, <3>4, <3>5
  <2>6. \A x, k, p : Refused(x) => Refused(Step(x, k, p))
    BY DEF Step
  <2> HIDE DEF Refused
  <2>7. Bad = {}
    <3> SUFFICES ASSUME Bad # {} PROVE FALSE
      OBVIOUS
    <3>1. Bad \in SUBSET Nat
      BY <1>1
    <3>2. PICK m \in Bad : \A y \in Bad : m <= y
      BY <3>1, LeastNat
    <3>3. m \in 1 .. n /\ ~Refused(f[m])
      OBVIOUS
    <3>4. m # 1
      BY <2>5, <3>3
    <3>5. m - 1 \in 1 .. n /\ ~(m <= m - 1)
      BY <1>1, <3>3, <3>4
    <3>6. Refused(f[m - 1])
      BY <3>2, <3>5
    <3>7. Refused(f[m])
      BY <2>4, <2>6, <3>3, <3>6
    <3> QED BY <3>3, <3>7
  <2>8. Refused(f[n])
    <3>1. n \in 1 .. n /\ n \notin Bad
      <4> HIDE DEF Bad
      <4> QED BY <1>1, <2>7
    <3> QED BY <3>1
  <2>9. w.rc # Done /\ w.dev = d
    BY <2>4, <2>8 DEF Refused
  <2> QED BY <1>1, <2>1, <2>2, <2>9
<1> QED BY <1>4, <1>5

-----------------------------------------------------------------------------
(***************************************************************************)
(* The device under every command.                                         *)
(***************************************************************************)
\* The inductive invariant: a device, whose two records of every line agree.
DevInv == dev \in Device /\ rc \in {Done, Overwrite, OutOfOrder} /\ Prefix(dev)

\* What a command may change: it appends to lines or erases one.
Continues(d, e) ==
    \A l \in Lines : \/ e.wp[l] = 0 /\ e.state[l] = {}
                     \/ e.state[l] \ d.state[l] = d.wp[l] .. e.wp[l] - 1

\* A write keeps the records agreeing and appends.
LEMMA WriteContinues ==
    ASSUME NandAssumption, DevInv, NEW l \in Lines, NEW o \in Offsets, NEW n \in Nat, Write(l, o, n)
    PROVE  DevInv' /\ Continues(dev, dev')
<1>1. PICK w : w = ssd_write_ppa(dev, l, o, n)
  OBVIOUS
<1>2. dev' = w.dev /\ rc' = w.rc
  BY <1>1 DEF Write
<1>3. l \in Nat
  BY DEF NandAssumption
<1>4. /\ w.dev \in Device /\ Prefix(w.dev) /\ \A k \in Lines : dev.wp[k] <= w.dev.wp[k]
      /\ w.rc \in {Done, Overwrite, OutOfOrder}
  BY <1>1, <1>3, WriteSound DEF DevInv
<1>5. PICK e : e = w.dev
  OBVIOUS
<1>6. ASSUME NEW a \in Nat, NEW b \in Nat, a <= b
      PROVE  (0 .. b - 1) \ (0 .. a - 1) = a .. b - 1
  BY <1>6
<1>7. Continues(dev, e)
  <2>1. ASSUME NEW k \in Lines PROVE e.state[k] \ dev.state[k] = dev.wp[k] .. e.wp[k] - 1
    <3>1. dev.wp[k] \in 0 .. PagesPerLine /\ e.wp[k] \in 0 .. PagesPerLine
      BY <1>4, <1>5 DEF DevInv, Device
    <3>2. dev.wp[k] \in Nat /\ e.wp[k] \in Nat /\ dev.wp[k] <= e.wp[k]
      BY <1>4, <1>5, <3>1 DEF NandAssumption
    <3>3. dev.state[k] = 0 .. dev.wp[k] - 1 /\ e.state[k] = 0 .. e.wp[k] - 1
      BY <1>4, <1>5 DEF DevInv, Prefix
    <3> QED BY <1>6, <3>2, <3>3
  <2> QED BY <2>1 DEF Continues
<1>8. Prefix(dev')
  BY <1>2, <1>4
<1> QED BY <1>2, <1>4, <1>5, <1>7, <1>8 DEF DevInv, Prefix

\* A trim erases one line and leaves the others alone.
LEMMA TrimContinues ==
    ASSUME NandAssumption, DevInv, NEW l \in Lines, Trim(l)
    PROVE  DevInv' /\ Continues(dev, dev')
<1>1. /\ dev = [state |-> dev.state, wp |-> dev.wp]
      /\ dev.state \in [Lines -> SUBSET Offsets] /\ dev.wp \in [Lines -> 0 .. PagesPerLine]
      /\ PagesPerLine \in Nat
  BY DEF DevInv, Device, NandAssumption
<1>2. PICK e : e = dev'
  OBVIOUS
<1>3. e = [dev EXCEPT !.state[l] = {}, !.wp[l] = 0] /\ rc' = Done
  BY <1>2 DEF Trim, ssd_trim_block
<1>4. e.state = [dev.state EXCEPT ![l] = {}]
  BY <1>1, <1>3
<1>5. e.wp = [dev.wp EXCEPT ![l] = 0]
  BY <1>1, <1>3
<1>6. e = [state |-> e.state, wp |-> e.wp]
  BY <1>1, <1>3
<1>7. /\ e.state[l] = {} /\ e.wp[l] = 0
      /\ \A k \in Lines : k # l => e.state[k] = dev.state[k] /\ e.wp[k] = dev.wp[k]
  BY <1>1, <1>4, <1>5
<1>8. e \in Device
  <2>1. \A k \in Lines : e.state[k] \in SUBSET Offsets /\ e.wp[k] \in 0 .. PagesPerLine
    <3>1. e.state[l] \in SUBSET Offsets /\ e.wp[l] \in 0 .. PagesPerLine
      BY <1>1, <1>7
    <3>2. \A k \in Lines : k # l => e.state[k] \in SUBSET Offsets /\ e.wp[k] \in 0 .. PagesPerLine
      BY <1>1, <1>7
    <3> QED BY <3>1, <3>2
  <2>2. e.state \in [Lines -> SUBSET Offsets] /\ e.wp \in [Lines -> 0 .. PagesPerLine]
    BY <1>1, <1>4, <1>5, <2>1
  <2> QED BY <1>6, <2>2 DEF Device
<1>9. Prefix(e)
  <2>1. 0 .. 0 - 1 = {}
    OBVIOUS
  <2>2. \A k \in Lines : dev.state[k] = 0 .. dev.wp[k] - 1
    BY DEF DevInv, Prefix
  <2> QED BY <1>7, <2>1, <2>2 DEF Prefix
<1>10. Continues(dev, e)
  <2>1. ASSUME NEW k \in Lines, k # l PROVE e.state[k] \ dev.state[k] = dev.wp[k] .. e.wp[k] - 1
    <3>1. dev.wp[k] \in Nat
      BY <1>1
    <3>2. dev.wp[k] .. dev.wp[k] - 1 = {}
      BY <3>1
    <3>3. e.state[k] = dev.state[k] /\ e.wp[k] = dev.wp[k]
      BY <1>7, <2>1
    <3> QED BY <3>2, <3>3
  <2> QED BY <1>7, <2>1 DEF Continues
<1> QED BY <1>2, <1>3, <1>8, <1>9, <1>10 DEF DevInv, Prefix

\* The invariant holds at first.
LEMMA DevInit == ASSUME NandAssumption, NandInit PROVE DevInv
<1>1. dev = [state |-> [l \in Lines |-> {}], wp |-> [l \in Lines |-> 0]] /\ rc = Done
  BY DEF NandInit, ssd_init
<1>2. 0 \in 0 .. PagesPerLine /\ 0 .. 0 - 1 = {}
  BY DEF NandAssumption
<1>3. dev \in Device
  BY <1>1, <1>2 DEF Device
<1>4. Prefix(dev)
  BY <1>1, <1>2 DEF Prefix
<1> QED BY <1>1, <1>3, <1>4 DEF DevInv

\* Every step keeps the invariant and appends or erases.
LEMMA DevStep ==
    ASSUME NandDeviceAssumption, DevInv, [NandNext]_nandVars
    PROVE  DevInv' /\ (UNCHANGED nandVars \/ Continues(dev, dev'))
<1>1. NandAssumption /\ MaxRun \in Nat
  BY DEF NandDeviceAssumption
<1>2. ASSUME NEW l \in Lines, NEW o \in Offsets, NEW n \in 1 .. MaxRun, Write(l, o, n)
      PROVE  DevInv' /\ Continues(dev, dev')
  <2>1. n \in Nat
    BY <1>1
  <2> QED BY <1>1, <1>2, <2>1, WriteContinues
<1>3. ASSUME NEW l \in Lines, Trim(l) PROVE DevInv' /\ Continues(dev, dev')
  BY <1>1, <1>3, TrimContinues
<1>4. CASE UNCHANGED nandVars
  BY <1>4 DEF nandVars, DevInv, Prefix
<1> QED BY <1>2, <1>3, <1>4 DEF NandNext

\* The device keeps two agreeing records of every line, whatever command was refused
\* half-way.
THEOREM DeviceInvariant == ASSUME NandDeviceAssumption PROVE NandSpec => []DevInv
<1>1. NandInit => DevInv
  BY DevInit DEF NandDeviceAssumption
<1>2. DevInv /\ [NandNext]_nandVars => DevInv'
  BY DevStep
<1> QED BY <1>1, <1>2, PTL DEF NandSpec

\* The programmed pages are those below the write pointer, and a run inside a line is
\* written as its closed form says.
THEOREM PrefixAlways == ASSUME NandDeviceAssumption PROVE NandSpec => []WrittenPrefix
<1>1. DevInv => WrittenPrefix
  <2> SUFFICES ASSUME DevInv PROVE PrefixWritten /\ RunIsLoop
    BY DEF WrittenPrefix
  <2>1. PrefixWritten
    BY DEF PrefixWritten, DevInv, Prefix
  <2>2. ASSUME NEW l \in Lines, NEW o \in Offsets, NEW n \in 1 .. MaxRun, o + n <= PagesPerLine,
               NEW w, w = ssd_write_ppa(dev, l, o, n)
        PROVE  w.dev = WriteRun(dev, l, o, n) /\ ((w.rc = Done) <=> (Accepted(dev, l, o, n) = n))
    <3>1. n \in Nat \ {0} /\ NandAssumption
      BY DEF NandDeviceAssumption
    <3> QED BY <2>2, <3>1, ClosedForm DEF DevInv
  <2>3. RunIsLoop
    BY <2>2 DEF RunIsLoop
  <2> QED BY <2>1, <2>3
<1> QED BY <1>1, DeviceInvariant, PTL

\* No command leaves a hole or programs a page twice between two trims.
THEOREM AppendsOrErases == ASSUME NandDeviceAssumption PROVE NandSpec => AppendOrErase
<1>1. DevInv /\ [NandNext]_nandVars => UNCHANGED nandVars \/ Continues(dev, dev')
  BY DevStep
<1>2. DevInv /\ [NandNext]_nandVars =>
        [\A l \in Lines :
          \/ dev'.wp[l] = 0 /\ dev'.state[l] = {}
          \/ dev'.state[l] \ dev.state[l] = dev.wp[l] .. dev'.wp[l] - 1]_nandVars
  BY <1>1 DEF Continues
<1> QED BY <1>2, DeviceInvariant, PTL DEF NandSpec, AppendOrErase

=============================================================================
