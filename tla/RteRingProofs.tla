--------------------------- MODULE RteRingProofs ---------------------------
EXTENDS RteRing, FiniteSetTheorems, SequenceTheorems, TLAPS

(***************************************************************************)
(* The counters of the code wrap; the invariant speaks of the numbers they *)
(* stand for, and of the item each position of the ring has held.  That    *)
(* such numbers exist at every moment is the inductive invariant, RingInv. *)
(***************************************************************************)
Ghosts == [start : Nat,                    \* where the ring was idle
           ph : Nat, pt : Nat,             \* prod.head, prod.tail
           ch : Nat, ct : Nat,             \* cons.head, cons.tail
           at : [Threads -> Nat],          \* old
           item : [Nat -> Nat]]            \* what was enqueued at each position

Copies(t) == pc[t] \in {"copy", "tail"}
Waits(p)  == pc[p] \in {"head", "room", "cas"}

\* The positions that t has reserved.
Reach(g, t) == g.at[t] .. g.at[t] + n[t] - 1

\* The types of the variables.
Shape == /\ prod \in [head : Counters, tail : Counters]
         /\ cons \in [head : Counters, tail : Counters]
         /\ ring \in [Slots -> Nat]
         /\ pc \in [Threads -> {"idle", "head", "room", "cas", "copy", "tail", "count", "entries"}]
         /\ n \in [Threads -> 0 .. Capacity] /\ old \in [Threads -> Counters]
         /\ obj \in [Threads -> Seq(Nat)]
         /\ seen \in [Consumers -> 0 .. Capacity] /\ issued \in 0 .. MaxItems

\* The counters of the code are the numbers modulo the word.
Stands(g) == /\ prod.head = g.ph % Word /\ prod.tail = g.pt % Word
             /\ cons.head = g.ch % Word /\ cons.tail = g.ct % Word
             /\ \A t \in Threads : old[t] = g.at[t] % Word

\* The counters in order.  No more positions were handed out than objects offered.
InOrder(g) == /\ g.start <= g.ct /\ g.ct <= g.ch /\ g.ch <= g.pt /\ g.pt <= g.ph
              /\ g.ph <= g.ct + Capacity /\ g.ph <= g.start + issued

\* Where a producer is in its call.
Producing(g, p) ==
    /\ pc[p] \in {"idle", "head", "room", "cas", "copy", "tail"}
    /\ Len(obj[p]) = n[p] /\ (pc[p] = "idle" <=> n[p] = 0)
    /\ pc[p] \in {"room", "cas"} => /\ g.start <= g.at[p] /\ g.at[p] <= g.ph
                                    /\ SP => g.at[p] = g.ph
    /\ pc[p] = "cas" => g.at[p] + n[p] <= g.ct + Capacity
    /\ Copies(p) => /\ g.pt <= g.at[p] /\ g.at[p] + n[p] <= g.ph
                    /\ \A x \in Reach(g, p) : obj[p][x - g.at[p] + 1] = g.item[x]
    /\ pc[p] = "tail" => \A x \in Reach(g, p) : ring[Slot(x)] = g.item[x]

\* Where a consumer is in its call.
Consuming(g, c) ==
    /\ pc[c] \in {"idle", "count", "head", "entries", "cas", "copy", "tail"}
    /\ pc[c] \in {"idle", "count"} <=> n[c] = 0
    /\ pc[c] = "count" => SC /\ g.ct <= g.at[c] /\ g.at[c] <= g.pt
    /\ pc[c] \in {"entries", "cas"} => /\ g.start <= g.at[c] /\ g.at[c] <= g.ch
                                       /\ SC => g.at[c] = g.ch
    /\ pc[c] = "cas" => g.at[c] + n[c] <= g.pt
    /\ Copies(c) => g.ct <= g.at[c] /\ g.at[c] + n[c] <= g.ch
    /\ pc[c] = "tail" => obj[c] = [i \in 1 .. n[c] |-> g.item[g.at[c] + i - 1]]
    /\ pc[c] # "tail" => obj[c] = <<>>
    /\ SC /\ seen[c] > 0 /\ ~Copies(c) => g.ch < g.pt

\* The threads between head and tail have the positions between head and tail, each its
\* own and none left over.
Apart(g, T) == \A t, u \in T : t # u /\ Copies(t) /\ Copies(u) =>
                   g.at[t] + n[t] <= g.at[u] \/ g.at[u] + n[u] <= g.at[t]
Covered(g, T, lo, hi) == \A x \in lo .. hi - 1 : \E t \in T : Copies(t) /\ x \in Reach(g, t)

\* What was published and not yet released is in its slots.
Contents(g) == \A x \in g.ct .. g.pt - 1 : ring[Slot(x)] = g.item[x]

\* Each item was offered once: to a position or by a producer that has none yet.
Tickets(g) ==
    /\ \A x \in g.start .. g.ph - 1 : g.item[x] \in 1 .. issued
    /\ \A x, y \in g.start .. g.ph - 1 : g.item[x] = g.item[y] => x = y
    /\ \A p \in Producers : Waits(p) => \A i \in 1 .. n[p] :
          /\ obj[p][i] \in 1 .. issued
          /\ \A j \in 1 .. n[p] : obj[p][i] = obj[p][j] => i = j
          /\ \A x \in g.start .. g.ph - 1 : g.item[x] # obj[p][i]
          /\ \A q \in Producers \ {p} : Waits(q) => \A j \in 1 .. n[q] : obj[p][i] # obj[q][j]

Sound(g) == /\ Stands(g) /\ InOrder(g)
            /\ \A p \in Producers : Producing(g, p)
            /\ \A c \in Consumers : Consuming(g, c)
            /\ Apart(g, Producers) /\ Covered(g, Producers, g.pt, g.ph)
            /\ Apart(g, Consumers) /\ Covered(g, Consumers, g.ct, g.ch)
            /\ Contents(g) /\ Tickets(g)

RingInv == Shape /\ \E g \in Ghosts : Sound(g)

-----------------------------------------------------------------------------
(***************************************************************************)
(* Counters that wrap.                                                     *)
(***************************************************************************)
\* A number is a multiple and a remainder.
LEMMA ModExists ==
  ASSUME NEW z \in Int, NEW N \in Nat \ {0}
  PROVE  z % N \in 0 .. N - 1 /\ \E q \in Int : z = N * q + (z % N)
<1>1. z % N \in 0 .. N - 1
  OBVIOUS
<1>2. z = N * (z \div N) + (z % N)
  OBVIOUS
<1>3. z \div N \in Int
  OBVIOUS
<1> QED BY <1>1, <1>2, <1>3

\* A multiple of N closer to 0 than N is 0.
LEMMA SmallProduct ==
  ASSUME NEW q \in Int, NEW N \in Nat \ {0}, N * q < N, N * q > 0 - N
  PROVE  q = 0
<1>1. q >= 1 => N * q >= N
  OBVIOUS
<1>2. q <= 0 - 1 => N * q <= 0 - N
  OBVIOUS
<1> QED BY <1>1, <1>2

\* z is a number of whole turns.
Mult(N, z) == \E m \in Int : z = N * m

\* The remainder, and that what it leaves out is whole turns.
LEMMA ModMult ==
  ASSUME NEW z \in Int, NEW N \in Nat \ {0}
  PROVE  z % N \in 0 .. N - 1 /\ Mult(N, z - (z % N))
<1>1. PICK q \in Int : z = N * q + (z % N)
  BY ModExists
<1>2. z % N \in 0 .. N - 1
  BY ModExists
<1>3. PICK a \in Int : a = N * q
  OBVIOUS
<1>4. z - (z % N) = a
  BY <1>1, <1>2, <1>3
<1> QED BY <1>2, <1>3, <1>4 DEF Mult

\* Less than a turn that is whole turns is none.
LEMMA MultSmall ==
  ASSUME NEW z \in Int, NEW N \in Nat \ {0}, Mult(N, z), z < N, 0 - z < N
  PROVE  z = 0
<1>1. PICK m \in Int : z = N * m
  BY DEF Mult
<1>2. m = 0
  BY <1>1, SmallProduct
<1> QED BY <1>1, <1>2

\* Sums and differences of whole turns are whole turns.
LEMMA MultAdd ==
  ASSUME NEW y \in Int, NEW z \in Int, NEW N \in Nat \ {0}, Mult(N, y), Mult(N, z)
  PROVE  Mult(N, y + z) /\ Mult(N, y - z)
<1>1. PICK k \in Int : y = N * k
  BY DEF Mult
<1>2. PICK m \in Int : z = N * m
  BY DEF Mult
<1>3. N * (k + m) = N * k + N * m /\ N * (k - m) = N * k - N * m
  OBVIOUS
<1>4. y + z = N * (k + m) /\ y - z = N * (k - m) /\ k + m \in Int /\ k - m \in Int
  BY <1>1, <1>2, <1>3
<1> QED BY <1>4 DEF Mult

\* Numbers that differ by whole turns have the same remainder.
LEMMA SameRemainder ==
  ASSUME NEW y \in Int, NEW z \in Int, NEW N \in Nat \ {0}, Mult(N, y - z)
  PROVE  y % N = z % N
<1>1. y % N \in 0 .. N - 1 /\ Mult(N, y - (y % N))
  BY ModMult
<1>2. z % N \in 0 .. N - 1 /\ Mult(N, z - (z % N))
  BY ModMult
<1>3. PICK a \in Int : a = y % N
  BY <1>1
<1>4. PICK b \in Int : b = z % N
  BY <1>2
<1>5. Mult(N, (y - a) - (z - b))
  BY <1>1, <1>2, <1>3, <1>4, MultAdd
<1>6. Mult(N, (y - z) - ((y - a) - (z - b)))
  BY <1>5, MultAdd
<1>7. (y - z) - ((y - a) - (z - b)) = a - b
  OBVIOUS
<1>8. Mult(N, a - b)
  BY <1>6, <1>7
<1>9. a - b = 0
  BY <1>1, <1>2, <1>3, <1>4, <1>8, MultSmall
<1> QED BY <1>3, <1>4, <1>9

\* The remainder is the one number below N that is whole turns away.
LEMMA Remainder ==
  ASSUME NEW y \in Int, NEW N \in Nat \ {0}, NEW r \in 0 .. N - 1, Mult(N, y - r)
  PROVE  y % N = r
<1>1. y % N \in 0 .. N - 1 /\ Mult(N, y - (y % N))
  BY ModMult
<1>2. PICK a \in Int : a = y % N
  BY <1>1
<1>3. Mult(N, (y - r) - (y - a))
  BY <1>1, <1>2, MultAdd
<1>4. (y - r) - (y - a) = a - r
  OBVIOUS
<1>5. a - r = 0
  BY <1>1, <1>2, <1>3, <1>4, MultSmall
<1> QED BY <1>2, <1>5

\* The counters' word is a whole number of turns of the ring.
LEMMA Turns ==
  ASSUME RteRingAssumption
  PROVE  /\ Size \in Nat \ {0} /\ Word \in Nat \ {0} /\ Size > 1 /\ Word > Size
         /\ Capacity \in Nat \ {0} /\ Capacity = Size - 1
         /\ MaxItems \in Nat /\ MaxItems + Size <= Word
         /\ Mult(Size, Word)
<1>1. PICK k \in 2 .. Word : Word = k * Size
  BY DEF RteRingAssumption
<1>2. Size \in Nat /\ Size > 1 /\ k \in Nat /\ k >= 2 /\ Word \in Nat
  BY DEF RteRingAssumption
<1>3. k * Size = Size * k /\ k * Size >= 2 * Size
  BY <1>2
<1>4. Mult(Size, Word)
  BY <1>1, <1>2, <1>3 DEF Mult
<1> QED BY <1>1, <1>2, <1>3, <1>4 DEF RteRingAssumption, Capacity

\* What the assumption says of the numbers, without the turns.
LEMMA Sizes ==
  ASSUME RteRingAssumption
  PROVE  /\ Size \in Nat \ {0} /\ Word \in Nat \ {0} /\ Size > 1 /\ Word > Size
         /\ Capacity \in Nat \ {0} /\ Capacity = Size - 1
         /\ MaxItems \in Nat /\ MaxItems + Size <= Word
BY Turns

\* The remainder modulo the word.
LEMMA WordRest ==
  ASSUME RteRingAssumption, NEW x \in Int
  PROVE  x % Word \in 0 .. Word - 1 /\ Mult(Word, x - (x % Word))
<1>1. PICK N \in Nat \ {0} : N = Word
  BY Sizes
<1>2. x % N \in 0 .. N - 1 /\ Mult(N, x - (x % N))
  BY ModMult
<1> QED BY <1>1, <1>2

\* The remainder modulo the size.
LEMMA SizeRest ==
  ASSUME RteRingAssumption, NEW x \in Int
  PROVE  x % Size \in 0 .. Size - 1 /\ Mult(Size, x - (x % Size))
<1>1. PICK N \in Nat \ {0} : N = Size
  BY Sizes
<1>2. x % N \in 0 .. N - 1 /\ Mult(N, x - (x % N))
  BY ModMult
<1> QED BY <1>1, <1>2

\* Turns of the counters are turns of the ring.
LEMMA RingTurns ==
  ASSUME RteRingAssumption, NEW z \in Int, Mult(Word, z)
  PROVE  Mult(Size, z)
<1>1. PICK k \in Int : Word = Size * k
  BY Turns DEF Mult
<1>2. PICK m \in Int : z = Word * m
  BY DEF Mult
<1>3. Word * m = Size * (k * m) /\ k * m \in Int
  BY <1>1, Sizes
<1> QED BY <1>2, <1>3 DEF Mult

\* A counter is known modulo Word, a slot modulo Size: wrapping the counter first
\* changes no slot.
LEMMA SlotWraps ==
  ASSUME RteRingAssumption, NEW x \in Nat, NEW j \in Int
  PROVE  Slot((x % Word) + j) = Slot(x + j)
<1>1. x % Word \in 0 .. Word - 1 /\ Mult(Word, x - (x % Word))
  BY WordRest
<1>2. PICK a \in Int : a = x % Word
  BY <1>1, Sizes
<1>3. Mult(Size, x - a)
  BY <1>1, <1>2, RingTurns
<1>4. x - a = (x + j) - (a + j)
  OBVIOUS
<1>5. (x + j) % Size = (a + j) % Size
  BY <1>3, <1>4, SameRemainder, Sizes
<1> QED BY <1>2, <1>5 DEF Slot

\* Wrapped addition is the addition of what the counters stand for.
LEMMA PlusWraps ==
  ASSUME RteRingAssumption, NEW x \in Nat, NEW j \in Int
  PROVE  Plus(x % Word, j) = (x + j) % Word
<1>1. x % Word \in 0 .. Word - 1 /\ Mult(Word, x - (x % Word))
  BY WordRest
<1>2. PICK a \in Int : a = x % Word
  BY <1>1, Sizes
<1>3. x - a = (x + j) - (a + j)
  OBVIOUS
<1>4. (x + j) % Word = (a + j) % Word
  BY <1>1, <1>2, <1>3, SameRemainder, Sizes
<1> QED BY <1>2, <1>4 DEF Plus

\* Wrapped subtraction is exact over less than a turn of the counters.
LEMMA MinusWraps ==
  ASSUME RteRingAssumption, NEW x \in Nat, NEW y \in Nat, y <= x, x - y < Word
  PROVE  Minus(x % Word, y % Word) = x - y
<1>1. x % Word \in 0 .. Word - 1 /\ Mult(Word, x - (x % Word))
  BY WordRest
<1>2. y % Word \in 0 .. Word - 1 /\ Mult(Word, y - (y % Word))
  BY WordRest
<1>3. PICK a \in Int : a = x % Word
  BY <1>1, Sizes
<1>4. PICK b \in Int : b = y % Word
  BY <1>2, Sizes
<1>5. Mult(Word, (y - b) - (x - a))
  BY <1>1, <1>2, <1>3, <1>4, MultAdd, Sizes
<1>6. (y - b) - (x - a) = (a - b) - (x - y)
  OBVIOUS
<1>7. x - y \in 0 .. Word - 1
  BY Sizes
<1>8. (a - b) % Word = x - y
  BY <1>5, <1>6, <1>7, Remainder, Sizes
<1> QED BY <1>3, <1>4, <1>8 DEF Minus

\* Counters less than a turn apart are equal when their words are.
LEMMA SameWord ==
  ASSUME RteRingAssumption, NEW x \in Nat, NEW y \in Nat, x - y < Word, y - x < Word,
         x % Word = y % Word
  PROVE  x = y
<1>1. y <= x => x - y = Minus(y % Word, y % Word)
  BY MinusWraps
<1>2. x <= y => y - x = Minus(y % Word, y % Word)
  BY MinusWraps
<1>3. Minus(y % Word, y % Word) = 0
  BY MinusWraps, Sizes
<1> QED BY <1>1, <1>2, <1>3

\* Counters less than a turn of the ring apart have slots of their own.
LEMMA SlotsApart ==
  ASSUME RteRingAssumption, NEW x \in Nat, NEW y \in Nat, x - y < Size, y - x < Size,
         Slot(x) = Slot(y)
  PROVE  x = y
<1>1. x % Size \in 0 .. Size - 1 /\ Mult(Size, x - (x % Size))
  BY SizeRest
<1>2. PICK a \in Int : a = x % Size
  BY <1>1, Sizes
<1>3. Mult(Size, y - a)
  BY <1>2, SizeRest DEF Slot
<1>4. Mult(Size, (y - a) - (x - a))
  BY <1>1, <1>2, <1>3, MultAdd, Sizes
<1>5. (y - a) - (x - a) = y - x
  OBVIOUS
<1>6. y - x = 0
  BY <1>4, <1>5, MultSmall, Sizes
<1> QED BY <1>6

\* Which of the slots from o on the slot of x is.
LEMMA SlotFrom ==
  ASSUME RteRingAssumption, NEW x \in Nat, NEW o \in Nat, x - o < Size, o - x < Size
  PROVE  Slot(Minus(Slot(x), o % Word)) = IF o <= x THEN x - o ELSE x - o + Size
<1>1. x % Size \in 0 .. Size - 1 /\ Mult(Size, x - (x % Size))
  BY SizeRest
<1>2. o % Word \in 0 .. Word - 1 /\ Mult(Word, o - (o % Word))
  BY WordRest
<1>3. PICK a \in Int : a = x % Size
  BY <1>1, Sizes
<1>4. PICK b \in Int : b = o % Word
  BY <1>2, Sizes
<1>5. (a - b) % Word \in 0 .. Word - 1 /\ Mult(Word, (a - b) - ((a - b) % Word))
  BY WordRest
<1>6. PICK d \in Int : d = (a - b) % Word
  BY <1>5, Sizes
<1>7. Mult(Size, x - a) /\ Mult(Size, o - b) /\ Mult(Size, (a - b) - d)
  BY <1>1, <1>2, <1>3, <1>4, <1>5, <1>6, RingTurns
<1>8. Mult(Size, (x - a) - (o - b))
  BY <1>7, MultAdd, Sizes
<1>9. Mult(Size, ((x - a) - (o - b)) + ((a - b) - d))
  BY <1>7, <1>8, MultAdd, Sizes
<1>10. ((x - a) - (o - b)) + ((a - b) - d) = (x - o) - d
  OBVIOUS
<1>11. Mult(Size, Size)
  <2>1. Size = Size * 1
    BY Sizes
  <2> QED BY <2>1 DEF Mult
<1>12. Mult(Size, (x - o) - d) /\ Mult(Size, 0 - ((x - o) - d))
  <2>1. Mult(Size, 0)
    <3>1. Size - Size = 0
      BY Sizes
    <3> QED BY <1>11, <3>1, MultAdd, Sizes
  <2> QED BY <1>9, <1>10, <2>1, MultAdd, Sizes
<1>13. CASE o <= x
  <2>1. d - (x - o) = 0 - ((x - o) - d) /\ x - o \in 0 .. Size - 1
    BY <1>13, Sizes
  <2>2. d % Size = x - o
    BY <1>12, <2>1, Remainder, Sizes
  <2> QED BY <1>3, <1>4, <1>6, <1>13, <2>2 DEF Slot, Minus
<1>14. CASE ~(o <= x)
  <2>1. x - o + Size \in 0 .. Size - 1
    BY <1>14, Sizes
  <2>2. Mult(Size, (0 - ((x - o) - d)) - Size)
    BY <1>11, <1>12, MultAdd, Sizes
  <2>3. (0 - ((x - o) - d)) - Size = d - (x - o + Size)
    BY Sizes
  <2>4. d % Size = x - o + Size
    BY <2>1, <2>2, <2>3, Remainder, Sizes
  <2> QED BY <1>3, <1>4, <1>6, <1>14, <2>4 DEF Slot, Minus
<1> QED BY <1>13, <1>14
-----------------------------------------------------------------------------
(***************************************************************************)
(* Steps of one thread that leave the ring and its counters alone.         *)
(***************************************************************************)
\* h is g but for what t remembers of a head.
SameBut(g, h, t, v) ==
    /\ h.start = g.start /\ h.ph = g.ph /\ h.pt = g.pt /\ h.ch = g.ch /\ h.ct = g.ct
    /\ h.item = g.item
    /\ h.at = [g.at EXCEPT ![t] = v]

\* A ghost, field by field.
LEMMA GhostTypes ==
  ASSUME NEW g \in Ghosts
  PROVE  /\ g.start \in Nat /\ g.ph \in Nat /\ g.pt \in Nat /\ g.ch \in Nat /\ g.ct \in Nat
         /\ g.at \in [Threads -> Nat] /\ g.item \in [Nat -> Nat]
BY DEF Ghosts

IsGhost(h, start, ph, pt, ch, ct, at, item) ==
    /\ h.start = start /\ h.ph = ph /\ h.pt = pt /\ h.ch = ch /\ h.ct = ct
    /\ h.at = at /\ h.item = item

\* There is a ghost with any given fields.
LEMMA GhostWith ==
  ASSUME NEW start \in Nat, NEW ph \in Nat, NEW pt \in Nat, NEW ch \in Nat, NEW ct \in Nat,
         NEW at \in [Threads -> Nat], NEW item \in [Nat -> Nat]
  PROVE  \E h \in Ghosts : IsGhost(h, start, ph, pt, ch, ct, at, item)
<1>1. PICK h : h = [start |-> start, ph |-> ph, pt |-> pt, ch |-> ch, ct |-> ct,
                    at |-> at, item |-> item]
  OBVIOUS
<1>2. h \in Ghosts
  BY <1>1 DEF Ghosts
<1> QED BY <1>1, <1>2 DEF IsGhost

\* A ghost may be changed at one thread.
LEMMA GhostAt ==
  ASSUME NEW g \in Ghosts, NEW t \in Threads, NEW v \in Nat
  PROVE  \E h \in Ghosts : SameBut(g, h, t, v)
<1>1. PICK at \in [Threads -> Nat] : at = [g.at EXCEPT ![t] = v]
  BY GhostTypes
<1>2. /\ g.start \in Nat /\ g.ph \in Nat /\ g.pt \in Nat /\ g.ch \in Nat /\ g.ct \in Nat
      /\ g.item \in [Nat -> Nat]
  BY GhostTypes
<1>3. \E h \in Ghosts : IsGhost(h, g.start, g.ph, g.pt, g.ch, g.ct, at, g.item)
  BY <1>1, <1>2, GhostWith
<1> QED BY <1>1, <1>3 DEF SameBut, IsGhost

\* What keeps a producer in its place while others move.
LEMMA ProducerKeeps ==
  ASSUME RteRingAssumption, Shape, NEW g \in Ghosts, NEW h \in Ghosts, NEW p \in Producers, Producing(g, p),
         pc'[p] = pc[p], n'[p] = n[p], obj'[p] = obj[p], h.at[p] = g.at[p],
         h.start = g.start, g.ph <= h.ph, SP /\ ~Copies(p) => h.ph = g.ph,
         g.ct <= h.ct, Copies(p) => h.pt <= g.at[p],
         \A x \in g.pt .. g.ph - 1 : h.item[x] = g.item[x],
         pc[p] = "tail" => \A x \in Reach(g, p) : ring'[Slot(x)] = ring[Slot(x)]
  PROVE  Producing(h, p)'
<1>1. p \in Threads /\ n[p] \in Nat /\ g.at[p] \in Nat
  BY GhostTypes DEF Shape, Threads, Capacity
<1>2. Reach(h, p)' = Reach(g, p) /\ (Copies(p)' <=> Copies(p))
  BY DEF Reach, Copies
<1>3. ASSUME Copies(p)
      PROVE  \A x \in Reach(g, p) : h.item[x] = g.item[x]
  <2>0. g.pt <= g.at[p] /\ g.at[p] + n[p] <= g.ph
    BY <1>3 DEF Producing
  <2>1. Reach(g, p) \subseteq g.pt .. g.ph - 1
    BY <1>1, <2>0, GhostTypes DEF Reach
  <2> QED BY <2>1
<1>4. /\ pc'[p] \in {"idle", "head", "room", "cas", "copy", "tail"}
      /\ Len(obj'[p]) = n'[p] /\ (pc'[p] = "idle" <=> n'[p] = 0)
  BY DEF Producing
<1>5. pc'[p] \in {"room", "cas"} => /\ h.start <= h.at[p] /\ h.at[p] <= h.ph
                                    /\ SP => h.at[p] = h.ph
  BY <1>1, GhostTypes DEF Producing, Copies
<1>6. pc'[p] = "cas" => h.at[p] + n'[p] <= h.ct + Capacity
  <2>1. pc[p] = "cas" => g.at[p] + n[p] <= g.ct + Capacity
    BY DEF Producing
  <2> QED BY <1>1, <2>1, Sizes, GhostTypes
<1>7. Copies(p)' => /\ h.pt <= h.at[p] /\ h.at[p] + n'[p] <= h.ph
                    /\ \A x \in Reach(h, p)' : obj'[p][x - h.at[p] + 1] = h.item[x]
  <2> SUFFICES ASSUME Copies(p)
               PROVE  /\ h.pt <= h.at[p] /\ h.at[p] + n'[p] <= h.ph
                      /\ \A x \in Reach(h, p)' : obj'[p][x - h.at[p] + 1] = h.item[x]
    BY <1>2
  <2>1. /\ g.at[p] + n[p] <= g.ph
        /\ \A x \in Reach(g, p) : obj[p][x - g.at[p] + 1] = g.item[x]
    BY DEF Producing
  <2>2. h.at[p] + n'[p] <= h.ph
    BY <1>1, <2>1, GhostTypes
  <2>3. \A x \in Reach(h, p)' : obj'[p][x - h.at[p] + 1] = h.item[x]
    BY <1>2, <1>3, <2>1
  <2> QED BY <2>2, <2>3
<1>8. pc'[p] = "tail" => \A x \in Reach(h, p)' : ring'[Slot(x)] = h.item[x]
  BY <1>2, <1>3 DEF Producing, Copies
<1> QED BY <1>4, <1>5, <1>6, <1>7, <1>8 DEF Producing

\* What keeps a consumer in its place while others move.
LEMMA ConsumerKeeps ==
  ASSUME Shape, NEW g \in Ghosts, NEW h \in Ghosts, NEW c \in Consumers, Consuming(g, c),
         pc'[c] = pc[c], n'[c] = n[c], obj'[c] = obj[c], seen'[c] = seen[c],
         h.at[c] = g.at[c], h.start = g.start, g.ch <= h.ch, g.pt <= h.pt,
         SC => h.ch = g.ch /\ h.ct = g.ct, Copies(c) => h.ct <= g.at[c],
         \A x \in g.ct .. g.ch - 1 : h.item[x] = g.item[x]
  PROVE  Consuming(h, c)'
<1>1. c \in Threads /\ n[c] \in Nat /\ g.at[c] \in Nat
  BY GhostTypes DEF Shape, Threads, Capacity
<1>2. Copies(c)' <=> Copies(c)
  BY DEF Copies
<1>3. pc[c] = "tail" => [i \in 1 .. n[c] |-> h.item[h.at[c] + i - 1]]
                          = [i \in 1 .. n[c] |-> g.item[g.at[c] + i - 1]]
  <2> SUFFICES ASSUME pc[c] = "tail", NEW i \in 1 .. n[c]
               PROVE  h.item[g.at[c] + i - 1] = g.item[g.at[c] + i - 1]
    OBVIOUS
  <2>1. g.ct <= g.at[c] /\ g.at[c] + n[c] <= g.ch
    BY DEF Consuming, Copies
  <2>2. g.at[c] + i - 1 \in g.ct .. g.ch - 1
    BY <1>1, <2>1, GhostTypes
  <2> QED BY <2>2
<1>4. /\ pc'[c] \in {"idle", "count", "head", "entries", "cas", "copy", "tail"}
      /\ pc'[c] \in {"idle", "count"} <=> n'[c] = 0
  BY DEF Consuming
<1>5. pc'[c] = "count" => SC /\ h.ct <= h.at[c] /\ h.at[c] <= h.pt
  BY <1>1, GhostTypes DEF Consuming
<1>6. pc'[c] \in {"entries", "cas"} => /\ h.start <= h.at[c] /\ h.at[c] <= h.ch
                                       /\ SC => h.at[c] = h.ch
  BY <1>1, GhostTypes DEF Consuming
<1>7. pc'[c] = "cas" => h.at[c] + n'[c] <= h.pt
  BY <1>1, GhostTypes DEF Consuming
<1>8. Copies(c)' => h.ct <= h.at[c] /\ h.at[c] + n'[c] <= h.ch
  BY <1>1, <1>2, GhostTypes DEF Consuming
<1>9. /\ pc'[c] = "tail" => obj'[c] = [i \in 1 .. n'[c] |-> h.item[h.at[c] + i - 1]]
      /\ pc'[c] # "tail" => obj'[c] = <<>>
  BY <1>3 DEF Consuming
<1>10. SC /\ seen'[c] > 0 /\ ~Copies(c)' => h.ch < h.pt
  BY <1>2, GhostTypes DEF Consuming
<1> QED BY <1>4, <1>5, <1>6, <1>7, <1>8, <1>9, <1>10 DEF Consuming

\* Reservations stay apart while none is added or moved.
LEMMA ApartKeeps ==
  ASSUME NEW g \in Ghosts, NEW h \in Ghosts, NEW T, Apart(g, T),
         \A t \in T : Copies(t)' => Copies(t) /\ n'[t] = n[t] /\ h.at[t] = g.at[t]
  PROVE  Apart(h, T)'
BY DEF Apart

\* What the reservations cover stays covered while none is dropped or moved.
LEMMA CoveredKeeps ==
  ASSUME NEW g \in Ghosts, NEW h \in Ghosts, NEW T, NEW lo \in Nat, NEW hi \in Nat,
         NEW lo1 \in Nat, NEW hi1 \in Nat, lo <= lo1, hi1 <= hi, Covered(g, T, lo, hi),
         \A t \in T : Copies(t) => Copies(t)' /\ n'[t] = n[t] /\ h.at[t] = g.at[t]
  PROVE  Covered(h, T, lo1, hi1)'
<1>1. lo1 .. hi1 - 1 \subseteq lo .. hi - 1
  OBVIOUS
<1>2. \A x \in lo1 .. hi1 - 1 : \E t \in T : Copies(t) /\ x \in Reach(g, t)
  BY <1>1 DEF Covered
<1>3. \A x \in lo1 .. hi1 - 1 : \E t \in T : Copies(t)' /\ x \in Reach(h, t)'
  BY <1>2 DEF Reach
<1> QED BY <1>3 DEF Covered

\* All threads but t stay where they are.
OthersStay(t) ==
    /\ \A u \in Threads \ {t} : /\ pc'[u] = pc[u] /\ n'[u] = n[u]
                                /\ obj'[u] = obj[u] /\ old'[u] = old[u]
    /\ \A c \in Consumers \ {t} : seen'[c] = seen[c]

\* The items stay distinct while none is offered or handed a position.
LEMMA TicketsKeep ==
  ASSUME NEW g \in Ghosts, NEW h \in Ghosts, Tickets(g), issued' = issued,
         h.start = g.start, h.ph = g.ph, h.item = g.item,
         \A p \in Producers : Waits(p)' => Waits(p) /\ n'[p] = n[p] /\ obj'[p] = obj[p]
  PROVE  Tickets(h)'
<1>1. \A x \in h.start .. h.ph - 1 : h.item[x] \in 1 .. issued'
  BY DEF Tickets
<1>2. \A x, y \in h.start .. h.ph - 1 : h.item[x] = h.item[y] => x = y
  BY DEF Tickets
<1>3. ASSUME NEW p \in Producers, Waits(p)', NEW i \in 1 .. n'[p]
      PROVE  /\ obj'[p][i] \in 1 .. issued'
             /\ \A j \in 1 .. n'[p] : obj'[p][i] = obj'[p][j] => i = j
             /\ \A x \in h.start .. h.ph - 1 : h.item[x] # obj'[p][i]
             /\ \A q \in Producers \ {p} : Waits(q)' => \A j \in 1 .. n'[q] : obj'[p][i] # obj'[q][j]
  <2>1. Waits(p) /\ n'[p] = n[p] /\ obj'[p] = obj[p] /\ i \in 1 .. n[p]
    BY <1>3
  <2>2. /\ obj[p][i] \in 1 .. issued
        /\ \A j \in 1 .. n[p] : obj[p][i] = obj[p][j] => i = j
        /\ \A x \in g.start .. g.ph - 1 : g.item[x] # obj[p][i]
        /\ \A q \in Producers \ {p} : Waits(q) => \A j \in 1 .. n[q] : obj[p][i] # obj[q][j]
    BY <2>1 DEF Tickets
  <2>3. \A q \in Producers \ {p} : Waits(q)' => \A j \in 1 .. n'[q] : obj'[p][i] # obj'[q][j]
    BY <2>1, <2>2
  <2> QED BY <2>1, <2>2, <2>3
<1> QED BY <1>1, <1>2, <1>3 DEF Tickets

\* A step that changes only what one thread remembers of a head.
LEMMA LocalStep ==
  ASSUME RteRingAssumption, Shape, NEW g \in Ghosts, Sound(g), NEW h \in Ghosts,
         NEW t \in Threads, NEW v \in Nat, SameBut(g, h, t, v),
         prod' = prod, cons' = cons, ring' = ring, issued <= issued', issued' \in Nat,
         OthersStay(t), old'[t] = v % Word,
         Copies(t)' <=> Copies(t), Copies(t) => n'[t] = n[t] /\ v = g.at[t],
         t \in Producers => Producing(h, t)', t \in Consumers => Consuming(h, t)',
         Tickets(h)'
  PROVE  Sound(h)'
<1>1. /\ h.start = g.start /\ h.ph = g.ph /\ h.pt = g.pt /\ h.ch = g.ch /\ h.ct = g.ct
      /\ h.item = g.item /\ h.at[t] = v /\ \A u \in Threads \ {t} : h.at[u] = g.at[u]
  BY GhostTypes DEF SameBut
<1>2. \A u \in Threads : /\ Copies(u)' <=> Copies(u)
                         /\ Copies(u) => n'[u] = n[u] /\ h.at[u] = g.at[u]
  BY <1>1 DEF OthersStay, Copies
<1>3. Stands(h)'
  BY <1>1 DEF Sound, Stands, OthersStay
<1>4. InOrder(h)'
  <2>1. g.ph <= g.start + issued
    BY DEF Sound, InOrder
  <2>2. issued \in Nat
    BY Sizes DEF Shape
  <2>3. g.ph <= g.start + issued'
    BY <2>1, <2>2, GhostTypes
  <2> QED BY <1>1, <2>3 DEF Sound, InOrder
<1>5. ASSUME NEW p \in Producers PROVE Producing(h, p)'
  <2>1. CASE p = t
    BY <2>1
  <2>2. CASE p # t
    <3>1. /\ Producing(g, p) /\ pc'[p] = pc[p] /\ n'[p] = n[p] /\ obj'[p] = obj[p]
          /\ h.at[p] = g.at[p] /\ h.start = g.start
      BY <1>1, <2>2 DEF Sound, OthersStay, Threads
    <3>2. /\ g.ph <= h.ph /\ h.ph = g.ph /\ g.ct <= h.ct
          /\ \A x \in g.pt .. g.ph - 1 : h.item[x] = g.item[x]
      BY <1>1, GhostTypes
    <3>3. Copies(p) => h.pt <= g.at[p]
      BY <1>1, <3>1 DEF Producing
    <3>4. \A x \in Reach(g, p) : ring'[Slot(x)] = ring[Slot(x)]
      OBVIOUS
    <3> QED BY <3>1, <3>2, <3>3, <3>4, ProducerKeeps
  <2> QED BY <2>1, <2>2
<1>6. ASSUME NEW c \in Consumers PROVE Consuming(h, c)'
  <2>1. CASE c = t
    BY <2>1
  <2>2. CASE c # t
    <3>1. /\ Consuming(g, c) /\ pc'[c] = pc[c] /\ n'[c] = n[c] /\ obj'[c] = obj[c]
          /\ seen'[c] = seen[c] /\ h.at[c] = g.at[c] /\ h.start = g.start
      BY <1>1, <2>2 DEF Sound, OthersStay, Threads
    <3>2. /\ g.ch <= h.ch /\ g.pt <= h.pt /\ h.ch = g.ch /\ h.ct = g.ct
          /\ \A x \in g.ct .. g.ch - 1 : h.item[x] = g.item[x]
      BY <1>1, GhostTypes
    <3>3. Copies(c) => h.ct <= g.at[c]
      BY <1>1, <3>1 DEF Consuming
    <3> QED BY <3>1, <3>2, <3>3, ConsumerKeeps
  <2> QED BY <2>1, <2>2
<1>7. /\ Apart(h, Producers)' /\ Apart(h, Consumers)'
      /\ Covered(h, Producers, h.pt, h.ph)' /\ Covered(h, Consumers, h.ct, h.ch)'
  <2>1. Producers \subseteq Threads /\ Consumers \subseteq Threads
    BY DEF Threads
  <2>2. Apart(g, Producers) /\ Apart(g, Consumers)
    BY DEF Sound
  <2>3. Covered(g, Producers, h.pt, h.ph) /\ Covered(g, Consumers, h.ct, h.ch)
    BY <1>1 DEF Sound
  <2>4. Apart(h, Producers)' /\ Apart(h, Consumers)'
    BY <1>2, <2>1, <2>2, ApartKeeps
  <2>5. Covered(h, Producers, h.pt, h.ph)'
    BY <1>2, <2>1, <2>3, GhostTypes, CoveredKeeps
  <2>6. Covered(h, Consumers, h.ct, h.ch)'
    BY <1>2, <2>1, <2>3, GhostTypes, CoveredKeeps
  <2> QED BY <2>4, <2>5, <2>6
<1>8. Contents(h)'
  BY <1>1 DEF Sound, Contents
<1> QED BY <1>3, <1>4, <1>5, <1>6, <1>7, <1>8 DEF Sound
-----------------------------------------------------------------------------
(***************************************************************************)
(* The steps of an enqueue.                                                *)
(***************************************************************************)
LEMMA EnqueueCallSound ==
  ASSUME RteRingAssumption, Shape, NEW g \in Ghosts, Sound(g), NEW p \in Producers,
         EnqueueCall(p)
  PROVE  \E h \in Ghosts : Sound(h)'
<1>1. /\ p \in Threads /\ g.at[p] \in Nat /\ pc[p] = "idle" /\ n[p] = 0 /\ issued \in Nat
      /\ old[p] = g.at[p] % Word
  BY GhostTypes, Sizes DEF EnqueueCall, Sound, Producing, Stands, Threads, Shape
<1>2. PICK h \in Ghosts : SameBut(g, h, p, g.at[p])
  BY <1>1, GhostAt
<1>3. PICK k \in Bulk : /\ issued' = issued + k /\ n' = [n EXCEPT ![p] = k]
                        /\ obj' = [obj EXCEPT ![p] = [i \in 1 .. k |-> issued + i]]
  BY DEF EnqueueCall
<1>4. k \in Nat /\ k > 0
  BY Sizes DEF RteRingAssumption
<1>5. /\ pc'[p] = "head" /\ n'[p] = k /\ obj'[p] = [i \in 1 .. k |-> issued + i]
      /\ \A u \in Threads \ {p} : pc'[u] = pc[u] /\ n'[u] = n[u] /\ obj'[u] = obj[u]
  BY <1>1, <1>3 DEF EnqueueCall, Go, Shape
<1>6. OthersStay(p)
  BY <1>5 DEF OthersStay, EnqueueCall
<1>7. Producing(h, p)'
  <2>1. Len(obj'[p]) = k
    BY <1>4, <1>5
  <2> QED BY <1>4, <1>5, <2>1 DEF Producing, Copies
<1>8. Tickets(h)'
  <2>1. h.start = g.start /\ h.ph = g.ph /\ h.item = g.item
    BY <1>2 DEF SameBut
  <2>2. /\ \A x \in g.start .. g.ph - 1 : g.item[x] \in 1 .. issued
        /\ \A x, y \in g.start .. g.ph - 1 : g.item[x] = g.item[y] => x = y
    BY DEF Sound, Tickets
  <2>3. /\ \A x \in h.start .. h.ph - 1 : h.item[x] \in 1 .. issued'
        /\ \A x, y \in h.start .. h.ph - 1 : h.item[x] = h.item[y] => x = y
    <3>1. issued' = issued + k
      BY <1>3
    <3>2. 1 .. issued \subseteq 1 .. issued'
      BY <3>1, <1>1, <1>4
    <3> QED BY <2>1, <2>2, <3>2
  <2>4. \A i \in 1 .. k : obj'[p][i] = issued + i /\ obj'[p][i] \in 1 .. issued'
    BY <1>1, <1>3, <1>4, <1>5
  <2>5. ASSUME NEW q \in Producers \ {p}, Waits(q)', NEW i \in 1 .. n'[q]
        PROVE  /\ obj'[q] = obj[q] /\ n'[q] = n[q] /\ Waits(q)
               /\ obj[q][i] \in 1 .. issued
               /\ \A j \in 1 .. n[q] : obj[q][i] = obj[q][j] => i = j
               /\ \A x \in g.start .. g.ph - 1 : g.item[x] # obj[q][i]
               /\ \A r \in Producers \ {q} : Waits(r) =>
                     \A j \in 1 .. n[r] : obj[q][i] # obj[r][j]
    <3>1. obj'[q] = obj[q] /\ n'[q] = n[q] /\ Waits(q) /\ i \in 1 .. n[q]
      BY <1>5, <2>5 DEF Threads, Waits
    <3> QED BY <3>1 DEF Sound, Tickets
  <2>6. ASSUME NEW i \in 1 .. n'[p]
        PROVE  /\ obj'[p][i] \in 1 .. issued'
               /\ \A j \in 1 .. n'[p] : obj'[p][i] = obj'[p][j] => i = j
               /\ \A x \in h.start .. h.ph - 1 : h.item[x] # obj'[p][i]
               /\ \A q \in Producers \ {p} : Waits(q)' =>
                     \A j \in 1 .. n'[q] : obj'[p][i] # obj'[q][j]
    <3>1. i \in 1 .. k /\ obj'[p][i] = issued + i /\ issued + i > issued
      BY <1>1, <1>4, <1>5, <2>4, <2>6
    <3>2. \A j \in 1 .. n'[p] : obj'[p][i] = obj'[p][j] => i = j
      BY <1>1, <1>4, <1>5, <2>4, <3>1
    <3>3. \A x \in h.start .. h.ph - 1 : h.item[x] # obj'[p][i]
      BY <1>1, <2>1, <2>2, <3>1
    <3>4. \A q \in Producers \ {p} : Waits(q)' =>
             \A j \in 1 .. n'[q] : obj'[p][i] # obj'[q][j]
      BY <1>1, <2>5, <3>1
    <3> QED BY <2>4, <3>1, <3>2, <3>3, <3>4
  <2>7. ASSUME NEW q \in Producers \ {p}, Waits(q)', NEW i \in 1 .. n'[q]
        PROVE  /\ obj'[q][i] \in 1 .. issued'
               /\ \A j \in 1 .. n'[q] : obj'[q][i] = obj'[q][j] => i = j
               /\ \A x \in h.start .. h.ph - 1 : h.item[x] # obj'[q][i]
               /\ \A r \in Producers \ {q} : Waits(r)' =>
                     \A j \in 1 .. n'[r] : obj'[q][i] # obj'[r][j]
    <3>1. /\ obj'[q] = obj[q] /\ n'[q] = n[q] /\ Waits(q)
          /\ obj[q][i] \in 1 .. issued
          /\ \A j \in 1 .. n[q] : obj[q][i] = obj[q][j] => i = j
          /\ \A x \in g.start .. g.ph - 1 : g.item[x] # obj[q][i]
      BY <2>5, <2>7
    <3>2. obj[q][i] \in 1 .. issued'
      BY <1>1, <1>3, <1>4, <3>1
    <3>3. ASSUME NEW r \in Producers \ {q}, Waits(r)', NEW j \in 1 .. n'[r]
          PROVE  obj'[q][i] # obj'[r][j]
      <4>1. CASE r = p
        BY <2>6, <2>7, <3>3, <4>1
      <4>2. CASE r # p
        <5>1. obj'[r] = obj[r] /\ n'[r] = n[r] /\ Waits(r)
          BY <2>5, <3>3, <4>2
        <5> QED BY <2>5, <2>7, <3>1, <3>3, <5>1
      <4> QED BY <4>1, <4>2
    <3> QED BY <2>1, <3>1, <3>2, <3>3
  <2> QED BY <2>3, <2>6, <2>7 DEF Tickets
<1>9. (Copies(p)' <=> Copies(p)) /\ ~Copies(p)
  BY <1>1, <1>5 DEF Copies
<1>10. prod' = prod /\ cons' = cons /\ ring' = ring /\ old'[p] = old[p]
  BY DEF EnqueueCall
<1>11. issued <= issued' /\ issued' \in Nat
  BY <1>1, <1>3, <1>4
<1>12. p \notin Consumers
  BY DEF RteRingAssumption
<1>13. Sound(h)'
  BY <1>1, <1>2, <1>6, <1>7, <1>8, <1>9, <1>10, <1>11, <1>12, LocalStep
<1> QED BY <1>13

\* The ghosts go on through a producer reads prod.head.
LEMMA LoadProdHeadSound ==
  ASSUME RteRingAssumption, Shape, NEW g \in Ghosts, Sound(g), NEW p \in Producers,
         LoadProdHead(p)
  PROVE  \E h \in Ghosts : Sound(h)'
<1>1. p \in Threads /\ g.ph \in Nat /\ pc[p] = "head" /\ issued \in Nat /\ p \notin Consumers
  BY GhostTypes, Sizes DEF LoadProdHead, Threads, Shape, RteRingAssumption
<1>2. PICK h \in Ghosts : SameBut(g, h, p, g.ph)
  BY <1>1, GhostAt
<1>3. /\ pc'[p] = "room" /\ n' = n /\ obj' = obj /\ old'[p] = g.ph % Word
      /\ \A u \in Threads \ {p} : pc'[u] = pc[u] /\ old'[u] = old[u]
  BY <1>1 DEF LoadProdHead, Go, Shape, Sound, Stands
<1>4. OthersStay(p)
  BY <1>3 DEF OthersStay, LoadProdHead
<1>5. Producing(h, p)'
  <2>1. h.at[p] = g.ph /\ h.ph = g.ph /\ h.start = g.start
    BY <1>1, <1>2, GhostTypes DEF SameBut
  <2>2. g.start <= g.ph
    BY GhostTypes DEF Sound, InOrder
  <2>3. Len(obj[p]) = n[p] /\ n[p] # 0
    BY <1>1 DEF Sound, Producing
  <2>4. g.ph <= g.ph
    BY <1>1
  <2> QED BY <1>3, <2>1, <2>2, <2>3, <2>4 DEF Producing, Copies
<1>6. \A q \in Producers : Waits(q)' => Waits(q) /\ n'[q] = n[q] /\ obj'[q] = obj[q]
  BY <1>1, <1>3 DEF Waits, Threads
<1>7. Tickets(h)'
  BY <1>2, <1>6, TicketsKeep DEF Sound, SameBut, LoadProdHead
<1>8. (Copies(p)' <=> Copies(p)) /\ ~Copies(p)
  BY <1>1, <1>3 DEF Copies
<1>9. prod' = prod /\ cons' = cons /\ ring' = ring /\ issued' = issued /\ issued <= issued
  BY <1>1 DEF LoadProdHead
<1>10. Sound(h)'
  BY <1>1, <1>2, <1>3, <1>4, <1>5, <1>7, <1>8, <1>9, LocalStep
<1> QED BY <1>10

\* What a call that returns leaves.
LEMMA Left ==
  ASSUME Shape, NEW t \in Threads, Leave(t)
  PROVE  /\ pc'[t] = "idle" /\ n'[t] = 0 /\ old'[t] = 0 /\ obj'[t] = <<>>
         /\ \A u \in Threads \ {t} : /\ pc'[u] = pc[u] /\ n'[u] = n[u]
                                     /\ obj'[u] = obj[u] /\ old'[u] = old[u]
BY DEF Leave, Go, Shape

\* What a producer takes for free is free, counted from the head it read.
LEMMA FreeIs ==
  ASSUME RteRingAssumption, Shape, NEW g \in Ghosts, Sound(g), NEW p \in Producers,
         pc[p] = "room"
  PROVE  FreeEntries(p) = g.ct + Capacity - g.at[p]
<1>1. /\ g.start <= g.at[p] /\ g.at[p] <= g.ph /\ old[p] = g.at[p] % Word
      /\ cons.tail = g.ct % Word /\ g.at[p] \in Nat
  BY GhostTypes DEF Sound, Producing, Stands, Threads
<1>2. g.ph <= g.ct + Capacity /\ g.ct <= g.ph /\ g.ph <= g.start + issued /\ issued <= MaxItems
      /\ issued \in Nat
  <2>1. InOrder(g)
    BY DEF Sound
  <2>2. issued <= MaxItems /\ issued \in Nat
    <3>1. issued \in 0 .. MaxItems /\ MaxItems \in Nat
      BY Sizes DEF Shape
    <3> QED BY <3>1
  <2> QED BY <2>1, <2>2, GhostTypes DEF InOrder
<1>3. Plus(Capacity, g.ct % Word) = Plus(g.ct % Word, Capacity)
  <2>1. g.ct % Word \in Int
    BY GhostTypes, WordRest
  <2> QED BY <2>1, Sizes DEF Plus
<1>4. Plus(g.ct % Word, Capacity) = (g.ct + Capacity) % Word
  <2>1. g.ct \in Nat /\ Capacity \in Int
    BY GhostTypes, Sizes
  <2> QED BY <2>1, PlusWraps
<1>5. PICK x \in Nat : x = g.ct + Capacity
  BY GhostTypes, Sizes
<1>6. g.at[p] <= x /\ x - g.at[p] < Word
  BY <1>1, <1>2, <1>5, GhostTypes, Sizes
<1>7. Minus(x % Word, g.at[p] % Word) = x - g.at[p]
  BY <1>1, <1>6, MinusWraps
<1>8. Plus(Capacity, cons.tail) = x % Word
  BY <1>1, <1>3, <1>4, <1>5
<1>9. Minus(Plus(Capacity, cons.tail), old[p]) = x - g.at[p]
  BY <1>1, <1>7, <1>8
<1>10. FreeEntries(p) = x - g.at[p]
  BY <1>9 DEF FreeEntries
<1> QED BY <1>1, <1>5, <1>10, GhostTypes, Sizes

\* The ghosts go on through a producer computes the free entries, and may give up.
LEMMA LoadConsTailSound ==
  ASSUME RteRingAssumption, Shape, NEW g \in Ghosts, Sound(g), NEW p \in Producers,
         LoadConsTail(p)
  PROVE  \E h \in Ghosts : Sound(h)'
<1>1. /\ p \in Threads /\ g.at[p] \in Nat /\ pc[p] = "room" /\ n[p] \in Nat /\ n[p] # 0
      /\ issued \in Nat /\ issued <= issued /\ p \notin Consumers
  BY GhostTypes, Sizes DEF LoadConsTail, Threads, Shape, RteRingAssumption, Sound, Producing
<1>2. prod' = prod /\ cons' = cons /\ ring' = ring /\ issued' = issued /\ seen' = seen
  BY DEF LoadConsTail
<1>3. CASE n[p] > FreeEntries(p)
  <2>1. PICK h \in Ghosts : SameBut(g, h, p, 0)
    BY <1>1, GhostAt
  <2>2. /\ pc'[p] = "idle" /\ n'[p] = 0 /\ old'[p] = 0 /\ obj'[p] = <<>>
        /\ \A u \in Threads \ {p} : /\ pc'[u] = pc[u] /\ n'[u] = n[u]
                                    /\ obj'[u] = obj[u] /\ old'[u] = old[u]
    BY <1>1, <1>3, Left DEF LoadConsTail
  <2>3. OthersStay(p)
    BY <1>2, <2>2 DEF OthersStay
  <2>4. old'[p] = 0 % Word
    BY <2>2, Sizes
  <2>5. Producing(h, p)'
    BY <2>2 DEF Producing, Copies
  <2>6. \A q \in Producers : Waits(q)' => Waits(q) /\ n'[q] = n[q] /\ obj'[q] = obj[q]
    BY <2>2 DEF Waits, Threads
  <2>7. Tickets(h)'
    BY <1>2, <2>1, <2>6, TicketsKeep DEF Sound, SameBut
  <2>8. (Copies(p)' <=> Copies(p)) /\ ~Copies(p)
    BY <1>1, <2>2 DEF Copies
  <2>9. Sound(h)'
    BY <1>1, <1>2, <2>1, <2>3, <2>4, <2>5, <2>7, <2>8, LocalStep
  <2> QED BY <2>9
<1>4. CASE ~(n[p] > FreeEntries(p))
  <2>1. PICK h \in Ghosts : SameBut(g, h, p, g.at[p])
    BY <1>1, GhostAt
  <2>2. /\ pc'[p] = "cas" /\ n' = n /\ old' = old /\ obj' = obj
        /\ \A u \in Threads \ {p} : pc'[u] = pc[u]
    BY <1>1, <1>4 DEF LoadConsTail, Go, Shape
  <2>3. OthersStay(p)
    BY <1>2, <2>2 DEF OthersStay
  <2>4. old'[p] = g.at[p] % Word
    BY <1>1, <2>2 DEF Sound, Stands
  <2>5. Producing(h, p)'
    <3>1. h.at[p] = g.at[p] /\ h.ph = g.ph /\ h.start = g.start /\ h.ct = g.ct
      BY <1>1, <2>1, GhostTypes DEF SameBut
    <3>2. Producing(g, p)
      BY DEF Sound
    <3>3. g.at[p] + n[p] <= g.ct + Capacity
      BY <1>1, <1>4, FreeIs, GhostTypes, Sizes
    <3> QED BY <1>1, <2>2, <3>1, <3>2, <3>3 DEF Producing, Copies
  <2>6. \A q \in Producers : Waits(q)' => Waits(q) /\ n'[q] = n[q] /\ obj'[q] = obj[q]
    BY <1>1, <2>2 DEF Waits, Threads
  <2>7. Tickets(h)'
    BY <1>2, <2>1, <2>6, TicketsKeep DEF Sound, SameBut
  <2>8. (Copies(p)' <=> Copies(p)) /\ ~Copies(p)
    BY <1>1, <2>2 DEF Copies
  <2>9. Sound(h)'
    BY <1>1, <1>2, <2>1, <2>3, <2>4, <2>5, <2>7, <2>8, LocalStep
  <2> QED BY <2>9
<1> QED BY <1>3, <1>4

\* Different things in m places are at least m.
LEMMA Fits ==
  ASSUME NEW S, IsFiniteSet(S), NEW m \in Nat, NEW f \in [1 .. m -> S],
         \A i, j \in 1 .. m : f[i] = f[j] => i = j
  PROVE  m <= Cardinality(S)
<1>1. f \in Injection(1 .. m, S)
  BY DEF Injection, IsInjective
<1>2. Cardinality(1 .. m) <= Cardinality(S)
  BY <1>1, FS_Injection
<1>3. Cardinality(1 .. m) = m
  <2>1. Cardinality(1 .. m) = IF 1 > m THEN 0 ELSE m - 1 + 1
    BY FS_Interval
  <2> QED BY <2>1
<1> QED BY <1>2, <1>3

\* p reserves its positions.
Handed(g, h, p) ==
    /\ h.start = g.start /\ h.pt = g.pt /\ h.ch = g.ch /\ h.ct = g.ct /\ h.at = g.at
    /\ h.ph = g.ph + n[p]
    /\ \A x \in Nat : h.item[x] = IF x \in Reach(g, p) THEN obj[p][x - g.at[p] + 1]
                                                       ELSE g.item[x]

\* Nobody has moved the head since p read it.
LEMMA HeadRead ==
  ASSUME RteRingAssumption, Shape, NEW g \in Ghosts, Sound(g), NEW p \in Producers,
         pc[p] = "cas", SP \/ prod.head = old[p]
  PROVE  /\ g.at[p] = g.ph /\ g.ph + n[p] <= g.ct + Capacity /\ n[p] \in Nat \ {0}
         /\ Len(obj[p]) = n[p] /\ p \in Threads
<1>1. Producing(g, p) /\ p \in Threads /\ g.at[p] \in Nat /\ n[p] \in Nat
  BY GhostTypes DEF Sound, Threads, Shape
<1>2. /\ g.start <= g.at[p] /\ g.at[p] <= g.ph /\ (SP => g.at[p] = g.ph)
      /\ g.at[p] + n[p] <= g.ct + Capacity /\ n[p] # 0 /\ Len(obj[p]) = n[p]
  BY <1>1 DEF Producing
<1>3. g.ph <= g.start + issued /\ issued <= MaxItems /\ issued \in Nat
  <2>1. issued \in 0 .. MaxItems /\ MaxItems \in Nat
    BY Sizes DEF Shape
  <2> QED BY <2>1 DEF Sound, InOrder
<1>4. g.ph - g.at[p] < Word /\ g.at[p] - g.ph < Word
  BY <1>1, <1>2, <1>3, GhostTypes, Sizes
<1>5. prod.head = old[p] => g.ph % Word = g.at[p] % Word
  BY <1>1 DEF Sound, Stands
<1>6. g.at[p] = g.ph
  BY <1>1, <1>2, <1>4, <1>5, GhostTypes, SameWord
<1> QED BY <1>1, <1>2, <1>6

\* The items stay distinct, and with them the positions handed out within the offers.
LEMMA HandedTickets ==
  ASSUME RteRingAssumption, Shape, NEW g \in Ghosts, Sound(g), NEW p \in Producers,
         pc[p] = "cas", SP \/ prod.head = old[p], NEW h \in Ghosts, Handed(g, h, p),
         n' = n, obj' = obj, issued' = issued, ~Waits(p)',
         \A q \in Producers \ {p} : Waits(q)' <=> Waits(q)
  PROVE  Tickets(h)' /\ h.ph <= h.start + issued
<1>1. /\ g.at[p] = g.ph /\ n[p] \in Nat \ {0} /\ Len(obj[p]) = n[p]
      /\ h.ph = g.ph + n[p] /\ h.start = g.start /\ g.start <= g.ph /\ issued \in Nat
      /\ h.ph \in Nat /\ g.ph \in Nat /\ g.start \in Nat
  <2>1. g.at[p] = g.ph /\ n[p] \in Nat \ {0} /\ Len(obj[p]) = n[p]
    BY HeadRead
  <2>2. h.ph = g.ph + n[p] /\ h.start = g.start
    BY DEF Handed
  <2>3. g.start <= g.ct /\ g.ct <= g.ch /\ g.ch <= g.pt /\ g.pt <= g.ph
    BY DEF Sound, InOrder
  <2>4. issued \in Nat
    BY Sizes DEF Shape
  <2> QED BY <2>1, <2>2, <2>3, <2>4, GhostTypes
<1>2. Waits(p) /\ Tickets(g)
  BY DEF Waits, Sound
<1>3. ASSUME NEW x \in h.start .. h.ph - 1
      PROVE  \/ x \in g.start .. g.ph - 1 /\ h.item[x] = g.item[x]
             \/ x - g.ph + 1 \in 1 .. n[p] /\ h.item[x] = obj[p][x - g.ph + 1] /\ g.ph <= x
  <2>1. x \in Nat /\ g.start <= x /\ x < g.ph + n[p]
    BY <1>1
  <2>2. CASE x < g.ph
    <3>1. x \notin Reach(g, p) /\ x \in g.start .. g.ph - 1
      BY <1>1, <2>1, <2>2 DEF Reach
    <3> QED BY <2>1, <3>1 DEF Handed
  <2>3. CASE ~(x < g.ph)
    <3>1. x \in Reach(g, p) /\ x - g.ph + 1 \in 1 .. n[p] /\ g.ph <= x
      BY <1>1, <2>1, <2>3 DEF Reach
    <3>2. h.item[x] = obj[p][x - g.ph + 1]
      BY <1>1, <2>1, <3>1 DEF Handed
    <3> QED BY <3>1, <3>2
  <2> QED BY <2>2, <2>3
<1>4. /\ \A x \in g.start .. g.ph - 1 : g.item[x] \in 1 .. issued
      /\ \A x, y \in g.start .. g.ph - 1 : g.item[x] = g.item[y] => x = y
      /\ \A i \in 1 .. n[p] : /\ obj[p][i] \in 1 .. issued
                              /\ \A j \in 1 .. n[p] : obj[p][i] = obj[p][j] => i = j
                              /\ \A x \in g.start .. g.ph - 1 : g.item[x] # obj[p][i]
                              /\ \A q \in Producers \ {p} : Waits(q) =>
                                    \A j \in 1 .. n[q] : obj[p][i] # obj[q][j]
  BY <1>2 DEF Tickets
<1>5. \A x \in h.start .. h.ph - 1 : h.item[x] \in 1 .. issued
  BY <1>3, <1>4
<1>6. ASSUME NEW x \in h.start .. h.ph - 1, NEW y \in h.start .. h.ph - 1,
             h.item[x] = h.item[y]
      PROVE  x = y
  <2>1. x \in Nat /\ y \in Nat
    BY <1>1
  <2>2. CASE x \in g.start .. g.ph - 1 /\ h.item[x] = g.item[x]
    <3>1. CASE y \in g.start .. g.ph - 1 /\ h.item[y] = g.item[y]
      BY <1>4, <1>6, <2>2, <3>1
    <3>2. CASE y - g.ph + 1 \in 1 .. n[p] /\ h.item[y] = obj[p][y - g.ph + 1] /\ g.ph <= y
      <4>1. g.item[x] # obj[p][y - g.ph + 1]
        BY <1>4, <2>2, <3>2
      <4> QED BY <1>6, <2>2, <3>2, <4>1
    <3> QED BY <1>3, <3>1, <3>2
  <2>3. CASE x - g.ph + 1 \in 1 .. n[p] /\ h.item[x] = obj[p][x - g.ph + 1] /\ g.ph <= x
    <3>1. CASE y \in g.start .. g.ph - 1 /\ h.item[y] = g.item[y]
      BY <1>4, <1>6, <2>3, <3>1
    <3>2. CASE y - g.ph + 1 \in 1 .. n[p] /\ h.item[y] = obj[p][y - g.ph + 1] /\ g.ph <= y
      <4>1. x - g.ph + 1 = y - g.ph + 1
        BY <1>4, <1>6, <2>3, <3>2
      <4> QED BY <1>1, <2>1, <4>1
    <3> QED BY <1>3, <3>1, <3>2
  <2> QED BY <1>3, <2>2, <2>3
<1>7. ASSUME NEW q \in Producers, Waits(q)', NEW i \in 1 .. n'[q]
      PROVE  /\ obj'[q][i] \in 1 .. issued'
             /\ \A j \in 1 .. n'[q] : obj'[q][i] = obj'[q][j] => i = j
             /\ \A x \in h.start .. h.ph - 1 : h.item[x] # obj'[q][i]
             /\ \A r \in Producers \ {q} : Waits(r)' =>
                   \A j \in 1 .. n'[r] : obj'[q][i] # obj'[r][j]
  <2>1. q # p /\ Waits(q) /\ i \in 1 .. n[q]
    BY <1>7
  <2>2. /\ obj[q][i] \in 1 .. issued
        /\ \A j \in 1 .. n[q] : obj[q][i] = obj[q][j] => i = j
        /\ \A x \in g.start .. g.ph - 1 : g.item[x] # obj[q][i]
        /\ \A r \in Producers \ {q} : Waits(r) => \A j \in 1 .. n[r] : obj[q][i] # obj[r][j]
    BY <1>2, <2>1 DEF Tickets
  <2>3. \A x \in h.start .. h.ph - 1 : h.item[x] # obj[q][i]
    <3>1. \A j \in 1 .. n[p] : obj[q][i] # obj[p][j]
      BY <1>2, <2>1, <2>2
    <3> QED BY <1>3, <2>2, <3>1
  <2>4. \A r \in Producers \ {q} : Waits(r)' => \A j \in 1 .. n'[r] : obj'[q][i] # obj'[r][j]
    <3>1. \A r \in Producers : Waits(r)' => Waits(r)
      OBVIOUS
    <3> QED BY <2>2, <3>1
  <2> QED BY <2>2, <2>3, <2>4
<1>8. Tickets(h)'
  BY <1>5, <1>6, <1>7 DEF Tickets
<1>9. h.ph - h.start <= issued
  <2>1. PICK m \in Nat : m = h.ph - h.start
    BY <1>1
  <2>2. PICK f : f = [i \in 1 .. m |-> h.item[h.start + i - 1]]
    OBVIOUS
  <2>3. \A i \in 1 .. m : /\ f[i] = h.item[h.start + i - 1]
                          /\ h.start + i - 1 \in h.start .. h.ph - 1
    BY <1>1, <2>1, <2>2
  <2>4. f \in [1 .. m -> 1 .. issued]
    BY <1>5, <2>2, <2>3
  <2>5. ASSUME NEW i \in 1 .. m, NEW j \in 1 .. m, f[i] = f[j]
        PROVE  i = j
    <3>1. h.start + i - 1 = h.start + j - 1
      BY <1>6, <2>3, <2>5
    <3> QED BY <1>1, <3>1
  <2>6. IsFiniteSet(1 .. issued) /\ Cardinality(1 .. issued) = issued
    <3>1. /\ IsFiniteSet(1 .. issued)
          /\ Cardinality(1 .. issued) = IF 1 > issued THEN 0 ELSE issued - 1 + 1
      <4>1. 1 \in Int /\ issued \in Int
        BY <1>1
      <4> QED BY <4>1, FS_Interval
    <3> QED BY <1>1, <3>1
  <2>7. m <= Cardinality(1 .. issued)
    <3>1. IsFiniteSet(1 .. issued)
      BY <2>6
    <3> QED BY <2>4, <2>5, <3>1, Fits
  <2> QED BY <1>1, <2>1, <2>6, <2>7
<1> QED BY <1>1, <1>8, <1>9

\* A producer's step leaves the consumers in their places.
LEMMA ConsumersStay ==
  ASSUME RteRingAssumption, Shape, NEW g \in Ghosts, Sound(g), NEW h \in Ghosts,
         \A c \in Consumers : /\ pc'[c] = pc[c] /\ n'[c] = n[c] /\ obj'[c] = obj[c]
                              /\ seen'[c] = seen[c] /\ h.at[c] = g.at[c],
         h.start = g.start, h.ch = g.ch, h.ct = g.ct, g.pt <= h.pt,
         \A x \in g.ct .. g.ch - 1 : h.item[x] = g.item[x]
  PROVE  /\ \A c \in Consumers : Consuming(h, c)'
         /\ Apart(h, Consumers)' /\ Covered(h, Consumers, h.ct, h.ch)'
<1>1. \A c \in Consumers : Copies(c)' <=> Copies(c)
  BY DEF Copies
<1>2. ASSUME NEW c \in Consumers
      PROVE  Consuming(h, c)'
  <2>1. Consuming(g, c) /\ g.ch <= h.ch /\ (Copies(c) => h.ct <= g.at[c])
    BY GhostTypes DEF Sound, Consuming
  <2> QED BY <2>1, ConsumerKeeps
<1>3. Apart(h, Consumers)'
  <2>1. Apart(g, Consumers)
    BY DEF Sound
  <2> QED BY <1>1, <2>1, ApartKeeps
<1>4. Covered(h, Consumers, h.ct, h.ch)'
  <2>1. Covered(g, Consumers, g.ct, g.ch)
    BY DEF Sound
  <2>2. g.ct \in Nat /\ g.ch \in Nat /\ h.ct \in Nat /\ h.ch \in Nat /\ g.ct <= h.ct /\ h.ch <= g.ch
    BY GhostTypes
  <2> QED BY <1>1, <2>1, <2>2, CoveredKeeps
<1> QED BY <1>2, <1>3, <1>4

\* A consumer's step leaves the producers in their places.
LEMMA ProducersStay ==
  ASSUME RteRingAssumption, Shape, NEW g \in Ghosts, Sound(g), NEW h \in Ghosts,
         \A p \in Producers : /\ pc'[p] = pc[p] /\ n'[p] = n[p] /\ obj'[p] = obj[p]
                              /\ h.at[p] = g.at[p],
         h.start = g.start, h.ph = g.ph, h.pt = g.pt, g.ct <= h.ct, h.item = g.item,
         ring' = ring
  PROVE  /\ \A p \in Producers : Producing(h, p)'
         /\ Apart(h, Producers)' /\ Covered(h, Producers, h.pt, h.ph)'
<1>1. \A p \in Producers : Copies(p)' <=> Copies(p)
  BY DEF Copies
<1>2. ASSUME NEW p \in Producers
      PROVE  Producing(h, p)'
  <2>1. Producing(g, p) /\ g.ph <= h.ph
    BY GhostTypes DEF Sound
  <2>4. Copies(p) => h.pt <= g.at[p]
    BY <2>1 DEF Producing
  <2>2. \A x \in g.pt .. g.ph - 1 : h.item[x] = g.item[x]
    OBVIOUS
  <2>3. pc[p] = "tail" => \A x \in Reach(g, p) : ring'[Slot(x)] = ring[Slot(x)]
    OBVIOUS
  <2> QED BY <2>1, <2>2, <2>3, <2>4, ProducerKeeps
<1>3. Apart(h, Producers)'
  <2>1. Apart(g, Producers)
    BY DEF Sound
  <2> QED BY <1>1, <2>1, ApartKeeps
<1>4. Covered(h, Producers, h.pt, h.ph)'
  <2>1. Covered(g, Producers, g.pt, g.ph)
    BY DEF Sound
  <2>2. g.pt \in Nat /\ g.ph \in Nat /\ h.pt \in Nat /\ h.ph \in Nat /\ g.pt <= h.pt /\ h.ph <= g.ph
    BY GhostTypes
  <2> QED BY <1>1, <2>1, <2>2, CoveredKeeps
<1> QED BY <1>2, <1>3, <1>4

\* What a successful reservation gives the ghost.
LEMMA HandedExists ==
  ASSUME RteRingAssumption, Shape, NEW g \in Ghosts, Sound(g), NEW p \in Producers,
         pc[p] = "cas", SP \/ prod.head = old[p]
  PROVE  \E h \in Ghosts : Handed(g, h, p)
<1>1. /\ g.at[p] = g.ph /\ n[p] \in Nat /\ Len(obj[p]) = n[p] /\ p \in Threads
      /\ g.ph \in Nat /\ g.item \in [Nat -> Nat] /\ obj[p] \in Seq(Nat)
  <2>1. p \in Threads
    BY DEF Threads
  <2> QED BY <2>1, HeadRead, GhostTypes DEF Shape
<1>2. PICK item : item = [x \in Nat |-> IF x \in Reach(g, p) THEN obj[p][x - g.at[p] + 1]
                                                            ELSE g.item[x]]
  OBVIOUS
<1>3. ASSUME NEW x \in Nat, x \in Reach(g, p)
      PROVE  obj[p][x - g.at[p] + 1] \in Nat
  <2>1. PICK a \in Nat : a = g.at[p]
    BY <1>1
  <2>2. PICK m \in Nat : m = n[p]
    BY <1>1
  <2>3. x \in a .. a + m - 1
    BY <1>3, <2>1, <2>2 DEF Reach
  <2>4. PICK i \in 1 .. m : i = x - a + 1
    BY <2>3
  <2>5. PICK s \in Seq(Nat) : s = obj[p]
    BY <1>1
  <2>6. s[i] \in Nat
    <3>1. Len(s) = m
      BY <1>1, <2>2, <2>5
    <3> QED BY <2>4, <2>5, <3>1
  <2> QED BY <2>1, <2>4, <2>5, <2>6
<1>4. item \in [Nat -> Nat]
  BY <1>1, <1>2, <1>3
<1>5. g.start \in Nat /\ g.ph + n[p] \in Nat /\ g.pt \in Nat /\ g.ch \in Nat /\ g.ct \in Nat
      /\ g.at \in [Threads -> Nat]
  <2>1. g.ph \in Nat /\ n[p] \in Nat
    BY <1>1
  <2>2. g.ph + n[p] \in Nat
    BY <2>1
  <2> QED BY <2>2, GhostTypes
<1>6. PICK h \in Ghosts : IsGhost(h, g.start, g.ph + n[p], g.pt, g.ch, g.ct, g.at, item)
  BY <1>4, <1>5, GhostWith
<1>7. Handed(g, h, p)
  BY <1>2, <1>6 DEF Handed, IsGhost
<1> QED BY <1>7

\* The ghosts go on through the compare-and-set of a producer, which hands out positions and items.
LEMMA MoveProdHeadSound ==
  ASSUME RteRingAssumption, Shape, NEW g \in Ghosts, Sound(g), NEW p \in Producers,
         MoveProdHead(p)
  PROVE  \E h \in Ghosts : Sound(h)'
<1>1. /\ p \in Threads /\ g.at[p] \in Nat /\ pc[p] = "cas" /\ issued \in Nat /\ issued <= issued
      /\ p \notin Consumers
  BY GhostTypes, Sizes DEF MoveProdHead, Threads, Shape, RteRingAssumption
<1>2. /\ cons' = cons /\ ring' = ring /\ n' = n /\ old' = old /\ obj' = obj /\ seen' = seen
      /\ issued' = issued
  BY DEF MoveProdHead
<1>3. CASE SP \/ prod.head = old[p]
  <2>1. PICK h \in Ghosts : Handed(g, h, p)
    BY <1>1, <1>3, HandedExists
  <2>2. /\ g.at[p] = g.ph /\ g.ph + n[p] <= g.ct + Capacity /\ n[p] \in Nat \ {0}
        /\ Len(obj[p]) = n[p]
    BY <1>1, <1>3, HeadRead
  <2>3. /\ pc'[p] = "copy" /\ \A u \in Threads \ {p} : pc'[u] = pc[u]
        /\ prod' = [prod EXCEPT !.head = Plus(old[p], n[p])]
    BY <1>1, <1>3 DEF MoveProdHead, Go, Shape
  <2>4. /\ h.start = g.start /\ h.pt = g.pt /\ h.ch = g.ch /\ h.ct = g.ct /\ h.at = g.at
        /\ h.ph = g.ph + n[p]
        /\ \A x \in Nat : h.item[x] = IF x \in Reach(g, p) THEN obj[p][x - g.at[p] + 1]
                                                           ELSE g.item[x]
    BY <2>1 DEF Handed
  <2>5. /\ g.start <= g.ct /\ g.ct <= g.ch /\ g.ch <= g.pt /\ g.pt <= g.ph
    BY DEF Sound, InOrder
  <2>6. \A x \in Nat : x < g.ph => h.item[x] = g.item[x]
    <3>1. \A x \in Nat : x < g.ph => x \notin Reach(g, p)
      BY <2>2, GhostTypes DEF Reach
    <3> QED BY <2>4, <3>1
  <2>7. Tickets(h)' /\ h.ph <= h.start + issued
    <3>1. ~Waits(p)' /\ \A q \in Producers \ {p} : Waits(q)' <=> Waits(q)
      BY <2>3 DEF Waits, Threads
    <3> QED BY <1>1, <1>2, <1>3, <2>1, <3>1, HandedTickets
  <2>8. Stands(h)'
    <3>1. Plus(old[p], n[p]) = (g.ph + n[p]) % Word
      <4>1. old[p] = g.at[p] % Word
        BY <1>1 DEF Sound, Stands
      <4>2. g.ph \in Nat /\ n[p] \in Int
        BY <2>2, GhostTypes
      <4> QED BY <2>2, <4>1, <4>2, PlusWraps
    <3>2. prod'.head = Plus(old[p], n[p]) /\ prod'.tail = prod.tail
      BY <2>3 DEF Shape
    <3> QED BY <1>2, <2>4, <3>1, <3>2 DEF Sound, Stands
  <2>9. InOrder(h)'
    <3>1. g.pt <= g.ph + n[p]
      BY <2>2, <2>5, GhostTypes
    <3>2. h.ph <= h.start + issued'
      BY <1>2, <2>7
    <3> QED BY <2>2, <2>4, <2>5, <3>1, <3>2 DEF InOrder
  <2>10. ASSUME NEW q \in Producers
         PROVE  Producing(h, q)'
    <3>1. CASE q = p
      <4>1. Reach(h, p)' = Reach(g, p)
        BY <1>2, <2>4 DEF Reach
      <4>2. \A x \in Reach(g, p) : obj[p][x - g.at[p] + 1] = h.item[x]
        <5>1. Reach(g, p) \subseteq Nat
          BY <2>2, GhostTypes DEF Reach
        <5> QED BY <2>4, <5>1
      <4>3. h.pt <= h.at[p] /\ h.at[p] + n'[p] <= h.ph
        BY <1>2, <2>2, <2>4, <2>5, GhostTypes
      <4> QED BY <1>2, <2>2, <2>3, <2>4, <3>1, <4>1, <4>2, <4>3 DEF Producing
    <3>2. CASE q # p
      <4>1. ~SP
        BY <3>2 DEF RteRingAssumption
      <4>2. /\ Producing(g, q) /\ pc'[q] = pc[q] /\ n'[q] = n[q] /\ obj'[q] = obj[q]
            /\ h.at[q] = g.at[q] /\ h.start = g.start
        BY <1>2, <2>3, <2>4, <3>2 DEF Sound, Threads
      <4>3. g.ph <= h.ph /\ g.ct <= h.ct
        BY <2>2, <2>4, GhostTypes
      <4>4. \A x \in g.pt .. g.ph - 1 : h.item[x] = g.item[x]
        BY <2>6, GhostTypes
      <4>5. Copies(q) => h.pt <= g.at[q]
        BY <2>4, <4>2 DEF Producing
      <4>6. pc[q] = "tail" => \A x \in Reach(g, q) : ring'[Slot(x)] = ring[Slot(x)]
        BY <1>2
      <4> QED BY <4>1, <4>2, <4>3, <4>4, <4>5, <4>6, ProducerKeeps
    <3> QED BY <3>1, <3>2
  <2>11. /\ \A c \in Consumers : Consuming(h, c)'
         /\ Apart(h, Consumers)' /\ Covered(h, Consumers, h.ct, h.ch)'
    <3>1. \A c \in Consumers : /\ pc'[c] = pc[c] /\ n'[c] = n[c] /\ obj'[c] = obj[c]
                               /\ seen'[c] = seen[c] /\ h.at[c] = g.at[c]
      BY <1>1, <1>2, <2>3, <2>4 DEF Threads
    <3>2. \A x \in g.ct .. g.ch - 1 : h.item[x] = g.item[x]
      BY <2>5, <2>6, GhostTypes
    <3>3. g.pt <= h.pt
      BY <2>4, GhostTypes
    <3> QED BY <2>4, <3>1, <3>2, <3>3, ConsumersStay
  <2>12. Apart(h, Producers)'
    <3>1. ASSUME NEW t \in Producers, Copies(t)', t # p
          PROVE  /\ Copies(t) /\ n'[t] = n[t] /\ h.at[t] = g.at[t]
                 /\ g.at[t] + n[t] <= g.at[p]
      <4>1. Copies(t) /\ n'[t] = n[t] /\ h.at[t] = g.at[t]
        BY <1>2, <2>3, <2>4, <3>1 DEF Copies, Threads
      <4>2. g.at[t] + n[t] <= g.ph
        BY <4>1 DEF Sound, Producing
      <4> QED BY <2>2, <4>1, <4>2
    <3>2. h.at[p] = g.at[p] /\ n'[p] = n[p]
      BY <1>2, <2>4
    <3>3. Apart(g, Producers)
      BY DEF Sound
    <3> QED BY <3>1, <3>2, <3>3 DEF Apart
  <2>13. Covered(h, Producers, h.pt, h.ph)'
    <3>1. ASSUME NEW x \in g.pt .. (g.ph + n[p]) - 1
          PROVE  \E t \in Producers : Copies(t)' /\ x \in Reach(h, t)'
      <4>1. x \in Nat /\ g.pt <= x /\ x < g.ph + n[p]
        BY <2>2, GhostTypes
      <4>2. CASE x < g.ph
        <5>1. PICK t \in Producers : Copies(t) /\ x \in Reach(g, t)
          <6>1. x \in g.pt .. g.ph - 1
            BY <4>1, <4>2, GhostTypes
          <6> QED BY <6>1 DEF Sound, Covered
        <5>2. Copies(t)' /\ Reach(h, t)' = Reach(g, t)
          BY <1>1, <1>2, <2>3, <2>4, <5>1 DEF Copies, Reach, Threads
        <5> QED BY <5>1, <5>2
      <4>3. CASE ~(x < g.ph)
        <5>1. Copies(p)' /\ x \in Reach(h, p)'
          BY <1>2, <2>2, <2>3, <2>4, <4>1, <4>3, GhostTypes DEF Copies, Reach
        <5> QED BY <5>1
      <4> QED BY <4>2, <4>3
    <3> QED BY <2>4, <3>1 DEF Covered
  <2>14. Contents(h)'
    <3>1. \A x \in g.ct .. g.pt - 1 : h.item[x] = g.item[x]
      BY <2>5, <2>6, GhostTypes
    <3> QED BY <1>2, <2>4, <3>1 DEF Sound, Contents
  <2>15. Sound(h)'
    BY <2>7, <2>8, <2>9, <2>10, <2>11, <2>12, <2>13, <2>14 DEF Sound
  <2> QED BY <2>15
<1>4. CASE ~(SP \/ prod.head = old[p])
  <2>1. PICK h \in Ghosts : SameBut(g, h, p, g.at[p])
    BY <1>1, GhostAt
  <2>2. /\ pc'[p] = "head" /\ prod' = prod
        /\ \A u \in Threads \ {p} : pc'[u] = pc[u]
    BY <1>1, <1>4 DEF MoveProdHead, Go, Shape
  <2>3. OthersStay(p)
    BY <1>2, <2>2 DEF OthersStay
  <2>4. old'[p] = g.at[p] % Word
    BY <1>1, <1>2 DEF Sound, Stands
  <2>5. Producing(h, p)'
    <3>1. Producing(g, p)
      BY DEF Sound
    <3> QED BY <1>1, <1>2, <2>2, <3>1 DEF Producing, Copies
  <2>6. \A q \in Producers : Waits(q)' => Waits(q) /\ n'[q] = n[q] /\ obj'[q] = obj[q]
    BY <1>1, <1>2, <2>2 DEF Waits, Threads
  <2>7. Tickets(h)'
    BY <1>2, <2>1, <2>6, TicketsKeep DEF Sound, SameBut
  <2>8. (Copies(p)' <=> Copies(p)) /\ ~Copies(p)
    BY <1>1, <2>2 DEF Copies
  <2>9. Sound(h)'
    BY <1>1, <1>2, <2>1, <2>2, <2>3, <2>4, <2>5, <2>7, <2>8, LocalStep
  <2> QED BY <2>9
<1> QED BY <1>3, <1>4

\* The slot of x among those from o on: its place if x is one of the m, 0 if it is not.
LEMMA PositionIs ==
  ASSUME RteRingAssumption, NEW t, NEW o \in Nat, NEW m \in Nat, NEW x \in Nat, NEW lo \in Nat,
         old[t] = o % Word, n[t] = m, lo <= x, x < lo + Size, lo <= o, o < lo + Size,
         o + m <= lo + Size
  PROVE  Position(t, Slot(x)) = IF x \in o .. o + m - 1 THEN x - o + 1 ELSE 0
<1>1. Slot(Minus(Slot(x), o % Word)) = IF o <= x THEN x - o ELSE x - o + Size
  <2>1. x - o < Size /\ o - x < Size
    BY Sizes
  <2> QED BY <2>1, SlotFrom
<1>2. PICK i : i = Slot(Minus(Slot(x), o % Word))
  OBVIOUS
<1>3. Position(t, Slot(x)) = IF i < m THEN i + 1 ELSE 0
  BY <1>2 DEF Position
<1>4. i = IF o <= x THEN x - o ELSE x - o + Size
  BY <1>1, <1>2
<1>5. CASE o <= x
  BY <1>3, <1>4, <1>5
<1>6. CASE ~(o <= x)
  BY <1>3, <1>4, <1>6, Sizes
<1> QED BY <1>5, <1>6

\* A producer writes the items of its positions, and disturbs no other position in use.
LEMMA EnqueuePtrsWrites ==
  ASSUME RteRingAssumption, Shape, NEW g \in Ghosts, Sound(g), NEW p \in Producers,
         EnqueuePtrs(p), NEW x \in Nat, g.ct <= x, x < g.ph
  PROVE  ring'[Slot(x)] = IF x \in Reach(g, p) THEN g.item[x] ELSE ring[Slot(x)]
<1>1. /\ p \in Threads /\ g.at[p] \in Nat /\ n[p] \in Nat \ {0} /\ pc[p] = "copy"
      /\ p \notin Consumers
  <2>1. p \in Threads /\ pc[p] = "copy" /\ p \notin Consumers
    BY DEF EnqueuePtrs, Threads, RteRingAssumption
  <2>2. n[p] \in Nat /\ n[p] # 0
    BY <2>1, Sizes DEF Shape, Sound, Producing
  <2> QED BY <2>1, <2>2, GhostTypes
<1>2. /\ g.pt <= g.at[p] /\ g.at[p] + n[p] <= g.ph /\ old[p] = g.at[p] % Word
      /\ \A y \in Reach(g, p) : obj[p][y - g.at[p] + 1] = g.item[y]
  BY <1>1 DEF Sound, Producing, Stands, Copies
<1>3. /\ g.start <= g.ct /\ g.ct <= g.ch /\ g.ch <= g.pt /\ g.pt <= g.ph
      /\ g.ph <= g.ct + Capacity
  BY DEF Sound, InOrder
<1>4. x < g.ct + Size /\ g.ct <= g.at[p] /\ g.at[p] < g.ct + Size
      /\ g.at[p] + n[p] <= g.ct + Size /\ g.ct \in Nat /\ n[p] \in Nat
  BY <1>1, <1>2, <1>3, GhostTypes, Sizes
<1>5. Position(p, Slot(x)) = IF x \in g.at[p] .. g.at[p] + n[p] - 1 THEN x - g.at[p] + 1 ELSE 0
  <2>1. PICK o \in Nat : o = g.at[p]
    BY <1>1
  <2>2. PICK m \in Nat : m = n[p]
    BY <1>4
  <2>3. PICK lo \in Nat : lo = g.ct
    BY <1>4
  <2>4. /\ old[p] = o % Word /\ n[p] = m /\ lo <= x /\ x < lo + Size /\ lo <= o /\ o < lo + Size
        /\ o + m <= lo + Size
    BY <1>2, <1>4, <2>1, <2>2, <2>3
  <2>5. Position(p, Slot(x)) = IF x \in o .. o + m - 1 THEN x - o + 1 ELSE 0
    BY <2>4, PositionIs
  <2> QED BY <2>1, <2>2, <2>5
<1>6. Slot(x) \in Slots
  BY SizeRest DEF Slot, Slots
<1>7. ring'[Slot(x)] = IF Position(p, Slot(x)) # 0 THEN obj[p][Position(p, Slot(x))]
                                                    ELSE ring[Slot(x)]
  BY <1>6 DEF EnqueuePtrs
<1>8. CASE x \in Reach(g, p)
  <2>1. Position(p, Slot(x)) = x - g.at[p] + 1 /\ x - g.at[p] + 1 # 0
    BY <1>1, <1>5, <1>8 DEF Reach
  <2> QED BY <1>2, <1>7, <1>8, <2>1
<1>9. CASE x \notin Reach(g, p)
  <2>1. Position(p, Slot(x)) = 0
    BY <1>5, <1>9 DEF Reach
  <2> QED BY <1>7, <1>9, <2>1
<1> QED BY <1>8, <1>9

\* The ghosts go on through a producer fills the slots of its positions.
LEMMA EnqueuePtrsSound ==
  ASSUME RteRingAssumption, Shape, NEW g \in Ghosts, Sound(g), NEW p \in Producers,
         EnqueuePtrs(p)
  PROVE  \E h \in Ghosts : Sound(h)'
<1>1. /\ p \in Threads /\ g.at[p] \in Nat /\ n[p] \in Nat \ {0} /\ pc[p] = "copy"
      /\ p \notin Consumers
  <2>1. p \in Threads /\ pc[p] = "copy" /\ p \notin Consumers
    BY DEF EnqueuePtrs, Threads, RteRingAssumption
  <2>2. n[p] \in Nat /\ n[p] # 0
    BY <2>1, Sizes DEF Shape, Sound, Producing
  <2> QED BY <2>1, <2>2, GhostTypes
<1>2. /\ prod' = prod /\ cons' = cons /\ n' = n /\ old' = old /\ obj' = obj /\ seen' = seen
      /\ issued' = issued
  BY DEF EnqueuePtrs
<1>3. pc'[p] = "tail" /\ \A u \in Threads \ {p} : pc'[u] = pc[u]
  BY <1>1 DEF EnqueuePtrs, Go, Shape
<1>4. /\ g.pt <= g.at[p] /\ g.at[p] + n[p] <= g.ph /\ old[p] = g.at[p] % Word
      /\ \A x \in Reach(g, p) : obj[p][x - g.at[p] + 1] = g.item[x]
  BY <1>1 DEF Sound, Producing, Stands, Copies
<1>5. /\ g.start <= g.ct /\ g.ct <= g.ch /\ g.ch <= g.pt /\ g.pt <= g.ph
      /\ g.ph <= g.ct + Capacity
  BY DEF Sound, InOrder
<1>6. \A x \in Nat : g.ct <= x /\ x < g.ph =>
         ring'[Slot(x)] = IF x \in Reach(g, p) THEN g.item[x] ELSE ring[Slot(x)]
  BY EnqueuePtrsWrites
<1>7. \A u \in Threads : Copies(u)' <=> Copies(u)
  BY <1>1, <1>3 DEF Copies
<1>8. Stands(g)' /\ InOrder(g)'
  BY <1>2 DEF Sound, Stands, InOrder
<1>9. ASSUME NEW q \in Producers
      PROVE  Producing(g, q)'
  <2>1. CASE q = p
    <3>1. Reach(g, p)' = Reach(g, p)
      BY <1>2 DEF Reach
    <3>2. \A x \in Reach(g, p) : ring'[Slot(x)] = g.item[x]
      <4>1. ASSUME NEW x \in Reach(g, p)
            PROVE  x \in Nat /\ g.ct <= x /\ x < g.ph
        BY <1>1, <1>4, <1>5, GhostTypes DEF Reach
      <4> QED BY <1>6, <4>1
    <3>3. Producing(g, p)
      BY DEF Sound
    <3> QED BY <1>1, <1>2, <1>3, <1>4, <2>1, <3>1, <3>2, <3>3 DEF Producing
  <2>2. CASE q # p
    <3>1. /\ Producing(g, q) /\ pc'[q] = pc[q] /\ n'[q] = n[q] /\ obj'[q] = obj[q]
          /\ g.at[q] = g.at[q] /\ g.start = g.start /\ g.ph <= g.ph /\ g.ct <= g.ct
      BY <1>2, <1>3, <2>2, GhostTypes DEF Sound, Threads
    <3>2. Copies(q) => g.pt <= g.at[q]
      BY <3>1 DEF Producing
    <3>3. \A x \in g.pt .. g.ph - 1 : g.item[x] = g.item[x]
      OBVIOUS
    <3>4. ASSUME pc[q] = "tail", NEW x \in Reach(g, q)
          PROVE  ring'[Slot(x)] = ring[Slot(x)]
      <4>1. g.at[q] + n[q] <= g.ph /\ g.pt <= g.at[q] /\ n[q] \in Nat /\ g.at[q] \in Nat
        BY <3>1, <3>4, GhostTypes, Sizes DEF Producing, Copies, Shape, Threads
      <4>2. x \in Nat /\ g.ct <= x /\ x < g.ph
        BY <1>5, <3>4, <4>1, GhostTypes DEF Reach
      <4>3. g.at[p] + n[p] <= g.at[q] \/ g.at[q] + n[q] <= g.at[p]
        BY <1>1, <2>2, <3>4 DEF Sound, Apart, Copies
      <4>4. x \notin Reach(g, p)
        BY <1>1, <3>4, <4>1, <4>3 DEF Reach
      <4> QED BY <1>6, <4>2, <4>4
    <3> QED BY <3>1, <3>2, <3>3, <3>4, ProducerKeeps
  <2> QED BY <2>1, <2>2
<1>10. /\ \A c \in Consumers : Consuming(g, c)'
       /\ Apart(g, Consumers)' /\ Covered(g, Consumers, g.ct, g.ch)'
  <2>1. \A c \in Consumers : /\ pc'[c] = pc[c] /\ n'[c] = n[c] /\ obj'[c] = obj[c]
                             /\ seen'[c] = seen[c] /\ g.at[c] = g.at[c]
    BY <1>1, <1>2, <1>3 DEF Threads
  <2>2. \A x \in g.ct .. g.ch - 1 : g.item[x] = g.item[x]
    OBVIOUS
  <2>3. g.pt <= g.pt /\ g.start = g.start /\ g.ch = g.ch /\ g.ct = g.ct
    BY GhostTypes
  <2> QED BY <2>1, <2>2, <2>3, ConsumersStay
<1>11. Apart(g, Producers)'
  BY <1>2, <1>7, ApartKeeps DEF Sound, Threads
<1>12. Covered(g, Producers, g.pt, g.ph)'
  <2>1. g.pt <= g.pt /\ g.ph <= g.ph /\ Covered(g, Producers, g.pt, g.ph)
    BY GhostTypes DEF Sound
  <2>2. \A t \in Producers : Copies(t) => Copies(t)' /\ n'[t] = n[t] /\ g.at[t] = g.at[t]
    BY <1>2, <1>7 DEF Threads
  <2> QED BY <2>1, <2>2, GhostTypes, CoveredKeeps
<1>13. Contents(g)'
  <2>1. ASSUME NEW x \in g.ct .. g.pt - 1
        PROVE  ring'[Slot(x)] = ring[Slot(x)]
    <3>1. x \in Nat /\ g.ct <= x /\ x < g.ph /\ x \notin Reach(g, p)
      BY <1>1, <1>4, <1>5, GhostTypes DEF Reach
    <3> QED BY <1>6, <3>1
  <2> QED BY <2>1 DEF Sound, Contents
<1>14. Tickets(g)'
  <2>1. \A q \in Producers : Waits(q)' => Waits(q) /\ n'[q] = n[q] /\ obj'[q] = obj[q]
    BY <1>1, <1>2, <1>3 DEF Waits, Threads
  <2> QED BY <1>2, <2>1, TicketsKeep DEF Sound
<1>15. Sound(g)'
  BY <1>8, <1>9, <1>10, <1>11, <1>12, <1>13, <1>14 DEF Sound
<1> QED BY <1>15

\* The reservation of a thread that may move the tail is the first of them.
LEMMA FirstInLine ==
  ASSUME RteRingAssumption, Shape, NEW g \in Ghosts, NEW T, T \subseteq Threads, NEW t \in T,
         NEW lo \in Nat, NEW hi \in Nat, hi - lo < Word, Covered(g, T, lo, hi), Copies(t),
         lo <= g.at[t], g.at[t] + n[t] <= hi, n[t] \in Nat \ {0},
         \/ T = {t}
         \/ lo % Word = g.at[t] % Word
  PROVE  g.at[t] = lo
<1>1. g.at[t] \in Nat
  BY GhostTypes
<1>2. CASE T = {t}
  <2>1. lo \in lo .. hi - 1
    BY <1>1
  <2>2. lo \in Reach(g, t)
    BY <1>2, <2>1 DEF Covered
  <2> QED BY <1>1, <2>2 DEF Reach
<1>3. CASE lo % Word = g.at[t] % Word
  <2>1. lo - g.at[t] < Word /\ g.at[t] - lo < Word
    BY <1>1, Sizes
  <2> QED BY <1>1, <1>3, <2>1, SameWord
<1> QED BY <1>2, <1>3

\* The producer that may move the tail has the positions that begin there.
LEMMA UpdateProdTailAt ==
  ASSUME RteRingAssumption, Shape, NEW g \in Ghosts, Sound(g), NEW p \in Producers,
         UpdateProdTail(p)
  PROVE  /\ g.at[p] = g.pt /\ g.pt + n[p] <= g.ph /\ n[p] \in Nat \ {0} /\ pc[p] = "tail"
         /\ old[p] = g.pt % Word /\ p \in Threads /\ p \notin Consumers
<1>1. p \in Threads /\ pc[p] = "tail" /\ p \notin Consumers /\ Producers \subseteq Threads
  BY DEF UpdateProdTail, Threads, RteRingAssumption
<1>2. n[p] \in Nat \ {0}
  BY <1>1, Sizes DEF Shape, Sound, Producing
<1>3. /\ g.pt <= g.at[p] /\ g.at[p] + n[p] <= g.ph /\ old[p] = g.at[p] % Word
      /\ prod.tail = g.pt % Word /\ Copies(p) /\ Covered(g, Producers, g.pt, g.ph)
  BY <1>1 DEF Sound, Producing, Stands, Copies
<1>4. g.ph - g.pt < Word
  <2>1. g.ct <= g.ch /\ g.ch <= g.pt /\ g.ph <= g.ct + Capacity
    BY DEF Sound, InOrder
  <2> QED BY <2>1, GhostTypes, Sizes
<1>5. Producers = {p} \/ g.pt % Word = g.at[p] % Word
  BY <1>3 DEF UpdateProdTail, RteRingAssumption
<1>6. g.at[p] = g.pt
  <2>1. g.pt \in Nat /\ g.ph \in Nat
    BY GhostTypes
  <2> QED BY <1>1, <1>2, <1>3, <1>4, <1>5, <2>1, FirstInLine
<1> QED BY <1>1, <1>2, <1>3, <1>6

\* What a thread that returns after moving its tail leaves.
Gone(g, h, t) == /\ h.at[t] = 0 /\ \A u \in Threads \ {t} : h.at[u] = g.at[u]
                 /\ h.start = g.start /\ h.ph = g.ph /\ h.ch = g.ch /\ h.item = g.item

\* The ghosts go on through a producer publishes its positions.
LEMMA UpdateProdTailSound ==
  ASSUME RteRingAssumption, Shape, NEW g \in Ghosts, Sound(g), NEW p \in Producers,
         UpdateProdTail(p)
  PROVE  \E h \in Ghosts : Sound(h)'
<1>1. /\ g.at[p] = g.pt /\ g.pt + n[p] <= g.ph /\ n[p] \in Nat \ {0} /\ pc[p] = "tail"
      /\ old[p] = g.pt % Word /\ p \in Threads /\ p \notin Consumers
  BY UpdateProdTailAt
<1>2. cons' = cons /\ ring' = ring /\ seen' = seen /\ issued' = issued
  BY DEF UpdateProdTail
<1>3. /\ pc'[p] = "idle" /\ n'[p] = 0 /\ old'[p] = 0 /\ obj'[p] = <<>>
      /\ \A u \in Threads \ {p} : /\ pc'[u] = pc[u] /\ n'[u] = n[u]
                                  /\ obj'[u] = obj[u] /\ old'[u] = old[u]
  BY <1>1, Left DEF UpdateProdTail
<1>4. PICK h \in Ghosts : h.pt = g.pt + n[p] /\ h.ct = g.ct /\ Gone(g, h, p)
  <2>1. PICK at \in [Threads -> Nat] : at = [g.at EXCEPT ![p] = 0]
    BY GhostTypes
  <2>2. g.pt + n[p] \in Nat
    BY <1>1, GhostTypes
  <2>3. /\ g.start \in Nat /\ g.ph \in Nat /\ g.ch \in Nat /\ g.ct \in Nat
        /\ g.item \in [Nat -> Nat]
    BY GhostTypes
  <2>4. PICK h \in Ghosts : IsGhost(h, g.start, g.ph, g.pt + n[p], g.ch, g.ct, at, g.item)
    BY <2>1, <2>2, <2>3, GhostWith
  <2>5. at[p] = 0 /\ \A u \in Threads \ {p} : at[u] = g.at[u]
    BY <1>1, <2>1, GhostTypes
  <2> QED BY <2>4, <2>5 DEF IsGhost, Gone
<1>5. /\ h.start = g.start /\ h.ph = g.ph /\ h.ch = g.ch /\ h.item = g.item
      /\ h.ct = g.ct /\ h.pt = g.pt + n[p] /\ h.at[p] = 0
      /\ \A u \in Threads \ {p} : h.at[u] = g.at[u]
  BY <1>4 DEF Gone
<1>6. /\ g.start <= g.ct /\ g.ct <= g.ch /\ g.ch <= g.pt /\ g.pt <= g.ph
      /\ g.ph <= g.ct + Capacity /\ g.ph <= g.start + issued
  BY DEF Sound, InOrder
<1>7. Stands(h)'
  <2>1. Plus(old[p], n[p]) = (g.pt + n[p]) % Word
    <3>1. g.pt \in Nat /\ n[p] \in Int
      BY <1>1, GhostTypes
    <3> QED BY <1>1, <3>1, PlusWraps
  <2>2. prod'.tail = Plus(old[p], n[p]) /\ prod'.head = prod.head
    BY DEF UpdateProdTail, Shape
  <2>3. 0 % Word = 0
    BY Sizes
  <2> QED BY <1>2, <1>3, <1>5, <2>1, <2>2, <2>3 DEF Sound, Stands
<1>8. InOrder(h)'
  <2>1. g.ch <= g.pt + n[p]
    BY <1>1, <1>6, GhostTypes
  <2> QED BY <1>1, <1>2, <1>5, <1>6, <2>1 DEF InOrder
<1>9. ASSUME NEW q \in Producers, q # p, Copies(q)
      PROVE  g.pt + n[p] <= g.at[q]
  <2>1. /\ g.pt <= g.at[q] /\ n[q] # 0 /\ n[q] \in Nat /\ g.at[q] \in Nat
    BY <1>9, GhostTypes, Sizes DEF Sound, Producing, Copies, Shape, Threads
  <2>2. g.at[p] + n[p] <= g.at[q] \/ g.at[q] + n[q] <= g.at[p]
    BY <1>1, <1>9 DEF Sound, Apart, Copies
  <2>3. g.at[p] = g.pt /\ n[p] \in Nat /\ g.pt \in Nat
    BY <1>1, GhostTypes
  <2> QED BY <2>1, <2>2, <2>3
<1>10. ASSUME NEW q \in Producers
       PROVE  Producing(h, q)'
  <2>1. CASE q = p
    BY <1>3, <2>1 DEF Producing, Copies
  <2>2. CASE q # p
    <3>1. /\ Producing(g, q) /\ pc'[q] = pc[q] /\ n'[q] = n[q] /\ obj'[q] = obj[q]
          /\ h.at[q] = g.at[q] /\ h.start = g.start /\ h.ph = g.ph
      BY <1>3, <1>5, <2>2 DEF Sound, Threads
    <3>5. g.ph <= h.ph /\ g.ct <= h.ct
      BY <1>5, GhostTypes
    <3>2. Copies(q) => h.pt <= g.at[q]
      BY <1>5, <1>9, <2>2
    <3>3. \A x \in g.pt .. g.ph - 1 : h.item[x] = g.item[x]
      BY <1>5
    <3>4. pc[q] = "tail" => \A x \in Reach(g, q) : ring'[Slot(x)] = ring[Slot(x)]
      BY <1>2
    <3> QED BY <3>1, <3>2, <3>3, <3>4, <3>5, ProducerKeeps
  <2> QED BY <2>1, <2>2
<1>11. /\ \A c \in Consumers : Consuming(h, c)'
       /\ Apart(h, Consumers)' /\ Covered(h, Consumers, h.ct, h.ch)'
  <2>1. \A c \in Consumers : /\ pc'[c] = pc[c] /\ n'[c] = n[c] /\ obj'[c] = obj[c]
                             /\ seen'[c] = seen[c] /\ h.at[c] = g.at[c]
    BY <1>1, <1>2, <1>3, <1>5 DEF Threads
  <2>2. \A x \in g.ct .. g.ch - 1 : h.item[x] = g.item[x]
    BY <1>5
  <2>3. g.pt <= h.pt
    BY <1>1, <1>5, GhostTypes
  <2> QED BY <1>5, <2>1, <2>2, <2>3, ConsumersStay
<1>12. ~Copies(p)' /\ \A q \in Producers \ {p} : Copies(q)' <=> Copies(q)
  BY <1>3 DEF Copies, Threads
<1>13. Apart(h, Producers)'
  <2>1. \A q \in Producers : Copies(q)' => Copies(q) /\ n'[q] = n[q] /\ h.at[q] = g.at[q]
    BY <1>3, <1>5, <1>12 DEF Threads
  <2> QED BY <2>1, ApartKeeps DEF Sound
<1>14. Covered(h, Producers, h.pt, h.ph)'
  <2>1. ASSUME NEW x \in h.pt .. h.ph - 1
        PROVE  \E q \in Producers : Copies(q)' /\ x \in Reach(h, q)'
    <3>1. x \in Nat /\ g.pt + n[p] <= x /\ x < g.ph
      BY <1>1, <1>5, GhostTypes
    <3>2. x \in g.pt .. g.ph - 1
      BY <1>1, <3>1, GhostTypes
    <3>3. PICK q \in Producers : Copies(q) /\ x \in Reach(g, q)
      BY <3>2 DEF Sound, Covered
    <3>4. q # p
      BY <1>1, <3>1, <3>3, GhostTypes DEF Reach
    <3>5. Copies(q)' /\ Reach(h, q)' = Reach(g, q)
      BY <1>3, <1>5, <1>12, <3>3, <3>4 DEF Reach, Threads
    <3> QED BY <3>3, <3>5
  <2> QED BY <2>1 DEF Covered
<1>15. Contents(h)'
  <2>1. ASSUME NEW x \in h.ct .. h.pt - 1
        PROVE  ring[Slot(x)] = g.item[x]
    <3>1. x \in Nat /\ g.ct <= x /\ x < g.pt + n[p]
      BY <1>1, <1>5, GhostTypes
    <3>2. CASE x < g.pt
      <4>1. x \in g.ct .. g.pt - 1
        BY <3>1, <3>2, GhostTypes
      <4> QED BY <4>1 DEF Sound, Contents
    <3>3. CASE ~(x < g.pt)
      <4>1. x \in Reach(g, p)
        BY <1>1, <3>1, <3>3, GhostTypes DEF Reach
      <4> QED BY <1>1, <4>1 DEF Sound, Producing
    <3> QED BY <3>2, <3>3
  <2> QED BY <1>2, <1>5, <2>1 DEF Contents
<1>16. Tickets(h)'
  <2>1. \A q \in Producers : Waits(q)' => Waits(q) /\ n'[q] = n[q] /\ obj'[q] = obj[q]
    BY <1>3 DEF Waits, Threads
  <2> QED BY <1>2, <1>5, <2>1, TicketsKeep DEF Sound
<1>17. Sound(h)'
  BY <1>7, <1>8, <1>10, <1>11, <1>13, <1>14, <1>15, <1>16 DEF Sound
<1> QED BY <1>17

-----------------------------------------------------------------------------
(***************************************************************************)
(* The steps of a dequeue.                                                 *)
(***************************************************************************)
\* No producer is disturbed by what a consumer does on its own.
LEMMA ConsumerTickets ==
  ASSUME RteRingAssumption, NEW g \in Ghosts, Sound(g), NEW h \in Ghosts, NEW c \in Consumers,
         OthersStay(c), h.start = g.start, h.ph = g.ph, h.item = g.item, issued' = issued
  PROVE  Tickets(h)'
<1>1. \A q \in Producers : Waits(q)' => Waits(q) /\ n'[q] = n[q] /\ obj'[q] = obj[q]
  BY DEF Waits, Threads, OthersStay, RteRingAssumption
<1> QED BY <1>1, TicketsKeep DEF Sound

\* The ghosts go on through the first load of ring_count.
LEMMA CountProdTailSound ==
  ASSUME RteRingAssumption, Shape, NEW g \in Ghosts, Sound(g), NEW c \in Consumers,
         CountProdTail(c)
  PROVE  \E h \in Ghosts : Sound(h)'
<1>1. /\ c \in Threads /\ pc[c] = "idle" /\ seen[c] = 0 /\ SC /\ c \notin Producers
      /\ issued \in Nat /\ issued <= issued /\ g.pt \in Nat
  BY GhostTypes, Sizes DEF CountProdTail, Threads, RteRingAssumption, Shape
<1>2. /\ prod' = prod /\ cons' = cons /\ ring' = ring /\ n' = n /\ obj' = obj /\ seen' = seen
      /\ issued' = issued
  BY DEF CountProdTail
<1>3. PICK h \in Ghosts : SameBut(g, h, c, g.pt)
  BY <1>1, GhostAt
<1>4. /\ pc'[c] = "count" /\ old'[c] = g.pt % Word
      /\ \A u \in Threads \ {c} : pc'[u] = pc[u] /\ old'[u] = old[u]
  BY <1>1 DEF CountProdTail, Go, Shape, Sound, Stands
<1>5. OthersStay(c)
  BY <1>2, <1>4 DEF OthersStay
<1>6. Consuming(h, c)'
  <2>1. h.at[c] = g.pt /\ h.ct = g.ct /\ h.pt = g.pt
    BY <1>1, <1>3, GhostTypes DEF SameBut
  <2>2. g.ct <= g.pt
    BY GhostTypes DEF Sound, InOrder
  <2>3. n[c] = 0 /\ obj[c] = <<>>
    BY <1>1 DEF Sound, Consuming
  <2>4. g.pt <= g.pt
    BY <1>1
  <2> QED BY <1>1, <1>2, <1>4, <2>1, <2>2, <2>3, <2>4 DEF Consuming, Copies
<1>7. Tickets(h)'
  BY <1>2, <1>3, <1>5, ConsumerTickets DEF SameBut
<1>8. (Copies(c)' <=> Copies(c)) /\ ~Copies(c)
  BY <1>1, <1>4 DEF Copies
<1>9. Sound(h)'
  BY <1>1, <1>2, <1>3, <1>4, <1>5, <1>6, <1>7, <1>8, LocalStep
<1> QED BY <1>9

\* What ring_count computes from the two tails.
LEMMA UsedIs ==
  ASSUME RteRingAssumption, Shape, NEW g \in Ghosts, Sound(g), NEW c \in Consumers,
         pc[c] = "count"
  PROVE  /\ Minus(old[c], cons.tail) % Size = g.at[c] - g.ct
         /\ g.at[c] - g.ct \in 0 .. Capacity /\ g.at[c] <= g.pt
<1>1. /\ c \in Threads /\ g.at[c] \in Nat /\ old[c] = g.at[c] % Word /\ cons.tail = g.ct % Word
      /\ g.ct <= g.at[c] /\ g.at[c] <= g.pt
  BY GhostTypes DEF Threads, Sound, Stands, Consuming
<1>2. g.pt <= g.ct + Capacity
  <2>1. g.pt <= g.ph /\ g.ph <= g.ct + Capacity
    BY DEF Sound, InOrder
  <2> QED BY <2>1, GhostTypes, Sizes
<1>3. g.at[c] - g.ct \in 0 .. Capacity
  BY <1>1, <1>2, GhostTypes, Sizes
<1>4. Minus(old[c], cons.tail) = g.at[c] - g.ct
  <2>1. g.ct \in Nat /\ g.at[c] - g.ct < Word
    BY <1>3, GhostTypes, Sizes
  <2> QED BY <1>1, <2>1, MinusWraps
<1>5. (g.at[c] - g.ct) % Size = g.at[c] - g.ct
  BY <1>3, Sizes
<1> QED BY <1>1, <1>3, <1>4, <1>5

\* A ring with one consumer that is not taking anything has its two ends together.
LEMMA OneConsumer ==
  ASSUME RteRingAssumption, NEW g \in Ghosts, Sound(g), NEW c \in Consumers, SC, ~Copies(c)
  PROVE  g.ch = g.ct
<1>1. Consumers = {c}
  BY DEF RteRingAssumption
<1>2. g.ct <= g.ch /\ Covered(g, Consumers, g.ct, g.ch)
  BY DEF Sound, InOrder
<1>3. g.ct < g.ch => g.ct \in g.ct .. g.ch - 1
  BY GhostTypes
<1> QED BY <1>1, <1>2, <1>3, GhostTypes DEF Covered

\* The ghosts go on through the second load of ring_count.
LEMMA CountConsTailSound ==
  ASSUME RteRingAssumption, Shape, NEW g \in Ghosts, Sound(g), NEW c \in Consumers,
         CountConsTail(c)
  PROVE  \E h \in Ghosts : Sound(h)'
<1>1. /\ c \in Threads /\ pc[c] = "count" /\ SC /\ c \notin Producers
      /\ issued \in Nat /\ issued <= issued
  BY Sizes DEF CountConsTail, Threads, RteRingAssumption, Shape, Sound, Consuming
<1>2. prod' = prod /\ cons' = cons /\ ring' = ring /\ issued' = issued
  BY DEF CountConsTail
<1>3. PICK h \in Ghosts : SameBut(g, h, c, 0)
  BY <1>1, GhostAt
<1>4. /\ pc'[c] = "idle" /\ n'[c] = 0 /\ old'[c] = 0 /\ obj'[c] = <<>>
      /\ \A u \in Threads \ {c} : /\ pc'[u] = pc[u] /\ n'[u] = n[u]
                                  /\ obj'[u] = obj[u] /\ old'[u] = old[u]
  BY <1>1, Left DEF CountConsTail
<1>5. /\ seen'[c] = g.at[c] - g.ct /\ g.at[c] - g.ct \in 0 .. Capacity /\ g.at[c] <= g.pt
      /\ \A d \in Consumers \ {c} : seen'[d] = seen[d]
  <2>1. /\ Minus(old[c], cons.tail) % Size = g.at[c] - g.ct
        /\ g.at[c] - g.ct \in 0 .. Capacity /\ g.at[c] <= g.pt
    BY <1>1, UsedIs
  <2>2. PICK u \in 0 .. Capacity : u = Minus(old[c], cons.tail) % Size
    BY <2>1
  <2>3. seen' = [seen EXCEPT ![c] = u]
    <3>1. ~(u > Capacity)
      BY Sizes
    <3> QED BY <2>2, <3>1 DEF CountConsTail
  <2> QED BY <2>1, <2>2, <2>3 DEF Shape
<1>6. OthersStay(c)
  BY <1>4, <1>5 DEF OthersStay
<1>7. Consuming(h, c)'
  <2>1. g.ch = g.ct
    BY <1>1, OneConsumer DEF Copies
  <2>2. seen'[c] > 0 => h.ch < h.pt
    <3>1. h.ch = g.ch /\ h.pt = g.pt /\ g.at[c] \in Nat
      BY <1>1, <1>3, GhostTypes DEF SameBut
    <3> QED BY <1>5, <2>1, <3>1, GhostTypes
  <2> QED BY <1>4, <2>2 DEF Consuming, Copies
<1>8. Tickets(h)'
  BY <1>2, <1>3, <1>6, ConsumerTickets DEF SameBut
<1>9. (Copies(c)' <=> Copies(c)) /\ ~Copies(c) /\ old'[c] = 0 % Word
  BY <1>1, <1>4, Sizes DEF Copies
<1>10. Sound(h)'
  BY <1>1, <1>2, <1>3, <1>6, <1>7, <1>8, <1>9, LocalStep
<1> QED BY <1>10

\* The ghosts go on through a consumer reads cons.head.
LEMMA LoadConsHeadSound ==
  ASSUME RteRingAssumption, Shape, NEW g \in Ghosts, Sound(g), NEW c \in Consumers,
         LoadConsHead(c)
  PROVE  \E h \in Ghosts : Sound(h)'
<1>1. /\ c \in Threads /\ pc[c] \in {"idle", "head"} /\ c \notin Producers
      /\ issued \in Nat /\ issued <= issued /\ g.ch \in Nat
  BY GhostTypes, Sizes DEF LoadConsHead, Threads, RteRingAssumption, Shape
<1>2. /\ prod' = prod /\ cons' = cons /\ ring' = ring /\ obj' = obj /\ seen' = seen
      /\ issued' = issued
  BY DEF LoadConsHead
<1>3. PICK h \in Ghosts : SameBut(g, h, c, g.ch)
  BY <1>1, GhostAt
<1>4. /\ pc'[c] = "entries" /\ old'[c] = g.ch % Word
      /\ \A u \in Threads \ {c} : pc'[u] = pc[u] /\ old'[u] = old[u]
  BY <1>1 DEF LoadConsHead, Go, Shape, Sound, Stands
<1>5. n'[c] # 0 /\ \A u \in Threads \ {c} : n'[u] = n[u]
  <2>1. CASE \E k \in Bulk : n' = [n EXCEPT ![c] = k]
    <3>1. PICK k \in Bulk : n' = [n EXCEPT ![c] = k]
      BY <2>1
    <3>2. k # 0
      BY Sizes DEF RteRingAssumption
    <3> QED BY <1>1, <3>1, <3>2 DEF Shape
  <2>2. CASE pc[c] = "head" /\ n' = n
    BY <2>2 DEF Sound, Consuming
  <2> QED BY <2>1, <2>2 DEF LoadConsHead
<1>6. OthersStay(c)
  BY <1>2, <1>4, <1>5 DEF OthersStay
<1>7. Consuming(h, c)'
  <2>1. h.at[c] = g.ch /\ h.ct = g.ct /\ h.pt = g.pt /\ h.ch = g.ch /\ h.start = g.start
    BY <1>1, <1>3, GhostTypes DEF SameBut
  <2>2. g.start <= g.ch
    BY GhostTypes DEF Sound, InOrder
  <2>3. obj[c] = <<>> /\ (SC /\ seen[c] > 0 => g.ch < g.pt)
    BY <1>1 DEF Sound, Consuming, Copies
  <2>4. g.ch <= g.ch
    BY <1>1
  <2> QED BY <1>1, <1>2, <1>4, <1>5, <2>1, <2>2, <2>3, <2>4 DEF Consuming, Copies
<1>8. Tickets(h)'
  BY <1>2, <1>3, <1>6, ConsumerTickets DEF SameBut
<1>9. (Copies(c)' <=> Copies(c)) /\ ~Copies(c)
  BY <1>1, <1>4 DEF Copies
<1>10. Sound(h)'
  BY <1>1, <1>2, <1>3, <1>4, <1>6, <1>7, <1>8, <1>9, LocalStep
<1> QED BY <1>10

\* What a consumer takes for filled is filled, counted from the head it read.
LEMMA EntriesIs ==
  ASSUME RteRingAssumption, Shape, NEW g \in Ghosts, Sound(g), NEW c \in Consumers,
         pc[c] = "entries"
  PROVE  Entries(c) = g.pt - g.at[c] /\ g.at[c] <= g.ch /\ g.ch <= g.pt
<1>1. /\ c \in Threads /\ g.at[c] \in Nat /\ old[c] = g.at[c] % Word /\ prod.tail = g.pt % Word
      /\ g.start <= g.at[c] /\ g.at[c] <= g.ch
  BY GhostTypes DEF Threads, Sound, Stands, Consuming
<1>2. g.ch <= g.pt /\ g.pt <= g.ph /\ g.ph <= g.start + issued /\ issued <= MaxItems
      /\ issued \in Nat
  BY Sizes DEF Sound, InOrder, Shape
<1>3. g.at[c] <= g.pt /\ g.pt - g.at[c] < Word /\ g.pt \in Nat
  <2>1. g.at[c] \in Nat /\ g.start <= g.at[c] /\ g.at[c] <= g.ch
    BY <1>1
  <2> QED BY <1>2, <2>1, GhostTypes, Sizes
<1>4. Minus(g.pt % Word, g.at[c] % Word) = g.pt - g.at[c]
  BY <1>1, <1>3, MinusWraps
<1> QED BY <1>1, <1>2, <1>4 DEF Entries

\* The ghosts go on through a consumer computes the entries it may take.
LEMMA LoadProdTailSound ==
  ASSUME RteRingAssumption, Shape, NEW g \in Ghosts, Sound(g), NEW c \in Consumers,
         LoadProdTail(c)
  PROVE  \E h \in Ghosts : Sound(h)'
<1>1. /\ c \in Threads /\ pc[c] = "entries" /\ c \notin Producers
      /\ issued \in Nat /\ issued <= issued /\ g.at[c] \in Nat
      /\ n[c] \in Nat /\ n[c] # 0
  <2>1. c \in Threads /\ pc[c] = "entries" /\ c \notin Producers
    BY DEF LoadProdTail, Threads, RteRingAssumption
  <2>2. n[c] \in Nat /\ issued \in Nat /\ issued <= issued
    BY <2>1, Sizes DEF Shape
  <2>3. n[c] # 0
    BY <2>1 DEF Sound, Consuming
  <2> QED BY <2>1, <2>2, <2>3, GhostTypes
<1>2. prod' = prod /\ cons' = cons /\ ring' = ring /\ issued' = issued
  BY DEF LoadProdTail
<1>3. CASE Entries(c) = 0
  <2>1. PICK h \in Ghosts : SameBut(g, h, c, 0)
    BY <1>1, GhostAt
  <2>2. /\ pc'[c] = "idle" /\ n'[c] = 0 /\ old'[c] = 0 /\ obj'[c] = <<>>
        /\ \A u \in Threads \ {c} : /\ pc'[u] = pc[u] /\ n'[u] = n[u]
                                    /\ obj'[u] = obj[u] /\ old'[u] = old[u]
    BY <1>1, <1>3, Left DEF LoadProdTail
  <2>3. seen'[c] = 0 /\ \A d \in Consumers \ {c} : seen'[d] = seen[d]
    BY <1>3 DEF LoadProdTail, Shape
  <2>4. OthersStay(c)
    BY <2>2, <2>3 DEF OthersStay
  <2>5. Consuming(h, c)'
    <3>1. ~(seen'[c] > 0)
      BY <2>3
    <3> QED BY <2>2, <3>1 DEF Consuming, Copies
  <2>6. Tickets(h)'
    BY <1>2, <2>1, <2>4, ConsumerTickets DEF SameBut
  <2>7. (Copies(c)' <=> Copies(c)) /\ ~Copies(c) /\ old'[c] = 0 % Word
    BY <1>1, <2>2, Sizes DEF Copies
  <2>8. Sound(h)'
    BY <1>1, <1>2, <2>1, <2>4, <2>5, <2>6, <2>7, LocalStep
  <2> QED BY <2>8
<1>4. CASE Entries(c) # 0
  <2>1. PICK h \in Ghosts : SameBut(g, h, c, g.at[c])
    BY <1>1, GhostAt
  <2>2. PICK e : e = Entries(c)
    OBVIOUS
  <2>3. e = g.pt - g.at[c] /\ g.at[c] <= g.ch /\ g.ch <= g.pt
    BY <1>1, <2>2, EntriesIs
  <2>4. /\ pc'[c] = "cas" /\ old' = old /\ obj' = obj /\ seen' = seen
        /\ n' = [n EXCEPT ![c] = IF @ > e THEN e ELSE @]
        /\ \A u \in Threads \ {c} : pc'[u] = pc[u]
    BY <1>1, <1>4, <2>2 DEF LoadProdTail, Go, Shape
  <2>5. n'[c] \in Nat /\ n'[c] # 0 /\ n'[c] <= e /\ \A u \in Threads \ {c} : n'[u] = n[u]
    <3>1. e \in Nat /\ e # 0
      BY <1>1, <1>4, <2>2, <2>3, GhostTypes
    <3> QED BY <1>1, <2>4, <3>1 DEF Shape
  <2>6. OthersStay(c)
    BY <2>4, <2>5 DEF OthersStay
  <2>7. old'[c] = g.at[c] % Word
    BY <1>1, <2>4 DEF Sound, Stands
  <2>8. Consuming(h, c)'
    <3>1. h.at[c] = g.at[c] /\ h.ct = g.ct /\ h.pt = g.pt /\ h.ch = g.ch /\ h.start = g.start
      BY <1>1, <2>1, GhostTypes DEF SameBut
    <3>2. g.at[c] + n'[c] <= g.pt
      BY <1>1, <2>3, <2>5, GhostTypes
    <3>3. /\ obj[c] = <<>> /\ (SC /\ seen[c] > 0 => g.ch < g.pt)
          /\ g.start <= g.at[c] /\ (SC => g.at[c] = g.ch)
      BY <1>1 DEF Sound, Consuming, Copies
    <3> QED BY <2>3, <2>4, <2>5, <3>1, <3>2, <3>3 DEF Consuming, Copies
  <2>9. Tickets(h)'
    BY <1>2, <2>1, <2>6, ConsumerTickets DEF SameBut
  <2>10. (Copies(c)' <=> Copies(c)) /\ ~Copies(c)
    BY <1>1, <2>4 DEF Copies
  <2>11. Sound(h)'
    BY <1>1, <1>2, <2>1, <2>6, <2>7, <2>8, <2>9, <2>10, LocalStep
  <2> QED BY <2>11
<1> QED BY <1>3, <1>4

\* A consumer that copies finds the items of its positions in its slots.
LEMMA DequeuePtrsAre ==
  ASSUME RteRingAssumption, Shape, NEW g \in Ghosts, Sound(g), NEW c \in Consumers,
         pc[c] = "copy"
  PROVE  Reserved(c) = [i \in 1 .. n[c] |-> g.item[g.at[c] + i - 1]]
<1>1. c \in Threads /\ g.at[c] \in Nat /\ n[c] \in Nat /\ old[c] = g.at[c] % Word
  BY GhostTypes, Sizes DEF Threads, Shape, Sound, Stands
<1>2. /\ g.ct <= g.at[c] /\ g.at[c] + n[c] <= g.ch /\ g.ch <= g.pt
  BY DEF Sound, Consuming, Copies, InOrder
<1>3. ASSUME NEW i \in 1 .. n[c]
      PROVE  ring[Slot(old[c] + i - 1)] = g.item[g.at[c] + i - 1]
  <2>1. g.at[c] + i - 1 \in g.ct .. g.pt - 1
    <3>1. i \in Nat /\ i >= 1 /\ i <= n[c] /\ g.at[c] \in Nat /\ n[c] \in Nat
      BY <1>1
    <3> QED BY <1>2, <3>1, GhostTypes
  <2>2. Slot(old[c] + i - 1) = Slot(g.at[c] + i - 1)
    <3>1. PICK a \in Nat : a = g.at[c]
      BY <1>1
    <3>2. PICK w \in Int : w = a % Word
      BY WordRest
    <3>3. PICK j \in Int : j = i - 1
      BY <1>1
    <3>4. Slot((a % Word) + j) = Slot(a + j)
      BY SlotWraps
    <3>5. old[c] + i - 1 = w + j /\ g.at[c] + i - 1 = a + j
      BY <1>1, <3>1, <3>2, <3>3
    <3> QED BY <3>2, <3>4, <3>5
  <2> QED BY <2>1, <2>2 DEF Sound, Contents
<1> QED BY <1>3 DEF Reserved

\* The ghosts go on through a consumer copies what it reserved.
LEMMA DequeuePtrsSound ==
  ASSUME RteRingAssumption, Shape, NEW g \in Ghosts, Sound(g), NEW c \in Consumers,
         DequeuePtrs(c)
  PROVE  \E h \in Ghosts : Sound(h)'
<1>1. /\ c \in Threads /\ pc[c] = "copy" /\ c \notin Producers
      /\ issued \in Nat /\ issued <= issued /\ g.at[c] \in Nat
  BY GhostTypes, Sizes DEF DequeuePtrs, Threads, RteRingAssumption, Shape
<1>2. /\ prod' = prod /\ cons' = cons /\ ring' = ring /\ n' = n /\ old' = old /\ seen' = seen
      /\ issued' = issued
  BY DEF DequeuePtrs
<1>3. PICK h \in Ghosts : SameBut(g, h, c, g.at[c])
  BY <1>1, GhostAt
<1>4. /\ pc'[c] = "tail" /\ obj'[c] = Reserved(c)
      /\ \A u \in Threads \ {c} : pc'[u] = pc[u] /\ obj'[u] = obj[u]
  BY <1>1 DEF DequeuePtrs, Go, Shape
<1>5. OthersStay(c)
  BY <1>2, <1>4 DEF OthersStay
<1>6. old'[c] = g.at[c] % Word
  BY <1>1, <1>2 DEF Sound, Stands
<1>7. Consuming(h, c)'
  <2>1. /\ h.at[c] = g.at[c] /\ h.ct = g.ct /\ h.pt = g.pt /\ h.ch = g.ch /\ h.start = g.start
        /\ h.item = g.item
    BY <1>1, <1>3, GhostTypes DEF SameBut
  <2>2. obj'[c] = [i \in 1 .. n[c] |-> g.item[g.at[c] + i - 1]]
    BY <1>1, <1>4, DequeuePtrsAre
  <2>3. g.ct <= g.at[c] /\ g.at[c] + n[c] <= g.ch /\ n[c] # 0
    BY <1>1 DEF Sound, Consuming, Copies
  <2> QED BY <1>2, <1>4, <2>1, <2>2, <2>3 DEF Consuming, Copies
<1>8. Tickets(h)'
  BY <1>2, <1>3, <1>5, ConsumerTickets DEF SameBut
<1>9. (Copies(c)' <=> Copies(c)) /\ n'[c] = n[c]
  BY <1>1, <1>2, <1>4 DEF Copies
<1>10. Sound(h)'
  BY <1>1, <1>2, <1>3, <1>5, <1>6, <1>7, <1>8, <1>9, LocalStep
<1> QED BY <1>10

\* The reservation of a consumer starts at the head.
LEMMA MoveConsHeadAt ==
  ASSUME RteRingAssumption, Shape, NEW g \in Ghosts, Sound(g), NEW c \in Consumers,
         pc[c] = "cas", SC \/ cons.head = old[c]
  PROVE  /\ g.at[c] = g.ch /\ g.ch + n[c] <= g.pt /\ n[c] \in Nat \ {0}
         /\ old[c] = g.ch % Word /\ c \in Threads
<1>1. c \in Threads /\ n[c] \in Nat /\ g.at[c] \in Nat
  BY GhostTypes, Sizes DEF Threads, Shape
<1>2. /\ n[c] # 0 /\ old[c] = g.at[c] % Word /\ cons.head = g.ch % Word
      /\ g.start <= g.at[c] /\ g.at[c] <= g.ch /\ (SC => g.at[c] = g.ch)
      /\ g.at[c] + n[c] <= g.pt
  BY <1>1 DEF Sound, Consuming, Stands
<1>3. /\ g.ch <= g.pt /\ g.pt <= g.ph /\ g.ph <= g.start + issued /\ issued <= MaxItems
      /\ issued \in Nat
  BY Sizes DEF Sound, InOrder, Shape
<1>4. g.ch - g.at[c] < Word /\ g.at[c] - g.ch < Word
  <2>1. g.at[c] \in Nat /\ g.start <= g.at[c] /\ g.at[c] <= g.ch
    BY <1>1, <1>2
  <2> QED BY <1>3, <2>1, GhostTypes, Sizes
<1>5. ~SC => g.ch % Word = g.at[c] % Word
  BY <1>2
<1>6. g.at[c] = g.ch
  <2>1. g.ch \in Nat
    BY GhostTypes
  <2> QED BY <1>1, <1>2, <1>4, <1>5, <2>1, SameWord
<1> QED BY <1>1, <1>2, <1>6

\* The ghosts go on through the compare-and-set of a consumer, which reserves positions.
LEMMA MoveConsHeadSound ==
  ASSUME RteRingAssumption, Shape, NEW g \in Ghosts, Sound(g), NEW c \in Consumers,
         MoveConsHead(c)
  PROVE  \E h \in Ghosts : Sound(h)'
<1>1. /\ c \in Threads /\ pc[c] = "cas" /\ c \notin Producers
      /\ issued \in Nat /\ issued <= issued /\ g.at[c] \in Nat
  BY GhostTypes, Sizes DEF MoveConsHead, Threads, RteRingAssumption, Shape
<1>2. /\ prod' = prod /\ ring' = ring /\ n' = n /\ old' = old /\ obj' = obj /\ seen' = seen
      /\ issued' = issued
  BY DEF MoveConsHead
<1>3. CASE SC \/ cons.head = old[c]
  <2>1. /\ g.at[c] = g.ch /\ g.ch + n[c] <= g.pt /\ n[c] \in Nat \ {0} /\ old[c] = g.ch % Word
    BY <1>1, <1>3, MoveConsHeadAt
  <2>2. PICK h \in Ghosts : IsGhost(h, g.start, g.ph, g.pt, g.ch + n[c], g.ct, g.at, g.item)
    <3>1. g.ch + n[c] \in Nat
      BY <2>1, GhostTypes
    <3>2. /\ g.start \in Nat /\ g.ph \in Nat /\ g.pt \in Nat /\ g.ct \in Nat
          /\ g.at \in [Threads -> Nat] /\ g.item \in [Nat -> Nat]
      BY GhostTypes
    <3> QED BY <3>1, <3>2, GhostWith
  <2>3. /\ h.start = g.start /\ h.ph = g.ph /\ h.pt = g.pt /\ h.ct = g.ct /\ h.at = g.at
        /\ h.item = g.item /\ h.ch = g.ch + n[c]
    BY <2>2 DEF IsGhost
  <2>4. /\ pc'[c] = "copy" /\ \A u \in Threads \ {c} : pc'[u] = pc[u]
        /\ cons' = [cons EXCEPT !.head = Plus(old[c], n[c])]
    BY <1>1, <1>3 DEF MoveConsHead, Go, Shape
  <2>5. /\ g.start <= g.ct /\ g.ct <= g.ch /\ g.ch <= g.pt /\ g.pt <= g.ph
        /\ g.ph <= g.ct + Capacity /\ g.ph <= g.start + issued
    BY DEF Sound, InOrder
  <2>6. Stands(h)'
    <3>1. Plus(old[c], n[c]) = (g.ch + n[c]) % Word
      <4>1. g.ch \in Nat /\ n[c] \in Int
        BY <2>1, GhostTypes
      <4> QED BY <2>1, <4>1, PlusWraps
    <3>2. cons'.head = Plus(old[c], n[c]) /\ cons'.tail = cons.tail
      BY <2>4 DEF Shape
    <3> QED BY <1>2, <2>3, <3>1, <3>2 DEF Sound, Stands
  <2>7. InOrder(h)'
    <3>1. g.ct <= g.ch + n[c]
      BY <2>1, <2>5, GhostTypes
    <3> QED BY <1>2, <2>1, <2>3, <2>5, <3>1 DEF InOrder
  <2>8. ASSUME NEW d \in Consumers
        PROVE  Consuming(h, d)'
    <3>1. CASE d = c
      <4>1. obj[c] = <<>> /\ g.ct <= g.at[c] /\ g.at[c] + n[c] <= g.ch + n[c] /\ n[c] # 0
        <5>1. obj[c] = <<>>
          BY <1>1 DEF Sound, Consuming
        <5>2. g.ct <= g.at[c] /\ g.at[c] + n[c] <= g.ch + n[c] /\ n[c] # 0
          BY <2>1, <2>5, GhostTypes
        <5> QED BY <5>1, <5>2
      <4> QED BY <1>2, <2>3, <2>4, <3>1, <4>1 DEF Consuming, Copies
    <3>2. CASE d # c
      <4>1. ~SC
        BY <3>2 DEF RteRingAssumption
      <4>2. /\ Consuming(g, d) /\ pc'[d] = pc[d] /\ n'[d] = n[d] /\ obj'[d] = obj[d]
            /\ seen'[d] = seen[d] /\ h.at[d] = g.at[d] /\ h.start = g.start
        BY <1>2, <2>3, <2>4, <3>2 DEF Sound, Threads
      <4>3. g.ch <= h.ch /\ g.pt <= h.pt
        BY <2>1, <2>3, GhostTypes
      <4>4. Copies(d) => h.ct <= g.at[d]
        BY <2>3, <4>2 DEF Consuming
      <4>5. \A x \in g.ct .. g.ch - 1 : h.item[x] = g.item[x]
        BY <2>3
      <4> QED BY <4>1, <4>2, <4>3, <4>4, <4>5, ConsumerKeeps
    <3> QED BY <3>1, <3>2
  <2>9. /\ \A p \in Producers : Producing(h, p)'
        /\ Apart(h, Producers)' /\ Covered(h, Producers, h.pt, h.ph)'
    <3>1. \A p \in Producers : /\ pc'[p] = pc[p] /\ n'[p] = n[p] /\ obj'[p] = obj[p]
                               /\ h.at[p] = g.at[p]
      BY <1>1, <1>2, <2>3, <2>4 DEF Threads
    <3>2. g.ct <= h.ct
      BY <2>3, GhostTypes
    <3> QED BY <1>2, <2>3, <3>1, <3>2, ProducersStay
  <2>10. Apart(h, Consumers)'
    <3>1. ASSUME NEW t \in Consumers, Copies(t)', t # c
          PROVE  /\ Copies(t) /\ n'[t] = n[t] /\ h.at[t] = g.at[t]
                 /\ g.at[t] + n[t] <= g.at[c]
      <4>1. Copies(t) /\ n'[t] = n[t] /\ h.at[t] = g.at[t]
        BY <1>2, <2>3, <2>4, <3>1 DEF Copies, Threads
      <4>2. g.at[t] + n[t] <= g.ch
        BY <4>1 DEF Sound, Consuming
      <4> QED BY <2>1, <4>1, <4>2
    <3>2. h.at[c] = g.at[c] /\ n'[c] = n[c]
      BY <1>2, <2>3
    <3>3. Apart(g, Consumers)
      BY DEF Sound
    <3> QED BY <3>1, <3>2, <3>3 DEF Apart
  <2>11. Covered(h, Consumers, h.ct, h.ch)'
    <3>1. ASSUME NEW x \in g.ct .. (g.ch + n[c]) - 1
          PROVE  \E t \in Consumers : Copies(t)' /\ x \in Reach(h, t)'
      <4>1. x \in Nat /\ g.ct <= x /\ x < g.ch + n[c]
        BY <2>1, GhostTypes
      <4>2. CASE x < g.ch
        <5>1. PICK t \in Consumers : Copies(t) /\ x \in Reach(g, t)
          <6>1. x \in g.ct .. g.ch - 1
            BY <4>1, <4>2, GhostTypes
          <6> QED BY <6>1 DEF Sound, Covered
        <5>2. Copies(t)' /\ Reach(h, t)' = Reach(g, t)
          BY <1>1, <1>2, <2>3, <2>4, <5>1 DEF Copies, Reach, Threads
        <5> QED BY <5>1, <5>2
      <4>3. CASE ~(x < g.ch)
        <5>1. Copies(c)' /\ x \in Reach(h, c)'
          BY <1>2, <2>1, <2>3, <2>4, <4>1, <4>3, GhostTypes DEF Copies, Reach
        <5> QED BY <5>1
      <4> QED BY <4>2, <4>3
    <3> QED BY <2>3, <3>1 DEF Covered
  <2>12. Contents(h)'
    BY <1>2, <2>3 DEF Sound, Contents
  <2>13. Tickets(h)'
    <3>1. OthersStay(c)
      BY <1>2, <2>4 DEF OthersStay
    <3> QED BY <1>2, <2>3, <3>1, ConsumerTickets
  <2>14. Sound(h)'
    BY <2>6, <2>7, <2>8, <2>9, <2>10, <2>11, <2>12, <2>13 DEF Sound
  <2> QED BY <2>14
<1>4. CASE ~(SC \/ cons.head = old[c])
  <2>1. PICK h \in Ghosts : SameBut(g, h, c, g.at[c])
    BY <1>1, GhostAt
  <2>2. /\ pc'[c] = "head" /\ cons' = cons
        /\ \A u \in Threads \ {c} : pc'[u] = pc[u]
    BY <1>1, <1>4 DEF MoveConsHead, Go, Shape
  <2>3. OthersStay(c)
    BY <1>2, <2>2 DEF OthersStay
  <2>4. old'[c] = g.at[c] % Word
    BY <1>1, <1>2 DEF Sound, Stands
  <2>5. Consuming(h, c)'
    <3>1. n[c] # 0 /\ obj[c] = <<>>
      BY <1>1 DEF Sound, Consuming
    <3> QED BY <1>2, <1>4, <2>2, <3>1 DEF Consuming, Copies
  <2>6. Tickets(h)'
    BY <1>2, <2>1, <2>3, ConsumerTickets DEF SameBut
  <2>7. (Copies(c)' <=> Copies(c)) /\ ~Copies(c)
    BY <1>1, <2>2 DEF Copies
  <2>8. Sound(h)'
    BY <1>1, <1>2, <2>1, <2>2, <2>3, <2>4, <2>5, <2>6, <2>7, LocalStep
  <2> QED BY <2>8
<1> QED BY <1>3, <1>4

\* The ghosts go on through a consumer releases its positions.
LEMMA UpdateConsTailSound ==
  ASSUME RteRingAssumption, Shape, NEW g \in Ghosts, Sound(g), NEW c \in Consumers,
         UpdateConsTail(c)
  PROVE  \E h \in Ghosts : Sound(h)'
<1>1. /\ c \in Threads /\ pc[c] = "tail" /\ c \notin Producers /\ Copies(c)
      /\ Consumers \subseteq Threads
  BY DEF UpdateConsTail, Threads, RteRingAssumption, Copies
<1>2. prod' = prod /\ ring' = ring /\ issued' = issued
  BY DEF UpdateConsTail
<1>3. n[c] \in Nat \ {0}
  <2>1. n[c] \in Nat
    BY <1>1, Sizes DEF Shape
  <2>2. n[c] # 0
    BY <1>1 DEF Sound, Consuming
  <2> QED BY <2>1, <2>2
<1>4. /\ g.start <= g.ct /\ g.ct <= g.ch /\ g.ch <= g.pt /\ g.pt <= g.ph
      /\ g.ph <= g.ct + Capacity /\ g.ph <= g.start + issued
  BY DEF Sound, InOrder
<1>5. /\ g.ct <= g.at[c] /\ g.at[c] + n[c] <= g.ch /\ old[c] = g.at[c] % Word
      /\ cons.tail = g.ct % Word /\ Covered(g, Consumers, g.ct, g.ch)
  BY <1>1 DEF Sound, Consuming, Stands
<1>6. g.at[c] = g.ct
  <2>1. g.ct \in Nat /\ g.ch \in Nat /\ g.ch - g.ct < Word
    BY <1>4, GhostTypes, Sizes
  <2>2. Consumers = {c} \/ g.ct % Word = g.at[c] % Word
    BY <1>5 DEF UpdateConsTail, RteRingAssumption
  <2> QED BY <1>1, <1>3, <1>5, <2>1, <2>2, FirstInLine
<1>7. /\ pc'[c] = "idle" /\ n'[c] = 0 /\ old'[c] = 0 /\ obj'[c] = <<>>
      /\ \A u \in Threads \ {c} : /\ pc'[u] = pc[u] /\ n'[u] = n[u]
                                  /\ obj'[u] = obj[u] /\ old'[u] = old[u]
  BY <1>1, Left DEF UpdateConsTail
<1>8. seen'[c] = 0 /\ \A d \in Consumers \ {c} : seen'[d] = seen[d]
  BY DEF UpdateConsTail, Shape
<1>9. PICK h \in Ghosts : h.pt = g.pt /\ h.ct = g.ct + n[c] /\ Gone(g, h, c)
  <2>1. PICK at \in [Threads -> Nat] : at = [g.at EXCEPT ![c] = 0]
    BY GhostTypes
  <2>2. g.ct + n[c] \in Nat
    BY <1>3, GhostTypes
  <2>3. /\ g.start \in Nat /\ g.ph \in Nat /\ g.ch \in Nat /\ g.pt \in Nat
        /\ g.item \in [Nat -> Nat]
    BY GhostTypes
  <2>4. PICK h \in Ghosts : IsGhost(h, g.start, g.ph, g.pt, g.ch, g.ct + n[c], at, g.item)
    BY <2>1, <2>2, <2>3, GhostWith
  <2>5. at[c] = 0 /\ \A u \in Threads \ {c} : at[u] = g.at[u]
    BY <1>1, <2>1, GhostTypes
  <2> QED BY <2>4, <2>5 DEF IsGhost, Gone
<1>10. /\ h.start = g.start /\ h.ph = g.ph /\ h.ch = g.ch /\ h.item = g.item
       /\ h.pt = g.pt /\ h.ct = g.ct + n[c] /\ h.at[c] = 0
       /\ \A u \in Threads \ {c} : h.at[u] = g.at[u]
  BY <1>9 DEF Gone
<1>11. Stands(h)'
  <2>1. Plus(old[c], n[c]) = (g.ct + n[c]) % Word
    <3>1. g.ct \in Nat /\ n[c] \in Int
      BY <1>3, GhostTypes
    <3> QED BY <1>5, <1>6, <3>1, PlusWraps
  <2>2. cons'.tail = Plus(old[c], n[c]) /\ cons'.head = cons.head
    BY DEF UpdateConsTail, Shape
  <2>3. 0 % Word = 0
    BY Sizes
  <2> QED BY <1>2, <1>7, <1>10, <2>1, <2>2, <2>3 DEF Sound, Stands
<1>12. InOrder(h)'
  <2>1. g.start <= g.ct + n[c] /\ g.ct + n[c] <= g.ch /\ g.ph <= (g.ct + n[c]) + Capacity
    <3>1. g.ct + n[c] <= g.ch
      BY <1>5, <1>6
    <3> QED BY <1>3, <1>4, <3>1, GhostTypes, Sizes
  <2> QED BY <1>2, <1>4, <1>10, <2>1 DEF InOrder
<1>13. ASSUME NEW d \in Consumers, d # c, Copies(d)
       PROVE  g.ct + n[c] <= g.at[d]
  <2>1. g.ct <= g.at[d] /\ n[d] # 0
    BY <1>13 DEF Sound, Consuming, Copies
  <2>2. n[d] \in Nat /\ g.at[d] \in Nat
    BY GhostTypes, Sizes DEF Shape, Threads
  <2>3. g.at[c] + n[c] <= g.at[d] \/ g.at[d] + n[d] <= g.at[c]
    BY <1>1, <1>13 DEF Sound, Apart
  <2> QED BY <1>3, <1>6, <2>1, <2>2, <2>3, GhostTypes
<1>14. ASSUME NEW d \in Consumers
       PROVE  Consuming(h, d)'
  <2>1. CASE d = c
    <3>1. ~(seen'[c] > 0)
      BY <1>8
    <3> QED BY <1>7, <2>1, <3>1 DEF Consuming, Copies
  <2>2. CASE d # c
    <3>1. ~SC
      BY <2>2 DEF RteRingAssumption
    <3>2. /\ Consuming(g, d) /\ pc'[d] = pc[d] /\ n'[d] = n[d] /\ obj'[d] = obj[d]
          /\ seen'[d] = seen[d] /\ h.at[d] = g.at[d] /\ h.start = g.start
      BY <1>7, <1>8, <1>10, <2>2 DEF Sound, Threads
    <3>3. g.ch <= h.ch /\ g.pt <= h.pt
      BY <1>10, GhostTypes
    <3>4. Copies(d) => h.ct <= g.at[d]
      BY <1>10, <1>13, <2>2
    <3>5. \A x \in g.ct .. g.ch - 1 : h.item[x] = g.item[x]
      BY <1>10
    <3> QED BY <3>1, <3>2, <3>3, <3>4, <3>5, ConsumerKeeps
  <2> QED BY <2>1, <2>2
<1>15. /\ \A p \in Producers : Producing(h, p)'
       /\ Apart(h, Producers)' /\ Covered(h, Producers, h.pt, h.ph)'
  <2>1. \A p \in Producers : /\ pc'[p] = pc[p] /\ n'[p] = n[p] /\ obj'[p] = obj[p]
                             /\ h.at[p] = g.at[p]
    BY <1>1, <1>7, <1>10 DEF Threads
  <2>2. g.ct <= h.ct
    BY <1>3, <1>10, GhostTypes
  <2> QED BY <1>2, <1>10, <2>1, <2>2, ProducersStay
<1>16. ~Copies(c)' /\ \A d \in Consumers \ {c} : Copies(d)' <=> Copies(d)
  BY <1>7 DEF Copies, Threads
<1>17. Apart(h, Consumers)'
  <2>1. \A d \in Consumers : Copies(d)' => Copies(d) /\ n'[d] = n[d] /\ h.at[d] = g.at[d]
    BY <1>7, <1>10, <1>16 DEF Threads
  <2> QED BY <2>1, ApartKeeps DEF Sound
<1>18. Covered(h, Consumers, h.ct, h.ch)'
  <2>1. ASSUME NEW x \in h.ct .. h.ch - 1
        PROVE  \E d \in Consumers : Copies(d)' /\ x \in Reach(h, d)'
    <3>1. x \in Nat /\ g.ct + n[c] <= x /\ x < g.ch
      BY <1>3, <1>10, GhostTypes
    <3>2. x \in g.ct .. g.ch - 1
      BY <1>3, <3>1, GhostTypes
    <3>3. PICK d \in Consumers : Copies(d) /\ x \in Reach(g, d)
      BY <1>5, <3>2 DEF Covered
    <3>4. d # c
      <4>1. x \in Reach(g, c) => x <= g.ct + n[c] - 1
        BY <1>3, <1>6, GhostTypes DEF Reach
      <4> QED BY <1>3, <3>1, <3>3, <4>1, GhostTypes
    <3>5. Copies(d)' /\ Reach(h, d)' = Reach(g, d)
      BY <1>7, <1>10, <1>16, <3>3, <3>4 DEF Reach, Threads
    <3> QED BY <3>3, <3>5
  <2> QED BY <2>1 DEF Covered
<1>19. Contents(h)'
  <2>1. h.ct .. h.pt - 1 \subseteq g.ct .. g.pt - 1
    BY <1>3, <1>10, GhostTypes
  <2> QED BY <1>2, <1>10, <2>1 DEF Sound, Contents
<1>20. Tickets(h)'
  <2>1. OthersStay(c)
    BY <1>7, <1>8 DEF OthersStay
  <2> QED BY <1>2, <1>10, <2>1, ConsumerTickets
<1>21. Sound(h)'
  BY <1>11, <1>12, <1>14, <1>15, <1>17, <1>18, <1>19, <1>20 DEF Sound
<1> QED BY <1>21
-----------------------------------------------------------------------------
(***************************************************************************)
(* The invariant.                                                          *)
(***************************************************************************)
LEMMA CounterIn ==
  ASSUME RteRingAssumption, NEW a \in Int, NEW b \in Int
  PROVE  Plus(a, b) \in Counters /\ Minus(a, b) \in Counters
<1>1. a + b \in Int /\ a - b \in Int
  OBVIOUS
<1>2. (a + b) % Word \in 0 .. Word - 1 /\ (a - b) % Word \in 0 .. Word - 1
  BY <1>1, WordRest
<1> QED BY <1>2 DEF Plus, Minus, Counters

\* A step of a producer.
LEMMA ProducerShape ==
  ASSUME RteRingAssumption, Shape, NEW g \in Ghosts, Sound(g), NEW p \in Producers,
         EnqueueCall(p) \/ Enqueue(p)
  PROVE  Shape'
<1>1. p \in Threads /\ n[p] \in 0 .. Capacity /\ old[p] \in Counters /\ p \notin Consumers
  BY DEF Threads, Shape, RteRingAssumption
<1>2. Counters \subseteq Int /\ 0 \in Counters
  BY Sizes DEF Counters
<1>3. CASE EnqueueCall(p)
  <2>1. PICK k \in Bulk : /\ issued + k <= MaxItems /\ issued' = issued + k
                          /\ n' = [n EXCEPT ![p] = k]
                          /\ obj' = [obj EXCEPT ![p] = [i \in 1 .. k |-> issued + i]]
    BY <1>3 DEF EnqueueCall
  <2>2. k \in 0 .. Capacity /\ k \in Nat /\ issued \in Nat
    <3>1. k \in 1 .. Size - 1
      BY DEF RteRingAssumption
    <3>2. issued \in 0 .. MaxItems
      BY DEF Shape
    <3> QED BY <3>1, <3>2, Sizes
  <2>3. [i \in 1 .. k |-> issued + i] \in Seq(Nat)
    BY <2>2
  <2>4. issued' \in 0 .. MaxItems
    BY <2>1, <2>2, Sizes
  <2>5. n' \in [Threads -> 0 .. Capacity] /\ obj' \in [Threads -> Seq(Nat)]
    BY <1>1, <2>1, <2>2, <2>3 DEF Shape
  <2> QED BY <1>3, <2>4, <2>5 DEF Shape, EnqueueCall, Go
<1>4. CASE LoadProdHead(p)
  BY <1>1, <1>4 DEF Shape, LoadProdHead, Go
<1>5. CASE LoadConsTail(p)
  <2>1. CASE n[p] > FreeEntries(p)
    <3>1. Leave(p)
      BY <1>5, <2>1 DEF LoadConsTail
    <3>2. <<>> \in Seq(Nat) /\ 0 \in 0 .. Capacity
      BY Sizes
    <3> QED BY <1>2, <1>5, <3>1, <3>2 DEF Shape, LoadConsTail, Leave, Go
  <2>2. CASE ~(n[p] > FreeEntries(p))
    BY <1>5, <2>2 DEF Shape, LoadConsTail, Go
  <2> QED BY <2>1, <2>2
<1>6. CASE MoveProdHead(p)
  <2>1. Plus(old[p], n[p]) \in Counters
    <3>1. old[p] \in Int /\ n[p] \in Int
      BY <1>1, Sizes DEF Counters
    <3> QED BY <3>1, CounterIn
  <2> QED BY <1>6, <2>1 DEF Shape, MoveProdHead, Go
<1>7. CASE EnqueuePtrs(p)
  <2>1. Len(obj[p]) = n[p] /\ obj[p] \in Seq(Nat)
    BY <1>1 DEF Shape, Sound, Producing
  <2>2. ASSUME NEW s \in Slots
        PROVE  (IF Position(p, s) # 0 THEN obj[p][Position(p, s)] ELSE ring[s]) \in Nat
    <3>1. PICK i : i = Slot(Minus(s, old[p]))
      OBVIOUS
    <3>2. i \in Nat
      <4>1. s \in Int /\ old[p] \in Int
        <5>1. s \in Int
          BY Sizes DEF Slots
        <5>2. old[p] \in Counters
          BY <1>1 DEF Shape
        <5> QED BY <5>1, <5>2, Sizes DEF Counters
      <4>2. Minus(s, old[p]) \in Int
        BY <1>2, <4>1, CounterIn
      <4>3. PICK z \in Int : z = Minus(s, old[p])
        BY <4>2
      <4>4. z % Size \in 0 .. Size - 1
        BY SizeRest
      <4> QED BY <3>1, <4>3, <4>4, Sizes DEF Slot
    <3>3. Position(p, s) = IF i < n[p] THEN i + 1 ELSE 0
      BY <3>1 DEF Position
    <3>4. CASE i < n[p]
      <4>1. PICK q \in Seq(Nat) : q = obj[p]
        BY <2>1
      <4>2. i + 1 \in 1 .. Len(q)
        BY <1>1, <2>1, <3>2, <3>4, <4>1, Sizes
      <4>3. q[i + 1] \in Nat
        BY <4>2
      <4>4. Position(p, s) = i + 1 /\ i + 1 # 0
        BY <3>2, <3>3, <3>4
      <4> QED BY <4>1, <4>3, <4>4
    <3>5. CASE ~(i < n[p])
      BY <3>3, <3>5 DEF Shape
    <3> QED BY <3>4, <3>5
  <2>3. ring' \in [Slots -> Nat]
    BY <1>7, <2>2 DEF EnqueuePtrs
  <2> QED BY <1>7, <2>3 DEF Shape, EnqueuePtrs, Go
<1>8. CASE UpdateProdTail(p)
  <2>1. Plus(old[p], n[p]) \in Counters
    <3>1. old[p] \in Int /\ n[p] \in Int
      BY <1>1, Sizes DEF Counters
    <3> QED BY <3>1, CounterIn
  <2>2. <<>> \in Seq(Nat) /\ 0 \in 0 .. Capacity
    BY Sizes
  <2> QED BY <1>2, <1>8, <2>1, <2>2 DEF Shape, UpdateProdTail, Leave, Go
<1> QED BY <1>3, <1>4, <1>5, <1>6, <1>7, <1>8 DEF Enqueue

\* A step of a consumer.
LEMMA ConsumerShape ==
  ASSUME RteRingAssumption, Shape, NEW g \in Ghosts, Sound(g), NEW c \in Consumers,
         CountProdTail(c) \/ Dequeue(c)
  PROVE  Shape'
<1>1. c \in Threads /\ n[c] \in 0 .. Capacity /\ old[c] \in Counters
  BY DEF Threads, Shape
<1>2. Counters \subseteq Int /\ 0 \in Counters
  BY Sizes DEF Counters
<1>3. <<>> \in Seq(Nat) /\ 0 \in 0 .. Capacity
  BY Sizes
<1>4. CASE CountProdTail(c)
  BY <1>4 DEF Shape, CountProdTail, Go
<1>5. CASE CountConsTail(c)
  <2>1. PICK u : u = Minus(old[c], cons.tail) % Size
    OBVIOUS
  <2>2. u \in 0 .. Capacity
    <3>1. pc[c] = "count"
      BY <1>5 DEF CountConsTail
    <3> QED BY <2>1, <3>1, UsedIs
  <2>3. seen' = [seen EXCEPT ![c] = u]
    <3>1. ~(u > Capacity)
      BY <2>2, Sizes
    <3> QED BY <1>5, <2>1, <3>1 DEF CountConsTail
  <2>4. seen' \in [Consumers -> 0 .. Capacity]
    BY <2>2, <2>3 DEF Shape
  <2> QED BY <1>2, <1>3, <1>5, <2>4 DEF Shape, CountConsTail, Leave, Go
<1>6. CASE LoadConsHead(c)
  <2>1. n' \in [Threads -> 0 .. Capacity]
    <3>1. Bulk \subseteq 0 .. Capacity
      BY Sizes DEF RteRingAssumption
    <3> QED BY <1>6, <3>1 DEF Shape, LoadConsHead
  <2> QED BY <1>6, <2>1 DEF Shape, LoadConsHead, Go
<1>7. CASE LoadProdTail(c)
  <2>1. CASE Entries(c) = 0
    <3>1. Leave(c) /\ seen' = [seen EXCEPT ![c] = 0]
      BY <1>7, <2>1 DEF LoadProdTail
    <3>2. seen' \in [Consumers -> 0 .. Capacity]
      BY <1>3, <3>1 DEF Shape
    <3>3. prod' = prod /\ cons' = cons /\ ring' = ring /\ issued' = issued
      BY <1>7 DEF LoadProdTail
    <3> QED BY <1>2, <1>3, <3>1, <3>2, <3>3 DEF Shape, Leave, Go
  <2>2. CASE Entries(c) # 0
    <3>1. Entries(c) \in Nat
      <4>1. prod.tail \in Int /\ old[c] \in Int
        BY <1>1, <1>2 DEF Shape
      <4>2. Minus(prod.tail, old[c]) \in Counters
        BY <4>1, CounterIn
      <4> QED BY <4>2, Sizes DEF Entries, Counters
    <3>2. PICK e \in Nat : e = Entries(c)
      BY <3>1
    <3>3. n' = [n EXCEPT ![c] = IF @ > e THEN e ELSE @]
      BY <1>7, <2>2, <3>2 DEF LoadProdTail
    <3>4. n' \in [Threads -> 0 .. Capacity]
      BY <1>1, <3>3, Sizes DEF Shape
    <3> QED BY <1>7, <2>2, <3>4 DEF Shape, LoadProdTail, Go
  <2> QED BY <2>1, <2>2
<1>8. CASE MoveConsHead(c)
  <2>1. Plus(old[c], n[c]) \in Counters
    <3>1. old[c] \in Int /\ n[c] \in Int
      BY <1>1, Sizes DEF Counters
    <3> QED BY <3>1, CounterIn
  <2> QED BY <1>8, <2>1 DEF Shape, MoveConsHead, Go
<1>9. CASE DequeuePtrs(c)
  <2>1. n[c] \in Nat
    BY <1>1, Sizes
  <2>2. ASSUME NEW i \in 1 .. n[c]
        PROVE  ring[Slot(old[c] + i - 1)] \in Nat
    <3>1. old[c] + i - 1 \in Int
      <4>1. old[c] \in Int /\ i \in Int
        BY <1>1, <2>1, Sizes DEF Counters
      <4> QED BY <4>1
    <3>2. PICK z \in Int : z = old[c] + i - 1
      BY <3>1
    <3>3. z % Size \in Slots
      BY SizeRest DEF Slots
    <3> QED BY <3>2, <3>3 DEF Shape, Slot
  <2>3. Reserved(c) \in Seq(Nat)
    BY <2>1, <2>2 DEF Reserved
  <2> QED BY <1>9, <2>3 DEF Shape, DequeuePtrs, Go
<1>10. CASE UpdateConsTail(c)
  <2>1. Plus(old[c], n[c]) \in Counters
    <3>1. old[c] \in Int /\ n[c] \in Int
      BY <1>1, Sizes DEF Counters
    <3> QED BY <3>1, CounterIn
  <2> QED BY <1>2, <1>3, <1>10, <2>1 DEF Shape, UpdateConsTail, Leave, Go
<1> QED BY <1>4, <1>5, <1>6, <1>7, <1>8, <1>9, <1>10 DEF Dequeue

\* The idle ring stands for itself.
LEMMA RingInit == RteRingAssumption /\ Init => RingInv
<1> SUFFICES ASSUME RteRingAssumption, Init
             PROVE  RingInv
  OBVIOUS
<1>1. PICK k \in Starts : prod = [head |-> k, tail |-> k] /\ cons = [head |-> k, tail |-> k]
  BY DEF Init
<1>2. /\ ring = [s \in Slots |-> 0] /\ pc = [t \in Threads |-> "idle"]
      /\ n = [t \in Threads |-> 0] /\ old = [t \in Threads |-> 0]
      /\ obj = [t \in Threads |-> <<>>] /\ seen = [c \in Consumers |-> 0] /\ issued = 0
  BY DEF Init
<1>3. k \in Counters /\ k \in Nat /\ 0 \in Counters /\ 0 \in 0 .. Capacity /\ 0 \in 0 .. MaxItems
      /\ <<>> \in Seq(Nat)
  BY Sizes DEF RteRingAssumption, Counters
<1>4. Shape
  BY <1>1, <1>2, <1>3 DEF Shape
<1>5. PICK h \in Ghosts : IsGhost(h, k, k, k, k, k, [t \in Threads |-> 0], [x \in Nat |-> 0])
  BY <1>3, GhostWith
<1>6. /\ h.start = k /\ h.ph = k /\ h.pt = k /\ h.ch = k /\ h.ct = k
      /\ \A t \in Threads : h.at[t] = 0
  BY <1>5 DEF IsGhost
<1>7. Stands(h)
  <2>1. k % Word = k /\ 0 % Word = 0
    BY <1>3, Sizes DEF Counters
  <2> QED BY <1>1, <1>2, <1>6, <2>1 DEF Stands
<1>8. InOrder(h)
  BY <1>2, <1>3, <1>6, Sizes DEF InOrder
<1>9. \A t \in Threads : pc[t] = "idle" /\ n[t] = 0 /\ obj[t] = <<>>
  BY <1>2
<1>10. \A p \in Producers : Producing(h, p)
  BY <1>9 DEF Producing, Copies, Threads
<1>11. \A c \in Consumers : Consuming(h, c)
  BY <1>2, <1>9 DEF Consuming, Copies, Threads
<1>12. Apart(h, Producers) /\ Apart(h, Consumers)
  BY <1>9 DEF Apart, Copies, Threads
<1>13. k .. k - 1 = {}
  BY <1>3
<1>14. /\ Covered(h, Producers, h.pt, h.ph) /\ Covered(h, Consumers, h.ct, h.ch)
       /\ Contents(h)
  BY <1>6, <1>13 DEF Covered, Contents
<1>15. Tickets(h)
  BY <1>6, <1>9, <1>13 DEF Tickets, Waits, Threads
<1>16. Sound(h)
  BY <1>7, <1>8, <1>10, <1>11, <1>12, <1>14, <1>15 DEF Sound
<1> QED BY <1>4, <1>16 DEF RingInv

\* Every step keeps the ghost of the ring, or gives it the next one.
LEMMA RingStep ==
  ASSUME RteRingAssumption, RingInv, [Next]_vars
  PROVE  RingInv'
<1>1. PICK g \in Ghosts : Sound(g)
  BY DEF RingInv
<1>2. Shape
  BY DEF RingInv
<1>3. ASSUME NEW p \in Producers, EnqueueCall(p) \/ Enqueue(p)
      PROVE  RingInv'
  <2>1. \E h \in Ghosts : Sound(h)'
    BY <1>1, <1>2, <1>3, EnqueueCallSound, LoadProdHeadSound, LoadConsTailSound,
       MoveProdHeadSound, EnqueuePtrsSound, UpdateProdTailSound DEF Enqueue
  <2>2. Shape'
    BY <1>1, <1>2, <1>3, ProducerShape
  <2> QED BY <2>1, <2>2 DEF RingInv
<1>4. ASSUME NEW c \in Consumers, CountProdTail(c) \/ Dequeue(c)
      PROVE  RingInv'
  <2>1. \E h \in Ghosts : Sound(h)'
    BY <1>1, <1>2, <1>4, CountProdTailSound, CountConsTailSound, LoadConsHeadSound,
       LoadProdTailSound, MoveConsHeadSound, DequeuePtrsSound, UpdateConsTailSound DEF Dequeue
  <2>2. Shape'
    BY <1>1, <1>2, <1>4, ConsumerShape
  <2> QED BY <2>1, <2>2 DEF RingInv
<1>5. ASSUME UNCHANGED vars
      PROVE  RingInv'
  <2>1. /\ prod' = prod /\ cons' = cons /\ ring' = ring /\ pc' = pc /\ n' = n /\ old' = old
        /\ obj' = obj /\ seen' = seen /\ issued' = issued
    BY <1>5 DEF vars
  <2>2. Shape'
    BY <1>2, <2>1 DEF Shape
  <2>3. Sound(g)'
    <3>1. Stands(g)' /\ InOrder(g)' /\ Contents(g)'
      BY <1>1, <2>1 DEF Sound, Stands, InOrder, Contents
    <3>2. \A p \in Producers : Producing(g, p)'
      BY <1>1, <2>1 DEF Sound, Producing, Copies, Reach
    <3>3. \A c \in Consumers : Consuming(g, c)'
      BY <1>1, <2>1 DEF Sound, Consuming, Copies, Reach
    <3>4. /\ Apart(g, Producers)' /\ Covered(g, Producers, g.pt, g.ph)'
          /\ Apart(g, Consumers)' /\ Covered(g, Consumers, g.ct, g.ch)'
      BY <1>1, <2>1 DEF Sound, Apart, Covered, Copies, Reach
    <3>5. Tickets(g)'
      BY <1>1, <2>1 DEF Sound, Tickets, Waits
    <3> QED BY <3>1, <3>2, <3>3, <3>4, <3>5 DEF Sound
  <2> QED BY <2>2, <2>3 DEF RingInv
<1> QED BY <1>3, <1>4, <1>5 DEF Next

\* The inductive invariant: there always are unwrapped counters the ring stands for.
LEMMA RingInvariant == ASSUME RteRingAssumption PROVE Spec => []RingInv
<1>1. Init => RingInv
  BY RingInit
<1>2. RingInv /\ [Next]_vars => RingInv'
  BY RingStep
<1> QED BY <1>1, <1>2, PTL DEF Spec

\* A consumer that counted an object gets one.
LEMMA InvCounted == ASSUME RteRingAssumption, RingInv PROVE CountedIsThere
<1>1. PICK g \in Ghosts : Sound(g)
  BY DEF RingInv
<1> SUFFICES ASSUME SC, NEW c \in Consumers, pc[c] = "entries", seen[c] > 0
             PROVE  Entries(c) > 0
  BY DEF CountedIsThere
<1>2. g.at[c] = g.ch /\ g.ch < g.pt
  BY <1>1 DEF Sound, Consuming, Copies
<1>3. Entries(c) = g.pt - g.at[c]
  BY <1>1, EntriesIs DEF RingInv
<1> QED BY <1>2, <1>3, GhostTypes

\* The reservations on the way never exceed the capacity.
LEMMA InvCapacity == ASSUME RteRingAssumption, RingInv PROVE WithinCapacity
<1>1. PICK g \in Ghosts : Sound(g)
  BY DEF RingInv
<1>2. /\ g.ct <= g.ch /\ g.ch <= g.pt /\ g.pt <= g.ph /\ g.ph <= g.ct + Capacity
      /\ prod.head = g.ph % Word /\ cons.tail = g.ct % Word
  BY <1>1 DEF Sound, InOrder, Stands
<1>3. g.ct <= g.ph /\ g.ph - g.ct < Word /\ g.ph - g.ct <= Capacity /\ g.ph \in Nat /\ g.ct \in Nat
  <2>1. g.ct <= g.ch /\ g.ch <= g.pt /\ g.pt <= g.ph /\ g.ph <= g.ct + Capacity
    BY <1>2
  <2> QED BY <2>1, GhostTypes, Sizes
<1>4. Minus(g.ph % Word, g.ct % Word) = g.ph - g.ct
  BY <1>3, MinusWraps
<1> QED BY <1>2, <1>3, <1>4 DEF WithinCapacity

\* Every slot is the slot of a position of the turn that starts at lo.
LEMMA SlotTaken ==
  ASSUME RteRingAssumption, NEW s \in Slots, NEW lo \in Nat
  PROVE  \E x \in Nat : lo <= x /\ x < lo + Size /\ Slot(x) = s
<1>1. s \in Int /\ s \in 0 .. Size - 1
  BY Sizes DEF Slots
<1>2. PICK z \in Int : z = s - lo
  BY <1>1
<1>3. z % Size \in 0 .. Size - 1 /\ Mult(Size, z - (z % Size))
  BY SizeRest
<1>4. PICK d \in Int : d = z % Size
  BY <1>3, Sizes
<1>5. PICK x \in Nat : x = lo + d
  BY <1>3, <1>4, Sizes
<1>6. Mult(Size, x - s)
  <2>1. Mult(Size, z - d)
    BY <1>3, <1>4
  <2>2. Mult(Size, (z - d) - (z - d))
    BY <2>1, MultAdd, Sizes
  <2>3. Mult(Size, ((z - d) - (z - d)) - (z - d))
    BY <2>1, <2>2, MultAdd, Sizes
  <2>4. ((z - d) - (z - d)) - (z - d) = x - s
    BY <1>1, <1>2, <1>5
  <2> QED BY <2>3, <2>4
<1>7. x % Size = s
  <2>1. PICK r \in 0 .. Size - 1 : r = s
    BY <1>1
  <2>2. Mult(Size, x - r) /\ x \in Int
    BY <1>6, <2>1
  <2>3. x % Size = r
    BY <2>2, Remainder, Sizes
  <2> QED BY <2>1, <2>3
<1>8. lo <= x /\ x < lo + Size
  BY <1>3, <1>4, <1>5, Sizes
<1> QED BY <1>7, <1>8 DEF Slot

\* Threads that copy at the same time copy different slots.
LEMMA InvDisjoint == ASSUME RteRingAssumption, RingInv PROVE SlotsDisjoint
<1>1. PICK g \in Ghosts : Sound(g)
  BY DEF RingInv
<1>2. Shape
  BY DEF RingInv
<1>3. /\ g.ct <= g.ch /\ g.ch <= g.pt /\ g.pt <= g.ph /\ g.ph <= g.ct + Capacity
  BY <1>1 DEF Sound, InOrder
<1>4. ASSUME NEW t \in Threads, pc[t] = "copy"
      PROVE  /\ t \in Producers => g.pt <= g.at[t] /\ g.at[t] + n[t] <= g.ph
             /\ t \in Consumers => g.ct <= g.at[t] /\ g.at[t] + n[t] <= g.ch
             /\ n[t] \in Nat \ {0} /\ g.at[t] \in Nat /\ old[t] = g.at[t] % Word
  <2>1. n[t] \in Nat /\ g.at[t] \in Nat /\ old[t] = g.at[t] % Word
    BY <1>1, <1>2, GhostTypes, Sizes DEF Shape, Sound, Stands
  <2>2. CASE t \in Producers
    BY <1>1, <1>4, <2>1, <2>2 DEF Sound, Producing, Copies, RteRingAssumption
  <2>3. CASE t \in Consumers
    BY <1>1, <1>4, <2>1, <2>3 DEF Sound, Consuming, Copies, RteRingAssumption
  <2> QED BY <2>2, <2>3 DEF Threads
<1>5. ASSUME NEW t \in Threads, pc[t] = "copy", NEW x \in Nat, g.ct <= x, x < g.ct + Size
      PROVE  Position(t, Slot(x)) # 0 => x \in Reach(g, t)
  <2>1. PICK o \in Nat : o = g.at[t]
    BY <1>4, <1>5
  <2>2. PICK m \in Nat \ {0} : m = n[t]
    BY <1>4, <1>5
  <2>3. PICK lo \in Nat : lo = g.ct
    BY GhostTypes
  <2>4. lo <= o /\ o < lo + Size /\ o + m <= lo + Size
    <3>1. /\ t \in Producers => g.pt <= o /\ o + m <= g.ph
          /\ t \in Consumers => g.ct <= o /\ o + m <= g.ch
      BY <1>4, <1>5, <2>1, <2>2
    <3>2. g.ct <= o /\ o + m <= g.ct + Capacity
      BY <1>3, <3>1, GhostTypes, Sizes DEF Threads
    <3> QED BY <2>3, <3>2, Sizes
  <2>5. old[t] = o % Word /\ n[t] = m /\ lo <= x /\ x < lo + Size
    BY <1>4, <1>5, <2>1, <2>2, <2>3
  <2>6. Position(t, Slot(x)) = IF x \in o .. o + m - 1 THEN x - o + 1 ELSE 0
    BY <2>4, <2>5, PositionIs
  <2> QED BY <2>1, <2>2, <2>6 DEF Reach
<1>6. ASSUME NEW t \in Threads, NEW u \in Threads, t # u, pc[t] = "copy", pc[u] = "copy",
             NEW x \in Nat, x \in Reach(g, t), x \in Reach(g, u)
      PROVE  FALSE
  <2>1. g.at[t] <= x /\ x < g.at[t] + n[t] /\ g.at[u] <= x /\ x < g.at[u] + n[u]
    BY <1>4, <1>6 DEF Reach
  <2>2. /\ g.at[t] \in Nat /\ g.at[u] \in Nat /\ n[t] \in Nat /\ n[u] \in Nat
        /\ t \in Producers => g.pt <= g.at[t] /\ g.at[t] + n[t] <= g.ph
        /\ t \in Consumers => g.ct <= g.at[t] /\ g.at[t] + n[t] <= g.ch
        /\ u \in Producers => g.pt <= g.at[u] /\ g.at[u] + n[u] <= g.ph
        /\ u \in Consumers => g.ct <= g.at[u] /\ g.at[u] + n[u] <= g.ch
    BY <1>4, <1>6
  <2>3. CASE (t \in Producers /\ u \in Producers) \/ (t \in Consumers /\ u \in Consumers)
    <3>1. g.at[t] + n[t] <= g.at[u] \/ g.at[u] + n[u] <= g.at[t]
      BY <1>1, <1>6, <2>3 DEF Sound, Apart, Copies
    <3> QED BY <2>1, <2>2, <3>1
  <2>4. CASE (t \in Producers /\ u \in Consumers) \/ (t \in Consumers /\ u \in Producers)
    BY <1>3, <2>1, <2>2, <2>4, GhostTypes
  <2> QED BY <2>3, <2>4 DEF Threads
<1> SUFFICES ASSUME NEW t \in Threads, NEW u \in Threads, t # u, pc[t] = "copy", pc[u] = "copy",
                    NEW s \in Slots, Position(t, s) # 0, Position(u, s) # 0
             PROVE  FALSE
  BY DEF SlotsDisjoint, SlotsOf
<1>7. PICK x \in Nat : g.ct <= x /\ x < g.ct + Size /\ Slot(x) = s
  <2>1. g.ct \in Nat
    BY GhostTypes
  <2> QED BY <2>1, SlotTaken
<1> QED BY <1>5, <1>6, <1>7
-----------------------------------------------------------------------------
(***************************************************************************)
(* The ring is a bounded FIFO.                                             *)
(***************************************************************************)
\* What stands in the ring between a head and a tail, read through the counters.
LEMMA Between ==
  ASSUME RteRingAssumption, NEW lo \in Nat, NEW hi \in Nat, NEW a, NEW b, NEW r, NEW item,
         lo <= hi, hi - lo < Word, a = lo % Word, b = hi % Word,
         \A x \in lo .. hi - 1 : r[Slot(x)] = item[x]
  PROVE  /\ Minus(b, a) = hi - lo
         /\ [i \in 1 .. hi - lo |-> r[Slot(a + i - 1)]] = [i \in 1 .. hi - lo |-> item[lo + i - 1]]
<1>1. Minus(b, a) = hi - lo
  BY MinusWraps
<1>2. ASSUME NEW i \in 1 .. hi - lo
      PROVE  r[Slot(a + i - 1)] = item[lo + i - 1]
  <2>1. PICK w \in Int : w = lo % Word
    BY WordRest
  <2>2. PICK j \in Int : j = i - 1
    OBVIOUS
  <2>3. Slot((lo % Word) + j) = Slot(lo + j)
    BY SlotWraps
  <2>4. a + i - 1 = w + j /\ lo + i - 1 = lo + j
    BY <2>1, <2>2
  <2>5. lo + j \in lo .. hi - 1
    BY <2>2
  <2> QED BY <2>1, <2>3, <2>4, <2>5
<1> QED BY <1>1, <1>2

\* What a dequeue may reserve is what was enqueued, oldest first.
LEMMA QueueIs ==
  ASSUME RteRingAssumption, Shape, NEW g \in Ghosts, Sound(g)
  PROVE  Queue = [i \in 1 .. g.pt - g.ch |-> g.item[g.ch + i - 1]]
<1>1. /\ g.ct <= g.ch /\ g.ch <= g.pt /\ g.pt <= g.ph /\ g.ph <= g.ct + Capacity
      /\ cons.head = g.ch % Word /\ prod.tail = g.pt % Word
  BY DEF Sound, InOrder, Stands
<1>2. PICK lo \in Nat : lo = g.ch
  BY GhostTypes
<1>3. PICK hi \in Nat : hi = g.pt
  BY GhostTypes
<1>4. lo <= hi /\ hi - lo < Word /\ lo .. hi - 1 \subseteq g.ct .. g.pt - 1
  <2>1. g.ct <= lo /\ lo <= hi /\ hi <= g.ct + Capacity
    BY <1>1, <1>2, <1>3, GhostTypes, Sizes
  <2> QED BY <1>3, <2>1, GhostTypes, Sizes
<1>5. \A x \in lo .. hi - 1 : ring[Slot(x)] = g.item[x]
  BY <1>4 DEF Sound, Contents
<1>6. cons.head = lo % Word /\ prod.tail = hi % Word
  BY <1>1, <1>2, <1>3
<1>7. /\ Minus(prod.tail, cons.head) = hi - lo
      /\ [i \in 1 .. hi - lo |-> ring[Slot(cons.head + i - 1)]]
           = [i \in 1 .. hi - lo |-> g.item[lo + i - 1]]
  <2>1. PICK a : a = cons.head
    OBVIOUS
  <2>2. PICK b : b = prod.tail
    OBVIOUS
  <2>3. PICK r : r = ring
    OBVIOUS
  <2>4. PICK item : item = g.item
    OBVIOUS
  <2>5. lo <= hi /\ hi - lo < Word /\ a = lo % Word /\ b = hi % Word
    BY <1>4, <1>6, <2>1, <2>2
  <2>6. \A x \in lo .. hi - 1 : r[Slot(x)] = item[x]
    BY <1>5, <2>3, <2>4
  <2>7. /\ Minus(b, a) = hi - lo
        /\ [i \in 1 .. hi - lo |-> r[Slot(a + i - 1)]] = [i \in 1 .. hi - lo |-> item[lo + i - 1]]
    BY <2>5, <2>6, Between
  <2> QED BY <2>1, <2>2, <2>3, <2>4, <2>7
<1> QED BY <1>2, <1>3, <1>7 DEF Queue

\* The abstract queue depends on prod.tail, cons.head and the slots only.
LEMMA QueueStays == ASSUME prod'.tail = prod.tail, cons'.head = cons.head, ring' = ring
                    PROVE  Queue' = Queue
BY DEF Queue

\* What is offered depends on the tables of the producers only.
LEMMA OfferStays == ASSUME \A p \in Producers : obj'[p] = obj[p]
                    PROVE  Offer' = Offer
BY DEF Offer

\* What is held depends on the consumers and the slots only.
LEMMA HeldStays ==
  ASSUME ring' = ring, \A c \in Consumers : /\ pc'[c] = pc[c] /\ n'[c] = n[c] /\ old'[c] = old[c]
                                            /\ obj'[c] = obj[c]
  PROVE  Held' = Held
BY DEF Held, Reserved

\* One producer's objects go.
LEMMA OfferGone ==
  ASSUME NEW p \in Producers, obj'[p] = <<>>, \A q \in Producers \ {p} : obj'[q] = obj[q]
  PROVE  Offer' = [Offer EXCEPT ![p] = <<>>]
BY DEF Offer

\* What the abstract queue sees of a step.
Seen == <<Queue, Offer, Held>>

\* A step that changes none of the three is a stutter of the abstract queue.
LEMMA Unseen == ASSUME Queue' = Queue, Offer' = Offer, Held' = Held
                PROVE  [Fifo!Next]_Seen
BY DEF Seen

\* The call of an enqueue is Offer.
LEMMA EnqueueCallFifo ==
  ASSUME RteRingAssumption, Shape, NEW g \in Ghosts, Sound(g), NEW p \in Producers,
         EnqueueCall(p)
  PROVE  [Fifo!Next]_Seen
<1>1. /\ p \in Threads /\ p \notin Consumers /\ pc[p] = "idle"
  BY DEF EnqueueCall, Threads, RteRingAssumption
<1>2. PICK k \in Bulk : /\ issued + k <= MaxItems
                        /\ obj' = [obj EXCEPT ![p] = [i \in 1 .. k |-> issued + i]]
                        /\ n' = [n EXCEPT ![p] = k]
  BY DEF EnqueueCall
<1>3. k \in Nat /\ k >= 1 /\ issued \in Nat
  <2>1. k \in 1 .. Size - 1 /\ issued \in 0 .. MaxItems
    BY DEF RteRingAssumption, Shape
  <2> QED BY <2>1, Sizes
<1>4. Queue' = Queue
  BY QueueStays DEF EnqueueCall
<1>5. Held' = Held
  <2>1. \A c \in Consumers : /\ pc'[c] = pc[c] /\ n'[c] = n[c] /\ old'[c] = old[c]
                             /\ obj'[c] = obj[c]
    BY <1>1, <1>2 DEF EnqueueCall, Go, Shape, Threads
  <2> QED BY <2>1, HeldStays DEF EnqueueCall
<1>6. Offer[p] = <<>>
  <2>1. obj[p] \in Seq(Nat) /\ Len(obj[p]) = n[p] /\ n[p] = 0
    BY <1>1 DEF Shape, Sound, Producing
  <2> QED BY <2>1 DEF Offer
<1>7. PICK objs : objs = [i \in 1 .. k |-> issued + i]
  OBVIOUS
<1>8. Offer' = [Offer EXCEPT ![p] = objs]
  BY <1>1, <1>2, <1>7 DEF Offer, Shape, Threads
<1>9. objs # <<>>
  <2>1. Len(objs) = k
    BY <1>3, <1>7
  <2> QED BY <1>3, <2>1
<1>10. Fifo!Offer(p, objs)
  BY <1>4, <1>5, <1>6, <1>8, <1>9 DEF Fifo!Offer
<1>11. /\ issued + 1 \in Items /\ issued + k \in Items /\ issued + 1 <= issued + k
       /\ objs = [j \in 1 .. (issued + k) - (issued + 1) + 1 |-> (issued + 1) + j - 1]
  <2>1. (issued + k) - (issued + 1) + 1 = k
    BY <1>3
  <2>2. \A j \in 1 .. k : (issued + 1) + j - 1 = issued + j
    BY <1>3
  <2>3. issued + 1 \in Items /\ issued + k \in Items /\ issued + 1 <= issued + k
    BY <1>2, <1>3, Sizes DEF Items
  <2> QED BY <1>7, <2>1, <2>2, <2>3
<1>12. Fifo!Next
  BY <1>10, <1>11 DEF Fifo!Next
<1> QED BY <1>12

\* What a consumer has taken is what stood at its positions.
LEMMA HeldIs ==
  ASSUME RteRingAssumption, Shape, NEW g \in Ghosts, Sound(g), NEW c \in Consumers
  PROVE  Held[c] = IF Copies(c) THEN [i \in 1 .. n[c] |-> g.item[g.at[c] + i - 1]] ELSE <<>>
<1>1. CASE pc[c] = "copy"
  BY <1>1, DequeuePtrsAre DEF Held, Copies
<1>2. CASE pc[c] = "tail"
  BY <1>2 DEF Held, Copies, Sound, Consuming
<1>3. CASE ~Copies(c)
  BY <1>3 DEF Held, Copies, Sound, Consuming
<1> QED BY <1>1, <1>2, <1>3 DEF Copies

\* Everything between the consumers' tail and the producers' head is in the crowd.
LEMMA CrowdHas ==
  ASSUME RteRingAssumption, Shape, NEW g \in Ghosts, Sound(g), NEW x \in g.ct .. g.ph - 1
  PROVE  g.item[x] \in Fifo!Crowd
<1>1. x \in Nat /\ g.ct <= x /\ x < g.ph
  BY GhostTypes
<1>2. CASE x < g.ch
  <2>1. x \in g.ct .. g.ch - 1
    BY <1>1, <1>2, GhostTypes
  <2>2. PICK c \in Consumers : Copies(c) /\ x \in Reach(g, c)
    BY <2>1 DEF Sound, Covered
  <2>3. Held[c] = [i \in 1 .. n[c] |-> g.item[g.at[c] + i - 1]]
    BY <2>2, HeldIs
  <2>4. PICK a \in Nat : a = g.at[c]
    BY GhostTypes DEF Threads
  <2>5. PICK m \in Nat : m = n[c]
    BY Sizes DEF Shape, Threads
  <2>6. x - a + 1 \in 1 .. m /\ a + (x - a + 1) - 1 = x
    BY <1>1, <2>2, <2>4, <2>5 DEF Reach
  <2>7. Held[c][x - a + 1] = g.item[x] /\ x - a + 1 \in DOMAIN Held[c]
    BY <2>3, <2>4, <2>5, <2>6
  <2> QED BY <2>7 DEF Fifo!Crowd, Fifo!Objects
<1>3. CASE g.ch <= x /\ x < g.pt
  <2>1. PICK lo \in Nat : lo = g.ch
    BY GhostTypes
  <2>2. PICK hi \in Nat : hi = g.pt
    BY GhostTypes
  <2>3. Queue = [i \in 1 .. hi - lo |-> g.item[lo + i - 1]]
    BY <2>1, <2>2, QueueIs
  <2>4. x - lo + 1 \in 1 .. hi - lo /\ lo + (x - lo + 1) - 1 = x
    BY <1>1, <1>3, <2>1, <2>2
  <2>5. Queue[x - lo + 1] = g.item[x] /\ x - lo + 1 \in DOMAIN Queue
    BY <2>3, <2>4
  <2> QED BY <2>5 DEF Fifo!Crowd, Fifo!Objects
<1>4. CASE g.pt <= x
  <2>1. x \in g.pt .. g.ph - 1
    BY <1>1, <1>4, GhostTypes
  <2>2. PICK p \in Producers : Copies(p) /\ x \in Reach(g, p)
    BY <2>1 DEF Sound, Covered
  <2>3. obj[p][x - g.at[p] + 1] = g.item[x] /\ Len(obj[p]) = n[p]
    BY <2>2 DEF Sound, Producing
  <2>4. PICK s \in Seq(Nat) : s = obj[p]
    BY DEF Shape, Threads
  <2>5. PICK a \in Nat : a = g.at[p]
    BY GhostTypes DEF Threads
  <2>6. PICK m \in Nat : m = n[p]
    BY Sizes DEF Shape, Threads
  <2>7. x - a + 1 \in 1 .. m
    BY <1>1, <2>2, <2>5, <2>6 DEF Reach
  <2>8. x - a + 1 \in DOMAIN s
    <3>1. Len(s) = m
      BY <2>3, <2>4, <2>6
    <3> QED BY <2>4, <2>7, <3>1
  <2>9. Offer[p][x - a + 1] = g.item[x] /\ x - a + 1 \in DOMAIN Offer[p]
    BY <2>3, <2>4, <2>5, <2>8 DEF Offer
  <2> QED BY <2>9 DEF Fifo!Crowd, Fifo!Objects
<1> QED BY <1>1, <1>2, <1>3, <1>4, GhostTypes

\* The crowd has no object that was not offered, so it is finite.
LEMMA CrowdFinite ==
  ASSUME RteRingAssumption, Shape, NEW g \in Ghosts, Sound(g)
  PROVE  IsFiniteSet(Fifo!Crowd)
<1>1. issued \in Nat
  BY Sizes DEF Shape
<1>2. /\ g.start <= g.ct /\ g.ct <= g.ch /\ g.ch <= g.pt /\ g.pt <= g.ph
  BY DEF Sound, InOrder
<1>3. \A x \in Nat : g.ct <= x /\ x < g.ph => g.item[x] \in 1 .. issued
  <2>1. \A x \in g.start .. g.ph - 1 : g.item[x] \in 1 .. issued
    BY DEF Sound, Tickets
  <2>2. \A x \in Nat : g.ct <= x /\ x < g.ph => x \in g.start .. g.ph - 1
    BY <1>2, GhostTypes
  <2> QED BY <2>1, <2>2
<1>4. Fifo!Objects(Queue) \subseteq 1 .. issued
  <2>1. PICK lo \in Nat : lo = g.ch
    BY GhostTypes
  <2>2. PICK hi \in Nat : hi = g.pt
    BY GhostTypes
  <2>3. Queue = [i \in 1 .. hi - lo |-> g.item[lo + i - 1]]
    BY <2>1, <2>2, QueueIs
  <2>4. \A i \in 1 .. hi - lo : g.item[lo + i - 1] \in 1 .. issued
    <3>1. \A i \in 1 .. hi - lo : lo + i - 1 \in Nat /\ g.ct <= lo + i - 1 /\ lo + i - 1 < g.ph
      BY <1>2, <2>1, <2>2, GhostTypes
    <3> QED BY <1>3, <3>1
  <2> QED BY <2>3, <2>4 DEF Fifo!Objects
<1>5. ASSUME NEW p \in Producers
      PROVE  Fifo!Objects(Offer[p]) \subseteq 1 .. issued
  <2>1. PICK s \in Seq(Nat) : s = obj[p]
    BY DEF Shape, Threads
  <2>2. PICK m \in Nat : m = n[p]
    BY Sizes DEF Shape, Threads
  <2>3. Len(s) = m /\ Offer[p] = s
    BY <2>1, <2>2 DEF Sound, Producing, Offer
  <2>4. ASSUME NEW i \in 1 .. m
        PROVE  s[i] \in 1 .. issued
    <3>1. pc[p] # "idle"
      BY <2>2, <2>4 DEF Sound, Producing
    <3>2. CASE Waits(p)
      BY <2>1, <2>2, <2>4, <3>2 DEF Sound, Tickets
    <3>3. CASE Copies(p)
      <4>1. PICK a \in Nat : a = g.at[p]
        BY GhostTypes DEF Threads
      <4>2. /\ g.pt <= a /\ a + m <= g.ph
            /\ \A x \in Reach(g, p) : s[x - a + 1] = g.item[x]
        BY <2>1, <2>2, <3>3, <4>1 DEF Sound, Producing
      <4>3. PICK x \in Nat : x = a + i - 1
        BY <2>4
      <4>4. x \in Reach(g, p) /\ x - a + 1 = i
        <5>1. Reach(g, p) = a .. a + m - 1
          BY <2>2, <4>1 DEF Reach
        <5> QED BY <2>4, <4>3, <5>1
      <4>5. g.ct <= x /\ x < g.ph
        BY <1>2, <2>4, <4>2, <4>3, GhostTypes
      <4> QED BY <1>3, <4>2, <4>4, <4>5
    <3> QED BY <3>1, <3>2, <3>3 DEF Sound, Producing, Waits, Copies
  <2> QED BY <2>1, <2>3, <2>4 DEF Fifo!Objects
<1>6. ASSUME NEW c \in Consumers
      PROVE  Fifo!Objects(Held[c]) \subseteq 1 .. issued
  <2>1. CASE Copies(c)
    <3>1. PICK a \in Nat : a = g.at[c]
      BY GhostTypes DEF Threads
    <3>2. PICK m \in Nat : m = n[c]
      BY Sizes DEF Shape, Threads
    <3>3. Held[c] = [i \in 1 .. m |-> g.item[a + i - 1]]
      BY <2>1, <3>1, <3>2, HeldIs
    <3>4. g.ct <= a /\ a + m <= g.ch
      BY <2>1, <3>1, <3>2 DEF Sound, Consuming
    <3>5. \A i \in 1 .. m : a + i - 1 \in Nat /\ g.ct <= a + i - 1 /\ a + i - 1 < g.ph
      BY <1>2, <3>4, GhostTypes
    <3>6. \A i \in 1 .. m : g.item[a + i - 1] \in 1 .. issued
      BY <1>3, <3>5
    <3> QED BY <3>3, <3>6 DEF Fifo!Objects
  <2>2. CASE ~Copies(c)
    <3>1. Held[c] = <<>>
      BY <2>2, HeldIs
    <3> QED BY <3>1 DEF Fifo!Objects
  <2> QED BY <2>1, <2>2
<1>7. Fifo!Crowd \subseteq 1 .. issued
  BY <1>4, <1>5, <1>6 DEF Fifo!Crowd
<1>8. IsFiniteSet(1 .. issued)
  <2>1. 1 \in Int /\ issued \in Int
    BY <1>1
  <2> QED BY <2>1, FS_Interval
<1> QED BY <1>7, <1>8, FS_Subset

\* A producer is refused only when more objects are about than the ring can hold: those
\* between the tail of the consumers and the head of the producers, and its own.
LEMMA RefusedIsCrowded ==
  ASSUME RteRingAssumption, Shape, NEW g \in Ghosts, Sound(g), NEW p \in Producers,
         pc[p] = "room", n[p] > FreeEntries(p)
  PROVE  Cardinality(Fifo!Crowd) > Capacity
<1>1. PICK s \in Seq(Nat) : s = obj[p]
  BY DEF Shape, Threads
<1>2. PICK k \in Nat : k = n[p]
  BY Sizes DEF Shape, Threads
<1>3. Len(s) = k /\ g.at[p] <= g.ph
  BY <1>1, <1>2 DEF Sound, Producing
<1>4. PICK w \in Nat : w = g.ph - g.ct
  <2>1. g.ct <= g.ch /\ g.ch <= g.pt /\ g.pt <= g.ph
    BY DEF Sound, InOrder
  <2> QED BY <2>1, GhostTypes
<1>5. w + k > Capacity
  <2>1. FreeEntries(p) = g.ct + Capacity - g.at[p]
    BY FreeIs
  <2>2. PICK a \in Nat : a = g.at[p]
    BY GhostTypes DEF Threads
  <2>3. PICK c \in Nat : c = g.ct
    BY GhostTypes
  <2>4. PICK b \in Nat : b = g.ph
    BY GhostTypes
  <2>5. k > c + Capacity - a /\ a <= b /\ w = b - c
    BY <1>2, <1>3, <1>4, <2>1, <2>2, <2>3, <2>4
  <2> QED BY <2>5, Sizes
<1>6. PICK f : f = [i \in 1 .. w + k |-> IF i <= w THEN g.item[g.ct + i - 1] ELSE s[i - w]]
  OBVIOUS
<1>7. Waits(p) /\ Tickets(g)
  BY DEF Waits, Sound
<1>8. /\ \A x, y \in g.start .. g.ph - 1 : g.item[x] = g.item[y] => x = y
      /\ \A i \in 1 .. k : /\ \A j \in 1 .. k : s[i] = s[j] => i = j
                           /\ \A x \in g.start .. g.ph - 1 : g.item[x] # s[i]
  BY <1>1, <1>2, <1>7 DEF Tickets
<1>9. \A i \in 1 .. w : /\ g.ct + i - 1 \in g.start .. g.ph - 1
                        /\ g.ct + i - 1 \in g.ct .. g.ph - 1
  <2>1. g.start <= g.ct
    BY DEF Sound, InOrder
  <2> QED BY <1>4, <2>1, GhostTypes
<1>10. \A i \in 1 .. w + k :
          \/ i \in 1 .. w /\ f[i] = g.item[g.ct + i - 1]
          \/ i - w \in 1 .. k /\ i > w /\ f[i] = s[i - w]
  BY <1>6
<1>11. ASSUME NEW i \in 1 .. k
       PROVE  s[i] \in Fifo!Crowd
  <2>1. Offer[p] = s /\ i \in DOMAIN s
    BY <1>1, <1>3 DEF Offer
  <2> QED BY <2>1 DEF Fifo!Crowd, Fifo!Objects
<1>12. f \in [1 .. w + k -> Fifo!Crowd]
  <2>1. \A i \in 1 .. w : g.item[g.ct + i - 1] \in Fifo!Crowd
    BY <1>9, CrowdHas
  <2>2. \A i \in 1 .. w + k : f[i] \in Fifo!Crowd
    BY <1>10, <1>11, <2>1
  <2> QED BY <1>6, <2>2
<1>13. ASSUME NEW i \in 1 .. w + k, NEW j \in 1 .. w + k, f[i] = f[j]
       PROVE  i = j
  <2>1. CASE i \in 1 .. w /\ f[i] = g.item[g.ct + i - 1]
    <3>1. CASE j \in 1 .. w /\ f[j] = g.item[g.ct + j - 1]
      <4>1. g.ct + i - 1 = g.ct + j - 1
        BY <1>8, <1>9, <1>13, <2>1, <3>1
      <4> QED BY <4>1, GhostTypes
    <3>2. CASE j - w \in 1 .. k /\ j > w /\ f[j] = s[j - w]
      BY <1>8, <1>9, <1>13, <2>1, <3>2
    <3> QED BY <1>10, <3>1, <3>2
  <2>2. CASE i - w \in 1 .. k /\ i > w /\ f[i] = s[i - w]
    <3>1. CASE j \in 1 .. w /\ f[j] = g.item[g.ct + j - 1]
      BY <1>8, <1>9, <1>13, <2>2, <3>1
    <3>2. CASE j - w \in 1 .. k /\ j > w /\ f[j] = s[j - w]
      <4>1. i - w = j - w
        BY <1>8, <1>13, <2>2, <3>2
      <4> QED BY <4>1
    <3> QED BY <1>10, <3>1, <3>2
  <2> QED BY <1>10, <2>1, <2>2
<1>14. w + k <= Cardinality(Fifo!Crowd)
  <2>1. IsFiniteSet(Fifo!Crowd)
    BY CrowdFinite
  <2>2. PICK m \in Nat : m = w + k
    OBVIOUS
  <2>3. PICK S : S = Fifo!Crowd
    OBVIOUS
  <2>4. f \in [1 .. m -> S] /\ IsFiniteSet(S) /\ \A i, j \in 1 .. m : f[i] = f[j] => i = j
    BY <1>12, <1>13, <2>1, <2>2, <2>3
  <2>5. m <= Cardinality(S)
    BY <2>4, Fits
  <2> QED BY <2>2, <2>3, <2>5
<1>15. Cardinality(Fifo!Crowd) \in Nat
  BY CrowdFinite, FS_CardinalityType
<1> QED BY <1>5, <1>14, <1>15, Sizes

\* Giving up is Refuse: the free entries may be stale, but were enough unless the ring is crowded.
LEMMA LoadConsTailFifo ==
  ASSUME RteRingAssumption, Shape, NEW g \in Ghosts, Sound(g), NEW p \in Producers,
         LoadConsTail(p)
  PROVE  [Fifo!Next]_Seen
<1>1. p \in Threads /\ p \notin Consumers /\ pc[p] = "room"
  BY DEF LoadConsTail, Threads, RteRingAssumption
<1>2. Queue' = Queue
  BY QueueStays DEF LoadConsTail
<1>3. CASE n[p] > FreeEntries(p)
  <2>1. /\ obj'[p] = <<>>
        /\ \A u \in Threads \ {p} : /\ pc'[u] = pc[u] /\ n'[u] = n[u]
                                    /\ obj'[u] = obj[u] /\ old'[u] = old[u]
    BY <1>1, <1>3, Left DEF LoadConsTail
  <2>2. Held' = Held
    <3>1. \A c \in Consumers : /\ pc'[c] = pc[c] /\ n'[c] = n[c] /\ old'[c] = old[c]
                               /\ obj'[c] = obj[c]
      BY <1>1, <2>1 DEF Threads
    <3> QED BY <3>1, HeldStays DEF LoadConsTail
  <2>3. Offer' = [Offer EXCEPT ![p] = <<>>]
    BY <2>1, OfferGone DEF Threads
  <2>4. Offer[p] # <<>>
    <3>1. Len(obj[p]) = n[p] /\ n[p] # 0
      BY <1>1 DEF Sound, Producing
    <3>2. Len(<<>>) = 0
      OBVIOUS
    <3> QED BY <3>1, <3>2 DEF Offer
  <2>5. Cardinality(Fifo!Crowd) > Capacity
    BY <1>1, <1>3, RefusedIsCrowded
  <2>6. Fifo!Refuse(p)
    <3>1. Fifo!Cardinality(Fifo!Crowd) > Capacity
      <4>1. PICK S : S = Fifo!Crowd
        OBVIOUS
      <4>2. Fifo!Cardinality(S) = Cardinality(S)
        BY DEF Fifo!Cardinality, Cardinality
      <4> QED BY <2>5, <4>1, <4>2
    <3> QED BY <1>2, <2>2, <2>3, <2>4, <3>1 DEF Fifo!Refuse
  <2>7. Fifo!Next
    BY <2>6 DEF Fifo!Next
  <2> QED BY <2>7
<1>4. CASE ~(n[p] > FreeEntries(p))
  <2>1. n' = n /\ old' = old /\ obj' = obj /\ \A u \in Threads \ {p} : pc'[u] = pc[u]
    BY <1>1, <1>4 DEF LoadConsTail, Go, Shape
  <2>2. Held' = Held
    <3>1. \A c \in Consumers : /\ pc'[c] = pc[c] /\ n'[c] = n[c] /\ old'[c] = old[c]
                               /\ obj'[c] = obj[c]
      BY <1>1, <2>1 DEF Threads
    <3> QED BY <3>1, HeldStays DEF LoadConsTail
  <2>3. Offer' = Offer
    BY <2>1, OfferStays
  <2> QED BY <1>2, <2>2, <2>3, Unseen
<1> QED BY <1>3, <1>4

\* The loads and the reservation of a producer show nothing.
LEMMA ProducerUnseen ==
  ASSUME RteRingAssumption, Shape, NEW p \in Producers, LoadProdHead(p) \/ MoveProdHead(p)
  PROVE  [Fifo!Next]_Seen
<1>1. p \in Threads /\ p \notin Consumers
  BY DEF Threads, RteRingAssumption
<1>2. cons' = cons /\ ring' = ring /\ obj' = obj /\ n' = n
  BY DEF LoadProdHead, MoveProdHead
<1>3. prod'.tail = prod.tail
  BY DEF LoadProdHead, MoveProdHead, Shape
<1>4. \A u \in Threads \ {p} : pc'[u] = pc[u] /\ old'[u] = old[u]
  BY <1>1 DEF LoadProdHead, MoveProdHead, Go, Shape
<1>5. \A c \in Consumers : /\ pc'[c] = pc[c] /\ n'[c] = n[c] /\ old'[c] = old[c]
                           /\ obj'[c] = obj[c]
  BY <1>1, <1>2, <1>4 DEF Threads
<1>6. Queue' = Queue
  BY <1>2, <1>3, QueueStays
<1>7. Offer' = Offer
  BY <1>2, OfferStays
<1>8. Held' = Held
  BY <1>2, <1>5, HeldStays
<1> QED BY <1>6, <1>7, <1>8, Unseen

\* A producer writes where nobody reads.
LEMMA EnqueuePtrsFifo ==
  ASSUME RteRingAssumption, Shape, NEW g \in Ghosts, Sound(g), NEW p \in Producers,
         EnqueuePtrs(p)
  PROVE  [Fifo!Next]_Seen
<1>1. p \in Threads /\ p \notin Consumers /\ Copies(p)
  BY DEF EnqueuePtrs, Threads, RteRingAssumption, Copies
<1>2. prod' = prod /\ cons' = cons /\ n' = n /\ old' = old /\ obj' = obj
  BY DEF EnqueuePtrs
<1>3. \A c \in Consumers : pc'[c] = pc[c]
  BY <1>1 DEF EnqueuePtrs, Go, Shape, Threads
<1>4. /\ g.ct <= g.ch /\ g.ch <= g.pt /\ g.pt <= g.ph /\ g.ph <= g.ct + Capacity
      /\ cons.head = g.ch % Word /\ prod.tail = g.pt % Word /\ g.pt <= g.at[p]
  BY <1>1 DEF Sound, InOrder, Stands, Producing
<1>5. ASSUME NEW x \in Nat, g.ct <= x, x < g.pt
      PROVE  ring'[Slot(x)] = ring[Slot(x)] /\ ring[Slot(x)] = g.item[x]
  <2>1. x < g.ph /\ x \in g.ct .. g.pt - 1
    BY <1>4, <1>5, GhostTypes
  <2>2. x \notin Reach(g, p)
    <3>1. g.at[p] \in Nat /\ n[p] \in Nat
      BY <1>1, GhostTypes, Sizes DEF Shape
    <3> QED BY <1>4, <1>5, <3>1, GhostTypes DEF Reach
  <2>3. ring'[Slot(x)] = ring[Slot(x)]
    BY <1>5, <2>1, <2>2, EnqueuePtrsWrites
  <2> QED BY <2>1, <2>3 DEF Sound, Contents
<1>6. Queue' = Queue
  <2>1. PICK lo \in Nat : lo = g.ch
    BY GhostTypes
  <2>2. PICK hi \in Nat : hi = g.pt
    BY GhostTypes
  <2>3. PICK a : a = cons.head
    OBVIOUS
  <2>4. PICK b : b = prod.tail
    OBVIOUS
  <2>5. lo <= hi /\ hi - lo < Word /\ a = lo % Word /\ b = hi % Word
    <3>1. g.ct <= lo /\ lo <= hi /\ hi <= g.ct + Capacity
      BY <1>4, <2>1, <2>2, GhostTypes, Sizes
    <3>2. hi - lo < Word
      BY <3>1, GhostTypes, Sizes
    <3> QED BY <1>4, <2>1, <2>2, <2>3, <2>4, <3>1, <3>2
  <2>6. \A x \in lo .. hi - 1 : ring'[Slot(x)] = g.item[x]
    <3>1. \A x \in lo .. hi - 1 : x \in Nat /\ g.ct <= x /\ x < g.pt
      BY <1>4, <2>1, <2>2, GhostTypes
    <3> QED BY <1>5, <3>1
  <2>7. /\ Minus(b, a) = hi - lo
        /\ [i \in 1 .. hi - lo |-> ring'[Slot(a + i - 1)]]
             = [i \in 1 .. hi - lo |-> g.item[lo + i - 1]]
    <3>1. PICK r : r = ring'
      OBVIOUS
    <3>2. PICK item : item = g.item
      OBVIOUS
    <3>3. \A x \in lo .. hi - 1 : r[Slot(x)] = item[x]
      BY <2>6, <3>1, <3>2
    <3>4. /\ Minus(b, a) = hi - lo
          /\ [i \in 1 .. hi - lo |-> r[Slot(a + i - 1)]] = [i \in 1 .. hi - lo |-> item[lo + i - 1]]
      BY <2>5, <3>3, Between
    <3> QED BY <3>1, <3>2, <3>4
  <2>8. Queue' = [i \in 1 .. Minus(b, a) |-> ring'[Slot(a + i - 1)]]
    BY <1>2, <2>3, <2>4 DEF Queue
  <2>9. Queue = [i \in 1 .. hi - lo |-> g.item[lo + i - 1]]
    BY <2>1, <2>2, QueueIs
  <2> QED BY <2>7, <2>8, <2>9
<1>7. Offer' = Offer
  BY <1>2, OfferStays
<1>8. Held' = Held
  <2>1. ASSUME NEW c \in Consumers, pc[c] = "copy"
        PROVE  Reserved(c)' = Reserved(c)
    <3>1. PICK a \in Nat : a = g.at[c]
      BY GhostTypes DEF Threads
    <3>2. PICK m \in Nat : m = n[c]
      BY Sizes DEF Shape, Threads
    <3>3. old[c] = a % Word /\ g.ct <= a /\ a + m <= g.ch
      BY <2>1, <3>1, <3>2 DEF Sound, Stands, Consuming, Copies, Threads
    <3>4. ASSUME NEW i \in 1 .. m
          PROVE  ring'[Slot(old[c] + i - 1)] = ring[Slot(old[c] + i - 1)]
      <4>1. PICK w \in Int : w = a % Word
        BY WordRest
      <4>2. PICK j \in Int : j = i - 1
        BY <3>2
      <4>3. Slot((a % Word) + j) = Slot(a + j)
        BY SlotWraps
      <4>4. old[c] + i - 1 = w + j
        BY <3>3, <4>1, <4>2
      <4>5. a + j \in Nat /\ g.ct <= a + j /\ a + j < g.pt
        BY <1>4, <3>3, <4>2, GhostTypes
      <4>6. ring'[Slot(a + j)] = ring[Slot(a + j)]
        BY <1>5, <4>5
      <4> QED BY <4>1, <4>3, <4>4, <4>6
    <3>5. Reserved(c)' = [i \in 1 .. m |-> ring'[Slot(old[c] + i - 1)]]
      BY <1>2, <3>2 DEF Reserved
    <3>6. Reserved(c) = [i \in 1 .. m |-> ring[Slot(old[c] + i - 1)]]
      BY <3>2 DEF Reserved
    <3> QED BY <3>4, <3>5, <3>6
  <2> QED BY <1>2, <1>3, <2>1 DEF Held
<1> QED BY <1>6, <1>7, <1>8, Unseen

\* An enqueue takes effect when the tail moves.
LEMMA UpdateProdTailFifo ==
  ASSUME RteRingAssumption, Shape, NEW g \in Ghosts, Sound(g), NEW p \in Producers,
         UpdateProdTail(p)
  PROVE  [Fifo!Next]_Seen
<1>1. /\ g.at[p] = g.pt /\ g.pt + n[p] <= g.ph /\ n[p] \in Nat \ {0} /\ pc[p] = "tail"
      /\ old[p] = g.pt % Word /\ p \in Threads /\ p \notin Consumers
  BY UpdateProdTailAt
<1>2. /\ obj'[p] = <<>>
      /\ \A u \in Threads \ {p} : /\ pc'[u] = pc[u] /\ n'[u] = n[u]
                                  /\ obj'[u] = obj[u] /\ old'[u] = old[u]
  BY <1>1, Left DEF UpdateProdTail
<1>3. Held' = Held
  <2>1. \A c \in Consumers : /\ pc'[c] = pc[c] /\ n'[c] = n[c] /\ old'[c] = old[c]
                             /\ obj'[c] = obj[c]
    BY <1>1, <1>2 DEF Threads
  <2> QED BY <2>1, HeldStays DEF UpdateProdTail
<1>4. Offer' = [Offer EXCEPT ![p] = <<>>]
  BY <1>2, OfferGone DEF Threads
<1>5. PICK lo \in Nat : lo = g.ch
  BY GhostTypes
<1>6. PICK hi \in Nat : hi = g.pt
  BY GhostTypes
<1>7. PICK k \in Nat \ {0} : k = n[p]
  BY <1>1
<1>8. PICK s \in Seq(Nat) : s = obj[p]
  BY <1>1 DEF Shape
<1>9. Len(s) = k /\ Offer[p] = s
  BY <1>7, <1>8 DEF Sound, Producing, Offer
<1>10. /\ g.ct <= lo /\ lo <= hi /\ hi + k <= g.ct + Capacity
  <2>1. g.ct <= g.ch /\ g.ch <= g.pt /\ g.ph <= g.ct + Capacity /\ g.pt + n[p] <= g.ph
    BY <1>1 DEF Sound, InOrder
  <2>2. /\ g.ct <= lo /\ lo <= hi /\ hi + k <= g.ph /\ g.ph <= g.ct + Capacity
    BY <1>5, <1>6, <1>7, <2>1
  <2> QED BY <2>2, GhostTypes, Sizes
<1>11. PICK item : item = g.item
  OBVIOUS
<1>12. \A i \in 1 .. k : s[i] = item[hi + i - 1]
  <2>1. \A x \in Reach(g, p) : s[x - g.at[p] + 1] = item[x]
    BY <1>1, <1>8, <1>11 DEF Sound, Producing, Copies
  <2>2. Reach(g, p) = hi .. hi + k - 1 /\ g.at[p] = hi
    BY <1>1, <1>6, <1>7 DEF Reach
  <2>3. ASSUME NEW i \in 1 .. k
        PROVE  s[i] = item[hi + i - 1]
    <3>1. PICK x \in Nat : x = hi + i - 1
      BY <1>6
    <3>2. x \in hi .. hi + k - 1 /\ x - hi + 1 = i
      BY <3>1
    <3> QED BY <2>1, <2>2, <3>1, <3>2
  <2> QED BY <2>3
<1>13. Queue = [i \in 1 .. hi - lo |-> item[lo + i - 1]]
  BY <1>5, <1>6, <1>11, QueueIs
<1>14. Queue' = [i \in 1 .. (hi + k) - lo |-> item[lo + i - 1]]
  <2>1. PICK a : a = cons.head
    OBVIOUS
  <2>2. PICK b : b = prod'.tail
    OBVIOUS
  <2>3. PICK r : r = ring
    OBVIOUS
  <2>4. PICK top \in Nat : top = hi + k
    OBVIOUS
  <2>5. a = lo % Word /\ b = top % Word
    <3>1. prod'.tail = Plus(old[p], n[p])
      BY DEF UpdateProdTail, Shape
    <3>2. Plus(hi % Word, k) = (hi + k) % Word
      BY PlusWraps
    <3>3. cons.head = g.ch % Word
      BY DEF Sound, Stands
    <3> QED BY <1>1, <1>5, <1>6, <1>7, <2>1, <2>2, <2>4, <3>1, <3>2, <3>3
  <2>6. lo <= top /\ top - lo < Word
    BY <1>10, <2>4, GhostTypes, Sizes
  <2>7. \A x \in lo .. top - 1 : r[Slot(x)] = item[x]
    <3>1. ASSUME NEW x \in lo .. top - 1
          PROVE  ring[Slot(x)] = g.item[x]
      <4>1. CASE x < hi
        <5>1. x \in g.ct .. g.pt - 1
          BY <1>6, <1>10, <4>1, GhostTypes
        <5> QED BY <5>1 DEF Sound, Contents
      <4>2. CASE ~(x < hi)
        <5>1. Reach(g, p) = hi .. hi + k - 1
          BY <1>1, <1>6, <1>7 DEF Reach
        <5>2. x \in Reach(g, p)
          BY <2>4, <4>2, <5>1
        <5> QED BY <1>1, <5>2 DEF Sound, Producing
      <4> QED BY <4>1, <4>2
    <3> QED BY <1>11, <2>3, <3>1
  <2>8. /\ Minus(b, a) = top - lo
        /\ [i \in 1 .. top - lo |-> r[Slot(a + i - 1)]] = [i \in 1 .. top - lo |-> item[lo + i - 1]]
    BY <2>5, <2>6, <2>7, Between
  <2>9. Queue' = [i \in 1 .. Minus(b, a) |-> r[Slot(a + i - 1)]]
    BY <2>1, <2>2, <2>3 DEF Queue, UpdateProdTail
  <2> QED BY <2>4, <2>8, <2>9
<1>15. Len(Queue) = hi - lo /\ Queue' = Queue \o s
  <2>1. PICK m \in Nat : m = hi - lo
    BY <1>10
  <2>2. PICK q : q = [i \in 1 .. m |-> item[lo + i - 1]]
    OBVIOUS
  <2>3. PICK r : r = [i \in 1 .. m + k |-> item[lo + i - 1]]
    OBVIOUS
  <2>4. Queue = q /\ Queue' = r
    <3>1. (hi + k) - lo = m + k
      BY <2>1
    <3> QED BY <1>13, <1>14, <2>1, <2>2, <2>3, <3>1
  <2>5. Len(q) = m /\ DOMAIN q = 1 .. m
    BY <2>2
  <2>6. q \in Seq(Nat) /\ r \in Seq(Nat) /\ Len(r) = m + k
    <3>1. \A i \in 1 .. m + k : lo + i - 1 \in Nat
      BY <1>5
    <3>2. \A i \in 1 .. m + k : item[lo + i - 1] \in Nat
      BY <1>11, <3>1, GhostTypes
    <3>3. m + k \in Nat /\ \A i \in 1 .. m : i \in 1 .. m + k
      OBVIOUS
    <3>4. \A i \in 1 .. m : item[lo + i - 1] \in Nat
      BY <3>2, <3>3
    <3>5. q \in Seq(Nat)
      BY <2>2, <3>4
    <3>6. r \in Seq(Nat) /\ Len(r) = m + k
      <4>1. PICK l \in Nat : l = m + k
        OBVIOUS
      <4>2. r = [i \in 1 .. l |-> item[lo + i - 1]] /\ \A i \in 1 .. l : item[lo + i - 1] \in Nat
        BY <2>3, <3>2, <4>1
      <4>3. r \in Seq(Nat) /\ Len(r) = l
        BY <4>2
      <4> QED BY <4>1, <4>3
    <3> QED BY <3>5, <3>6
  <2>7. /\ q \o s \in Seq(Nat) /\ Len(q \o s) = m + k
        /\ \A i \in 1 .. m + k : (q \o s)[i] = IF i <= m THEN q[i] ELSE s[i - m]
    <3>1. /\ q \o s \in Seq(Nat) /\ Len(q \o s) = Len(q) + Len(s)
          /\ \A i \in 1 .. Len(q) + Len(s) :
                (q \o s)[i] = IF i <= Len(q) THEN q[i] ELSE s[i - Len(q)]
      BY <2>6, ConcatProperties
    <3> QED BY <1>9, <2>5, <3>1
  <2>8. ASSUME NEW i \in 1 .. m + k
        PROVE  r[i] = (q \o s)[i]
    <3>1. r[i] = item[lo + i - 1]
      BY <2>3
    <3>2. (q \o s)[i] = IF i <= m THEN q[i] ELSE s[i - m]
      BY <2>7
    <3>3. CASE i <= m
      BY <2>2, <3>1, <3>2, <3>3
    <3>4. CASE ~(i <= m)
      <4>1. i - m \in 1 .. k /\ hi + (i - m) - 1 = lo + i - 1
        BY <2>1, <3>4
      <4> QED BY <1>12, <3>1, <3>2, <3>4, <4>1
    <3> QED BY <3>3, <3>4
  <2>9. r = q \o s
    <3>1. PICK u \in Seq(Nat) : u = q \o s
      BY <2>7
    <3>2. Len(r) = Len(u) /\ \A i \in 1 .. Len(r) : r[i] = u[i]
      BY <2>6, <2>7, <2>8, <3>1
    <3>3. r = u
      BY <2>6, <3>2, SeqEqual
    <3> QED BY <3>1, <3>3
  <2> QED BY <2>1, <2>4, <2>5, <2>9
<1>16. Fifo!Enqueue(p)
  <2>1. Offer[p] # <<>>
    <3>1. Len(<<>>) = 0
      OBVIOUS
    <3> QED BY <1>9, <3>1
  <2>2. Len(Queue) + Len(Offer[p]) <= Capacity
    <3>1. Len(Queue) + Len(Offer[p]) = (hi - lo) + k
      BY <1>9, <1>15
    <3>2. (hi - lo) + k <= Capacity
      BY <1>10, GhostTypes, Sizes
    <3> QED BY <3>1, <3>2
  <2> QED BY <1>3, <1>4, <1>9, <1>15, <2>1, <2>2 DEF Fifo!Enqueue
<1>17. Fifo!Next
  BY <1>16 DEF Fifo!Next
<1> QED BY <1>17

\* The counts, the loads and the copy of a consumer show nothing.
LEMMA ConsumerUnseen ==
  ASSUME RteRingAssumption, Shape, NEW g \in Ghosts, Sound(g), NEW c \in Consumers,
         \/ CountProdTail(c) \/ CountConsTail(c) \/ LoadConsHead(c) \/ LoadProdTail(c)
         \/ DequeuePtrs(c)
  PROVE  [Fifo!Next]_Seen
<1>1. c \in Threads /\ c \notin Producers
  BY DEF Threads, RteRingAssumption
<1>2. prod' = prod /\ cons' = cons /\ ring' = ring
  BY DEF CountProdTail, CountConsTail, LoadConsHead, LoadProdTail, DequeuePtrs
<1>3. \A u \in Threads \ {c} : /\ pc'[u] = pc[u] /\ n'[u] = n[u]
                               /\ obj'[u] = obj[u] /\ old'[u] = old[u]
  <2>1. CASE CountProdTail(c)
    BY <1>1, <2>1 DEF CountProdTail, Go, Shape
  <2>2. CASE CountConsTail(c)
    BY <1>1, <2>2, Left DEF CountConsTail
  <2>3. CASE LoadConsHead(c)
    BY <1>1, <2>3 DEF LoadConsHead, Go, Shape
  <2>4. CASE LoadProdTail(c)
    <3>1. CASE Entries(c) = 0
      BY <1>1, <2>4, <3>1, Left DEF LoadProdTail
    <3>2. CASE Entries(c) # 0
      BY <1>1, <2>4, <3>2 DEF LoadProdTail, Go, Shape
    <3> QED BY <3>1, <3>2
  <2>5. CASE DequeuePtrs(c)
    BY <1>1, <2>5 DEF DequeuePtrs, Go, Shape
  <2> QED BY <2>1, <2>2, <2>3, <2>4, <2>5
<1>4. Held'[c] = Held[c]
  <2>1. CASE DequeuePtrs(c)
    <3>1. pc[c] = "copy" /\ pc'[c] = "tail" /\ obj'[c] = Reserved(c)
      BY <1>1, <2>1 DEF DequeuePtrs, Go, Shape
    <3> QED BY <3>1 DEF Held
  <2>2. CASE ~DequeuePtrs(c)
    <3>1. pc[c] \in {"idle", "count", "head", "entries"}
      BY <2>2 DEF CountProdTail, CountConsTail, LoadConsHead, LoadProdTail
    <3>2. obj[c] = <<>>
      BY <3>1 DEF Sound, Consuming
    <3>3. obj'[c] = <<>> /\ pc'[c] # "copy"
      <4>1. CASE CountProdTail(c)
        BY <1>1, <3>2, <4>1 DEF CountProdTail, Go, Shape
      <4>2. CASE CountConsTail(c)
        BY <1>1, <4>2, Left DEF CountConsTail
      <4>3. CASE LoadConsHead(c)
        BY <1>1, <3>2, <4>3 DEF LoadConsHead, Go, Shape
      <4>4. CASE LoadProdTail(c)
        <5>1. CASE Entries(c) = 0
          BY <1>1, <4>4, <5>1, Left DEF LoadProdTail
        <5>2. CASE Entries(c) # 0
          BY <1>1, <3>2, <4>4, <5>2 DEF LoadProdTail, Go, Shape
        <5> QED BY <5>1, <5>2
      <4> QED BY <2>2, <4>1, <4>2, <4>3, <4>4
    <3> QED BY <3>1, <3>2, <3>3 DEF Held
  <2> QED BY <2>1, <2>2
<1>5. \A d \in Consumers \ {c} : Held'[d] = Held[d]
  BY <1>2, <1>3 DEF Held, Reserved, Threads
<1>6. Held' = Held
  BY <1>4, <1>5 DEF Held
<1>7. Queue' = Queue
  BY <1>2, QueueStays
<1>8. Offer' = Offer
  <2>1. \A p \in Producers : obj'[p] = obj[p]
    BY <1>1, <1>3 DEF Threads
  <2> QED BY <2>1, OfferStays
<1> QED BY <1>6, <1>7, <1>8, Unseen

\* A dequeue takes effect when the head moves.
LEMMA MoveConsHeadFifo ==
  ASSUME RteRingAssumption, Shape, NEW g \in Ghosts, Sound(g), NEW c \in Consumers,
         MoveConsHead(c)
  PROVE  [Fifo!Next]_Seen
<1>1. /\ c \in Threads /\ c \notin Producers /\ pc[c] = "cas" /\ prod' = prod /\ ring' = ring
      /\ n' = n /\ old' = old /\ obj' = obj
  BY DEF MoveConsHead, Threads, RteRingAssumption
<1>2. Offer' = Offer
  BY <1>1, OfferStays
<1>3. CASE SC \/ cons.head = old[c]
  <2>1. /\ g.at[c] = g.ch /\ g.ch + n[c] <= g.pt /\ n[c] \in Nat \ {0} /\ old[c] = g.ch % Word
    BY <1>1, <1>3, MoveConsHeadAt
  <2>2. /\ pc'[c] = "copy" /\ \A u \in Threads \ {c} : pc'[u] = pc[u]
        /\ cons' = [cons EXCEPT !.head = Plus(old[c], n[c])]
    BY <1>1, <1>3 DEF MoveConsHead, Go, Shape
  <2>3. PICK lo \in Nat : lo = g.ch
    BY GhostTypes
  <2>4. PICK hi \in Nat : hi = g.pt
    BY GhostTypes
  <2>5. PICK k \in Nat \ {0} : k = n[c]
    BY <2>1
  <2>6. lo + k <= hi /\ hi <= g.ct + Capacity /\ g.ct <= lo
    <3>1. g.ct <= g.ch /\ g.pt <= g.ph /\ g.ph <= g.ct + Capacity
      BY DEF Sound, InOrder
    <3>2. hi <= g.ct + Capacity
      BY <2>4, <3>1, GhostTypes, Sizes
    <3> QED BY <2>1, <2>3, <2>4, <2>5, <3>1, <3>2
  <2>7. PICK item : item = g.item
    OBVIOUS
  <2>8. \A x \in Nat : item[x] \in Nat
    BY <2>7, GhostTypes
  <2>9. Queue = [i \in 1 .. hi - lo |-> item[lo + i - 1]]
    BY <2>3, <2>4, <2>7, QueueIs
  <2>10. Queue' = [i \in 1 .. hi - (lo + k) |-> item[(lo + k) + i - 1]]
    <3>1. PICK a : a = cons'.head
      OBVIOUS
    <3>2. PICK b : b = prod.tail
      OBVIOUS
    <3>3. PICK r : r = ring
      OBVIOUS
    <3>4. PICK low \in Nat : low = lo + k
      OBVIOUS
    <3>5. a = low % Word /\ b = hi % Word
      <4>1. cons'.head = Plus(old[c], n[c])
        BY <2>2 DEF Shape
      <4>2. Plus(lo % Word, k) = (lo + k) % Word
        BY PlusWraps
      <4>3. prod.tail = g.pt % Word
        BY DEF Sound, Stands
      <4> QED BY <2>1, <2>3, <2>4, <2>5, <3>1, <3>2, <3>4, <4>1, <4>2, <4>3
    <3>6. low <= hi /\ hi - low < Word
      BY <2>6, <3>4, GhostTypes, Sizes
    <3>7. \A x \in low .. hi - 1 : r[Slot(x)] = item[x]
      <4>1. low .. hi - 1 \subseteq g.ct .. g.pt - 1
        BY <2>4, <2>6, <3>4, GhostTypes
      <4> QED BY <2>7, <3>3, <4>1 DEF Sound, Contents
    <3>8. /\ Minus(b, a) = hi - low
          /\ [i \in 1 .. hi - low |-> r[Slot(a + i - 1)]] = [i \in 1 .. hi - low |-> item[low + i - 1]]
      BY <3>5, <3>6, <3>7, Between
    <3>9. Queue' = [i \in 1 .. Minus(b, a) |-> r[Slot(a + i - 1)]]
      BY <1>1, <3>1, <3>2, <3>3 DEF Queue
    <3> QED BY <3>4, <3>8, <3>9
  <2>11. Held[c] = <<>> /\ Held'[c] = [i \in 1 .. k |-> item[lo + i - 1]]
    <3>1. Held[c] = <<>>
      BY <1>1, HeldIs DEF Copies
    <3>2. Held'[c] = [i \in 1 .. k |-> ring[Slot(cons.head + i - 1)]]
      <4>1. old[c] = cons.head
        BY <2>1 DEF Sound, Stands
      <4> QED BY <1>1, <2>2, <2>5, <4>1 DEF Held, Reserved
    <3>3. PICK a : a = cons.head
      OBVIOUS
    <3>4. PICK b : b = (lo + k) % Word
      OBVIOUS
    <3>5. PICK r : r = ring
      OBVIOUS
    <3>6. PICK top \in Nat : top = lo + k
      OBVIOUS
    <3>7. a = lo % Word /\ b = top % Word /\ lo <= top /\ top - lo < Word
      <4>1. cons.head = g.ch % Word
        BY DEF Sound, Stands
      <4>2. lo <= top /\ top - lo < Word
        BY <2>6, <3>6, GhostTypes, Sizes
      <4> QED BY <2>3, <3>3, <3>4, <3>6, <4>1, <4>2
    <3>8. \A x \in lo .. top - 1 : r[Slot(x)] = item[x]
      <4>1. lo .. top - 1 \subseteq g.ct .. g.pt - 1
        BY <2>4, <2>6, <3>6, GhostTypes
      <4> QED BY <2>7, <3>5, <4>1 DEF Sound, Contents
    <3>9. [i \in 1 .. top - lo |-> r[Slot(a + i - 1)]] = [i \in 1 .. top - lo |-> item[lo + i - 1]]
      BY <3>7, <3>8, Between
    <3>10. top - lo = k
      BY <3>6
    <3> QED BY <3>1, <3>2, <3>3, <3>5, <3>9, <3>10
  <2>12. \A d \in Consumers \ {c} : Held'[d] = Held[d]
    BY <1>1, <2>2 DEF Held, Reserved, Threads
  <2>13. PICK q \in Seq(Nat) : q = Queue
    <3>1. \A i \in 1 .. hi - lo : item[lo + i - 1] \in Nat
      <4>1. \A i \in 1 .. hi - lo : lo + i - 1 \in Nat
        OBVIOUS
      <4> QED BY <2>8, <4>1
    <3>2. PICK m \in Nat : m = hi - lo
      BY <2>6
    <3>3. PICK u : u = [i \in 1 .. m |-> item[lo + i - 1]]
      OBVIOUS
    <3>4. \A i \in 1 .. m : item[lo + i - 1] \in Nat
      BY <3>1, <3>2
    <3>5. u \in Seq(Nat)
      BY <3>2, <3>3, <3>4
    <3>6. Queue = u
      BY <2>9, <3>2, <3>3
    <3> QED BY <3>5, <3>6
  <2>14. Len(q) = hi - lo /\ \A i \in 1 .. hi - lo : q[i] = item[lo + i - 1]
    <3>1. PICK m \in Nat : m = hi - lo
      BY <2>6
    <3>2. q = [i \in 1 .. m |-> item[lo + i - 1]]
      BY <2>9, <2>13, <3>1
    <3>3. Len(q) = m /\ \A i \in 1 .. m : q[i] = item[lo + i - 1]
      BY <3>2
    <3> QED BY <3>1, <3>3
  <2>15. SubSeq(q, 1, k) = [i \in 1 .. k |-> item[lo + i - 1]]
    <3>1. PICK u : u = [i \in 1 .. k |-> item[lo + i - 1]]
      OBVIOUS
    <3>2. u \in Seq(Nat) /\ Len(u) = k /\ \A i \in 1 .. k : u[i] = item[lo + i - 1]
      <4>1. \A i \in 1 .. k : lo + i - 1 \in Nat
        OBVIOUS
      <4>2. \A i \in 1 .. k : item[lo + i - 1] \in Nat
        BY <2>8, <4>1
      <4> QED BY <3>1, <4>2
    <3>3. PICK v : v = SubSeq(q, 1, k)
      OBVIOUS
    <3>4. v \in Seq(Nat) /\ Len(v) = k /\ \A i \in 1 .. k : v[i] = q[i]
      <4>1. \A i \in 1 .. k : q[i] \in Nat
        <5>1. \A i \in 1 .. k : i \in 1 .. Len(q)
          BY <2>6, <2>14
        <5> QED BY <2>13, <5>1
      <4>2. /\ SubSeq(q, 1, k) \in Seq(Nat)
            /\ Len(SubSeq(q, 1, k)) = IF 1 <= k THEN k - 1 + 1 ELSE 0
            /\ \A i \in 1 .. k - 1 + 1 : SubSeq(q, 1, k)[i] = q[1 + i - 1]
        <5>1. 1 \in Int /\ k \in Int
          OBVIOUS
        <5> QED BY <4>1, <5>1, SubSeqProperties
      <4>3. k - 1 + 1 = k /\ 1 <= k /\ \A i \in 1 .. k : 1 + i - 1 = i
        OBVIOUS
      <4> QED BY <3>3, <4>2, <4>3
    <3>5. Len(u) = Len(v) /\ \A i \in 1 .. Len(u) : u[i] = v[i]
      <4>1. \A i \in 1 .. k : i \in 1 .. hi - lo
        BY <2>6
      <4> QED BY <2>14, <3>2, <3>4, <4>1
    <3>6. u = v
      BY <3>2, <3>4, <3>5, SeqEqual
    <3> QED BY <3>1, <3>3, <3>6
  <2>16. SubSeq(q, k + 1, hi - lo) = [i \in 1 .. hi - (lo + k) |-> item[(lo + k) + i - 1]]
    <3>1. PICK m \in Nat : m = hi - (lo + k)
      BY <2>6
    <3>2. PICK u : u = [i \in 1 .. m |-> item[(lo + k) + i - 1]]
      OBVIOUS
    <3>3. u \in Seq(Nat) /\ Len(u) = m /\ \A i \in 1 .. m : u[i] = item[(lo + k) + i - 1]
      <4>1. \A i \in 1 .. m : (lo + k) + i - 1 \in Nat
        OBVIOUS
      <4>2. \A i \in 1 .. m : item[(lo + k) + i - 1] \in Nat
        BY <2>8, <4>1
      <4> QED BY <3>2, <4>2
    <3>4. PICK v : v = SubSeq(q, k + 1, hi - lo)
      OBVIOUS
    <3>5. v \in Seq(Nat) /\ Len(v) = m /\ \A i \in 1 .. m : v[i] = q[k + i]
      <4>1. PICK a \in Int : a = k + 1
        OBVIOUS
      <4>2. PICK b \in Int : b = hi - lo
        OBVIOUS
      <4>3. \A i \in a .. b : q[i] \in Nat
        <5>1. \A i \in a .. b : i \in 1 .. Len(q)
          BY <2>14, <4>1, <4>2
        <5> QED BY <2>13, <5>1
      <4>4. /\ SubSeq(q, a, b) \in Seq(Nat)
            /\ Len(SubSeq(q, a, b)) = IF a <= b THEN b - a + 1 ELSE 0
            /\ \A i \in 1 .. b - a + 1 : SubSeq(q, a, b)[i] = q[a + i - 1]
        BY <4>3, SubSeqProperties
      <4>5. b - a + 1 = m /\ (~(a <= b) => m = 0) /\ \A i \in 1 .. m : a + i - 1 = k + i
        BY <3>1, <4>1, <4>2
      <4> QED BY <3>4, <4>1, <4>2, <4>4, <4>5
    <3>6. Len(u) = Len(v) /\ \A i \in 1 .. Len(u) : u[i] = v[i]
      <4>1. ASSUME NEW i \in 1 .. m
            PROVE  u[i] = v[i]
        <5>1. k + i \in 1 .. hi - lo /\ lo + (k + i) - 1 = (lo + k) + i - 1
          BY <3>1
        <5> QED BY <2>14, <3>3, <3>5, <5>1
      <4> QED BY <3>3, <3>5, <4>1
    <3>7. u = v
      BY <3>3, <3>5, <3>6, SeqEqual
    <3> QED BY <3>1, <3>2, <3>4, <3>7
  <2>17. Fifo!Dequeue(c)
    <3>1. Held' = [Held EXCEPT ![c] = SubSeq(Queue, 1, k)]
      BY <2>11, <2>12, <2>13, <2>15 DEF Held
    <3>2. Queue' = SubSeq(Queue, k + 1, Len(Queue))
      BY <2>10, <2>13, <2>14, <2>16
    <3>3. k \in 1 .. Len(Queue)
      BY <2>6, <2>13, <2>14
    <3> QED BY <1>2, <2>11, <3>1, <3>2, <3>3 DEF Fifo!Dequeue
  <2>18. Fifo!Next
    BY <2>17 DEF Fifo!Next
  <2> QED BY <2>18
<1>4. CASE ~(SC \/ cons.head = old[c])
  <2>1. pc'[c] = "head" /\ cons' = cons /\ \A u \in Threads \ {c} : pc'[u] = pc[u]
    BY <1>1, <1>4 DEF MoveConsHead, Go, Shape
  <2>2. Queue' = Queue
    BY <1>1, <2>1, QueueStays
  <2>3. Held' = Held
    <3>1. Held'[c] = Held[c]
      BY <1>1, <2>1 DEF Held
    <3>2. \A d \in Consumers \ {c} : Held'[d] = Held[d]
      BY <1>1, <2>1 DEF Held, Reserved, Threads
    <3> QED BY <3>1, <3>2 DEF Held
  <2> QED BY <1>2, <2>2, <2>3, Unseen
<1> QED BY <1>3, <1>4

\* The release by a consumer is Return.
LEMMA UpdateConsTailFifo ==
  ASSUME RteRingAssumption, Shape, NEW g \in Ghosts, Sound(g), NEW c \in Consumers,
         UpdateConsTail(c)
  PROVE  [Fifo!Next]_Seen
<1>1. c \in Threads /\ c \notin Producers /\ pc[c] = "tail"
  BY DEF UpdateConsTail, Threads, RteRingAssumption
<1>2. /\ pc'[c] = "idle" /\ obj'[c] = <<>>
      /\ \A u \in Threads \ {c} : /\ pc'[u] = pc[u] /\ n'[u] = n[u]
                                  /\ obj'[u] = obj[u] /\ old'[u] = old[u]
  BY <1>1, Left DEF UpdateConsTail
<1>3. Queue' = Queue
  <2>1. cons'.head = cons.head /\ prod' = prod /\ ring' = ring
    BY DEF UpdateConsTail, Shape
  <2> QED BY <2>1, QueueStays
<1>4. Offer' = Offer
  <2>1. \A p \in Producers : obj'[p] = obj[p]
    BY <1>1, <1>2 DEF Threads
  <2> QED BY <2>1, OfferStays
<1>5. Held[c] # <<>>
  <2>1. PICK m \in Nat : m = n[c]
    BY <1>1, Sizes DEF Shape
  <2>2. m # 0
    BY <1>1, <2>1 DEF Sound, Consuming
  <2>3. Held[c] = [i \in 1 .. m |-> g.item[g.at[c] + i - 1]]
    BY <1>1, <2>1, HeldIs DEF Copies
  <2>4. DOMAIN Held[c] = 1 .. m /\ 1 \in 1 .. m /\ DOMAIN <<>> = {}
    BY <2>2, <2>3
  <2> QED BY <2>4
<1>6. Held' = [Held EXCEPT ![c] = <<>>]
  <2>1. Held'[c] = <<>>
    BY <1>2 DEF Held
  <2>2. \A d \in Consumers \ {c} : Held'[d] = Held[d]
    BY <1>2 DEF Held, Reserved, Threads, UpdateConsTail
  <2> QED BY <2>1, <2>2 DEF Held
<1>7. Fifo!Return(c)
  BY <1>3, <1>4, <1>5, <1>6 DEF Fifo!Return
<1>8. Fifo!Next
  BY <1>7 DEF Fifo!Next
<1> QED BY <1>8

\* The idle ring is the empty queue.
LEMMA FifoInit == RteRingAssumption /\ Init => Fifo!Init
<1> SUFFICES ASSUME RteRingAssumption, Init
             PROVE  Fifo!Init
  OBVIOUS
<1>1. PICK k \in Starts : prod = [head |-> k, tail |-> k] /\ cons = [head |-> k, tail |-> k]
  BY DEF Init
<1>2. k \in Nat
  BY Sizes DEF RteRingAssumption
<1>3. Minus(k, k) = 0
  <2>1. k - k = 0 /\ 0 % Word = 0
    BY <1>2, Sizes
  <2> QED BY <2>1 DEF Minus
<1>4. Queue = <<>>
  BY <1>1, <1>3 DEF Queue
<1>5. Offer = [p \in Producers |-> <<>>] /\ Held = [c \in Consumers |-> <<>>]
  BY DEF Init, Offer, Held, Threads
<1> QED BY <1>4, <1>5 DEF Fifo!Init

\* Each step of a thread is a step of the abstract queue or a stutter.
LEMMA FifoStep ==
  ASSUME RteRingAssumption, RingInv, [Next]_vars
  PROVE  [Fifo!Next]_Seen
<1>1. PICK g \in Ghosts : Sound(g)
  BY DEF RingInv
<1>2. Shape
  BY DEF RingInv
<1>3. ASSUME NEW p \in Producers, EnqueueCall(p) \/ Enqueue(p)
      PROVE  [Fifo!Next]_Seen
  BY <1>1, <1>2, <1>3, EnqueueCallFifo, ProducerUnseen, LoadConsTailFifo, EnqueuePtrsFifo,
     UpdateProdTailFifo DEF Enqueue
<1>4. ASSUME NEW c \in Consumers, CountProdTail(c) \/ Dequeue(c)
      PROVE  [Fifo!Next]_Seen
  BY <1>1, <1>2, <1>4, ConsumerUnseen, MoveConsHeadFifo, UpdateConsTailFifo DEF Dequeue
<1>5. ASSUME UNCHANGED vars
      PROVE  [Fifo!Next]_Seen
  <2>1. Queue' = Queue /\ Offer' = Offer /\ Held' = Held
    BY <1>5 DEF vars, Queue, Offer, Held, Reserved
  <2> QED BY <2>1, Unseen
<1> QED BY <1>3, <1>4, <1>5 DEF Next

-----------------------------------------------------------------------------
(***************************************************************************)
(* What the ring promises.                                                 *)
(***************************************************************************)
\* The counters stay within a turn, every position between the tails is reserved or
\* filled, and every object is in one place.
THEOREM RingSound == ASSUME RteRingAssumption PROVE Spec => []RingInv
BY RingInvariant

\* rte_ring_enqueue_bulk and rte_ring_dequeue_burst implement a bounded FIFO.
THEOREM RingIsFifo == ASSUME RteRingAssumption PROVE Spec => IsFifo
<1>1. Init => Fifo!Init
  BY FifoInit
<1>2. RingInv /\ [Next]_vars => [Fifo!Next]_Seen
  BY FifoStep
<1>3. Spec => []RingInv
  BY RingInvariant
<1>4. Spec => Fifo!Init /\ [][Fifo!Next]_Seen
  BY <1>1, <1>2, <1>3, PTL DEF Spec
<1> QED BY <1>4 DEF IsFifo, Fifo!Spec, Seen

\* A single consumer that ring_count told of an object gets one.
THEOREM CountedHolds == ASSUME RteRingAssumption PROVE Spec => []CountedIsThere
<1>1. RingInv => CountedIsThere
  BY InvCounted
<1> QED BY <1>1, RingInvariant, PTL

\* No two threads copy to or from the same slot at a time.
THEOREM DisjointHolds == ASSUME RteRingAssumption PROVE Spec => []SlotsDisjoint
<1>1. RingInv => SlotsDisjoint
  BY InvDisjoint
<1> QED BY <1>1, RingInvariant, PTL

\* The reservations never exceed the capacity.
THEOREM CapacityHolds == ASSUME RteRingAssumption PROVE Spec => []WithinCapacity
<1>1. RingInv => WithinCapacity
  BY InvCapacity
<1> QED BY <1>1, RingInvariant, PTL
=============================================================================
