------------------------------ MODULE RteRing ------------------------------
(***************************************************************************)
(* tools/rte_ring/rte_ring.h: the lock-free ring between the threads of    *)
(* the driver.  Each end has a head, which a thread moves to reserve slots, *)
(* and a tail, which it moves when it has filled or emptied them; the      *)
(* tails move in the order of the heads.  The counters are unsigned and    *)
(* run on past the size of the ring; a slot is the counter & mask.         *)
(*                                                                         *)
(* A step of a thread is one access to a shared counter, or the copy of    *)
(* the pointers.  x86 keeps loads in order, as the code relies on.         *)
(***************************************************************************)
EXTENDS Integers, Sequences, FiniteSets

CONSTANTS Producers, Consumers,
          SP, SC,       \* RING_F_SP_ENQ, RING_F_SC_DEQ
          Size,         \* slots of the ring, a power of two
          Word,         \* the counters are modulo Word (2^32 in the code)
          Bulk,         \* how many objects a call may pass
          Starts,       \* where the counters of the idle ring stand
          MaxItems      \* bound on the objects enqueued

RteRingAssumption ==
    /\ Size \in Nat \ {0, 1} /\ Word \in Nat /\ \E k \in 2 .. Word : Word = k * Size
    /\ SP \in BOOLEAN /\ SC \in BOOLEAN
    /\ SP => \E p \in Producers : Producers = {p}
    /\ SC => \E c \in Consumers : Consumers = {c}
    /\ Producers \cap Consumers = {}
    /\ Bulk \subseteq 1 .. Size - 1 /\ Starts \subseteq 0 .. Word - 1
    /\ MaxItems \in Nat /\ MaxItems + Size <= Word

VARIABLES prod, cons,    \* [head, tail] of the two ends
          ring,          \* the slots
          pc,            \* where each thread is in its call
          n,             \* objects it still means to move
          old,           \* the head it read
          obj,           \* its obj_table
          seen,          \* what ring_count last told a consumer
          issued         \* objects offered so far (history)

vars == <<prod, cons, ring, pc, n, old, obj, seen, issued>>

Threads == Producers \cup Consumers
Counters == 0 .. Word - 1
Slots == 0 .. Size - 1
Capacity == Size - 1
Items == 1 .. MaxItems

Plus(a, b) == (a + b) % Word
Minus(a, b) == (a - b) % Word
Slot(i) == i % Size

\* rte_ring_init, and any number of calls that have all returned.
Init == \E k \in Starts :
    /\ prod = [head |-> k, tail |-> k] /\ cons = [head |-> k, tail |-> k]
    /\ ring = [s \in Slots |-> 0]
    /\ pc = [t \in Threads |-> "idle"]
    /\ n = [t \in Threads |-> 0]
    /\ old = [t \in Threads |-> 0]
    /\ obj = [t \in Threads |-> <<>>]
    /\ seen = [c \in Consumers |-> 0]
    /\ issued = 0

Go(t, label) == pc' = [pc EXCEPT ![t] = label]

\* The call returns: its registers and obj_table are gone.
Leave(t) == /\ Go(t, "idle")
            /\ n' = [n EXCEPT ![t] = 0] /\ old' = [old EXCEPT ![t] = 0]
            /\ obj' = [obj EXCEPT ![t] = <<>>]

(***************************************************************************)
(* Enqueue: all of the objects or none (RTE_RING_QUEUE_FIXED).             *)
(***************************************************************************)
EnqueueCall(p) ==
    /\ pc[p] = "idle"
    /\ \E k \in Bulk : /\ issued + k <= MaxItems
                       /\ issued' = issued + k
                       /\ n' = [n EXCEPT ![p] = k]
                       /\ obj' = [obj EXCEPT ![p] = [i \in 1 .. k |-> issued + i]]
    /\ Go(p, "head")
    /\ UNCHANGED <<prod, cons, ring, old, seen>>

LoadProdHead(p) ==
    /\ p \in Producers /\ pc[p] = "head"
    /\ old' = [old EXCEPT ![p] = prod.head]
    /\ Go(p, "room")
    /\ UNCHANGED <<prod, cons, ring, n, obj, seen, issued>>

FreeEntries(p) == Minus(Plus(Capacity, cons.tail), old[p])

LoadConsTail(p) ==
    /\ pc[p] = "room"
    /\ IF n[p] > FreeEntries(p) THEN Leave(p) ELSE Go(p, "cas") /\ UNCHANGED <<n, old, obj>>
    /\ UNCHANGED <<prod, cons, ring, seen, issued>>

MoveProdHead(p) ==
    /\ p \in Producers /\ pc[p] = "cas"
    /\ IF SP \/ prod.head = old[p]
       THEN /\ prod' = [prod EXCEPT !.head = Plus(old[p], n[p])] /\ Go(p, "copy")
       ELSE /\ UNCHANGED prod /\ Go(p, "head")
    /\ UNCHANGED <<cons, ring, n, old, obj, seen, issued>>

\* Where the slot s is among those the thread has reserved, from 1; 0 if it is not.
Position(t, s) == LET i == Slot(Minus(s, old[t])) IN IF i < n[t] THEN i + 1 ELSE 0

EnqueuePtrs(p) ==
    /\ p \in Producers /\ pc[p] = "copy"
    /\ ring' = [s \in Slots |-> IF Position(p, s) # 0 THEN obj[p][Position(p, s)] ELSE ring[s]]
    /\ Go(p, "tail")
    /\ UNCHANGED <<prod, cons, n, old, obj, seen, issued>>

PublishEarly(p) ==                                 \* mutant: does not wait
    /\ p \in Producers /\ pc[p] = "tail"
    /\ prod' = [prod EXCEPT !.tail = Plus(old[p], n[p])] /\ Leave(p)
    /\ UNCHANGED <<cons, ring, seen, issued>>

\* update_tail: waits for the enqueues that reserved before this one.
UpdateProdTail(p) ==
    /\ p \in Producers /\ pc[p] = "tail"
    /\ SP \/ prod.tail = old[p]
    /\ prod' = [prod EXCEPT !.tail = Plus(old[p], n[p])] /\ Leave(p)
    /\ UNCHANGED <<cons, ring, seen, issued>>

(***************************************************************************)
(* Dequeue: as many as there are, up to n (RTE_RING_QUEUE_VARIABLE).       *)
(***************************************************************************)
CountProdHead(c) ==                                \* mutant: counts reserved slots
    /\ SC /\ c \in Consumers /\ pc[c] = "idle" /\ seen[c] = 0
    /\ old' = [old EXCEPT ![c] = prod.head] /\ Go(c, "count")
    /\ UNCHANGED <<prod, cons, ring, n, obj, seen, issued>>

\* ring_count: the two tails are read one after the other.  Only the one consumer of a
\* ring counts it.
CountProdTail(c) ==
    /\ SC /\ c \in Consumers /\ pc[c] = "idle" /\ seen[c] = 0
    /\ old' = [old EXCEPT ![c] = prod.tail] /\ Go(c, "count")
    /\ UNCHANGED <<prod, cons, ring, n, obj, seen, issued>>

CountConsTail(c) ==
    /\ pc[c] = "count"
    /\ LET used == Minus(old[c], cons.tail) % Size
       IN  seen' = [seen EXCEPT ![c] = IF used > Capacity THEN Capacity ELSE used]
    /\ Leave(c)
    /\ UNCHANGED <<prod, cons, ring, issued>>

LoadConsHead(c) ==
    /\ c \in Consumers
    /\ \/ pc[c] = "idle" /\ \E k \in Bulk : n' = [n EXCEPT ![c] = k]
       \/ pc[c] = "head" /\ UNCHANGED n
    /\ old' = [old EXCEPT ![c] = cons.head]
    /\ Go(c, "entries")
    /\ UNCHANGED <<prod, cons, ring, obj, seen, issued>>

EntriesSpareOne(c) ==                              \* mutant: off by one
    IF prod.tail = old[c] THEN 0 ELSE Minus(prod.tail, old[c]) - 1
Entries(c) == Minus(prod.tail, old[c])

LoadProdTail(c) ==
    /\ pc[c] = "entries"
    /\ IF Entries(c) = 0
       THEN Leave(c) /\ seen' = [seen EXCEPT ![c] = 0]
       ELSE /\ n' = [n EXCEPT ![c] = IF @ > Entries(c) THEN Entries(c) ELSE @]
            /\ Go(c, "cas") /\ UNCHANGED <<old, obj, seen>>
    /\ UNCHANGED <<prod, cons, ring, issued>>

MoveConsHead(c) ==
    /\ c \in Consumers /\ pc[c] = "cas"
    /\ IF SC \/ cons.head = old[c]
       THEN /\ cons' = [cons EXCEPT !.head = Plus(old[c], n[c])] /\ Go(c, "copy")
       ELSE /\ UNCHANGED cons /\ Go(c, "head")
    /\ UNCHANGED <<prod, ring, n, old, obj, seen, issued>>

Reserved(t) == [i \in 1 .. n[t] |-> ring[Slot(old[t] + i - 1)]]

DequeuePtrs(c) ==
    /\ c \in Consumers /\ pc[c] = "copy"
    /\ obj' = [obj EXCEPT ![c] = Reserved(c)]
    /\ Go(c, "tail")
    /\ UNCHANGED <<prod, cons, ring, n, old, seen, issued>>

UpdateConsTail(c) ==
    /\ c \in Consumers /\ pc[c] = "tail"
    /\ SC \/ cons.tail = old[c]
    /\ cons' = [cons EXCEPT !.tail = Plus(old[c], n[c])] /\ Leave(c)
    /\ seen' = [seen EXCEPT ![c] = 0]
    /\ UNCHANGED <<prod, ring, issued>>

Enqueue(p) == LoadProdHead(p) \/ LoadConsTail(p) \/ MoveProdHead(p) \/ EnqueuePtrs(p)
                \/ UpdateProdTail(p)
Dequeue(c) == CountConsTail(c) \/ LoadConsHead(c) \/ LoadProdTail(c) \/ MoveConsHead(c)
                \/ DequeuePtrs(c) \/ UpdateConsTail(c)

Next == \/ \E p \in Producers : EnqueueCall(p) \/ Enqueue(p)
        \/ \E c \in Consumers : CountProdTail(c) \/ Dequeue(c)

\* A thread inside a call keeps running, and the consumers poll for ever.
Spec == /\ Init /\ [][Next]_vars
        /\ \A p \in Producers : WF_vars(Enqueue(p))
        /\ \A c \in Consumers : WF_vars(Dequeue(c))

-----------------------------------------------------------------------------
\* The shape of the ring's state.
TypeOK == /\ prod \in [head : Counters, tail : Counters]
          /\ cons \in [head : Counters, tail : Counters]
          /\ ring \in [Slots -> Items \cup {0}]
          /\ pc \in [Threads -> {"idle", "head", "room", "cas", "copy", "tail", "count", "entries"}]
          /\ n \in [Threads -> 0 .. Size - 1] /\ old \in [Threads -> Counters]
          /\ \A t \in Threads : Len(obj[t]) <= Size - 1
          /\ seen \in [Consumers -> 0 .. Capacity] /\ issued \in 0 .. MaxItems

SlotsOf(t) == {s \in Slots : Position(t, s) # 0}

\* No two threads copy to or from the same slot at a time: the heads hand out slots
\* that nobody else is filling or emptying (ENQUEUE_PTRS, DEQUEUE_PTRS).
SlotsDisjoint == \A t, u \in Threads :
    t # u /\ pc[t] = "copy" /\ pc[u] = "copy" => SlotsOf(t) \cap SlotsOf(u) = {}

\* A single consumer that ring_count told of an object gets one: algo_thread takes the
\* request out of ring_dequeue without looking at what it returns.
CountedIsThere == SC => \A c \in Consumers :
    pc[c] = "entries" /\ seen[c] > 0 => Entries(c) > 0

\* The slots in use never exceed the capacity, counted over the reservations.
WithinCapacity == Minus(prod.head, cons.tail) <= Capacity

\* What was enqueued is dequeued, while a consumer polls.
Drained == prod.tail # cons.head ~> prod.tail = cons.head

\* What a dequeue may reserve, oldest first, and what the threads are moving.
Queue == [i \in 1 .. Minus(prod.tail, cons.head) |-> ring[Slot(cons.head + i - 1)]]
Offer == [p \in Producers |-> obj[p]]
Held  == [c \in Consumers |-> IF pc[c] = "copy" THEN Reserved(c) ELSE obj[c]]

Fifo == INSTANCE BoundedFifo WITH queue <- Queue, offer <- Offer, held <- Held

\* The ring is a bounded FIFO: each call takes effect at one step, an enqueue when the
\* tail moves, a dequeue when the head does, and a refusal only when it is crowded.
IsFifo == Fifo!Spec
=============================================================================
