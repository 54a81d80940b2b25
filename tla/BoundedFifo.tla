---------------------------- MODULE BoundedFifo ----------------------------
(***************************************************************************)
(* What tools/rte_ring promises the threads of the driver: a queue of at   *)
(* most Capacity requests that hands each one out once, in order.  A       *)
(* producer is refused only while the ring is crowded by requests that are *)
(* in it, on their way in or on their way out.                             *)
(*                                                                         *)
(* RteRing implements it with four counters and no lock.                   *)
(***************************************************************************)
EXTENDS Integers, Sequences, FiniteSets

CONSTANTS Producers, Consumers, Capacity, Items

VARIABLES queue,     \* what ring_dequeue may return, oldest first
          offer,     \* what each producer is enqueueing
          held       \* what each consumer has taken and not yet returned with

Init == /\ queue = <<>>
        /\ offer = [p \in Producers |-> <<>>]
        /\ held = [c \in Consumers |-> <<>>]

Objects(s) == { s[i] : i \in DOMAIN s }

\* The requests that are in the ring, on their way in or on their way out.
Crowd == Objects(queue) \cup (UNION { Objects(offer[p]) : p \in Producers })
                        \cup (UNION { Objects(held[c]) : c \in Consumers })

\* A producer comes with the requests it will enqueue, all or none of them.
Offer(p, objs) == /\ offer[p] = <<>> /\ objs # <<>>
                  /\ offer' = [offer EXCEPT ![p] = objs]
                  /\ UNCHANGED <<queue, held>>

Enqueue(p) == /\ offer[p] # <<>> /\ Len(queue) + Len(offer[p]) <= Capacity
              /\ queue' = queue \o offer[p]
              /\ offer' = [offer EXCEPT ![p] = <<>>]
              /\ UNCHANGED held

Refuse(p) == /\ offer[p] # <<>> /\ Cardinality(Crowd) > Capacity
             /\ offer' = [offer EXCEPT ![p] = <<>>]
             /\ UNCHANGED <<queue, held>>

\* A consumer takes as many as there are, up to what it asked for.
Dequeue(c) == /\ held[c] = <<>>
              /\ \E k \in 1 .. Len(queue) :
                    /\ held' = [held EXCEPT ![c] = SubSeq(queue, 1, k)]
                    /\ queue' = SubSeq(queue, k + 1, Len(queue))
              /\ UNCHANGED offer

Return(c) == /\ held[c] # <<>>
             /\ held' = [held EXCEPT ![c] = <<>>]
             /\ UNCHANGED <<queue, offer>>

\* An item is a ticket: an offer holds increasing ones.
Next == \/ \E p \in Producers :
              \/ \E i, j \in Items : i <= j /\ Offer(p, [k \in 1 .. j - i + 1 |-> i + k - 1])
              \/ Enqueue(p) \/ Refuse(p)
        \/ \E c \in Consumers : Dequeue(c) \/ Return(c)

Spec == Init /\ [][Next]_<<queue, offer, held>>
=============================================================================
