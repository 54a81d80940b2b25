------------------------------ MODULE AlgoList ------------------------------
(***************************************************************************)
(* The doubly linked list of hash_hot_cmt/algo_queue.c, pointer by         *)
(* pointer.  It implements AlgoQueue.  A node is a malloc'ed algo_q_node;  *)
(* free puts it back, and what is left in it is garbage a later malloc     *)
(* returns.                                                                *)
(***************************************************************************)
EXTENDS Integers, Sequences, FiniteSets

CONSTANTS Requests, Slack, MaxTime, MaxArrivals,   \* as in AlgoQueue
          Nodes,       \* the memory for nodes
          NULL

AlgoListAssumption == Cardinality(Nodes) >= Cardinality(Requests)

VARIABLES now, etime, order, arrivals,             \* as in AlgoQueue
          head, last,                              \* q->head, q->last
          size,                                    \* q->size
          next, prev, payload,                     \* the fields of each node
          used                                     \* the nodes allocated

list == <<head, last, size, next, prev, payload, used>>
vars == <<now, etime, order, arrivals, list>>

Init == /\ now = 0 /\ arrivals = 0
        /\ etime = [r \in Requests |-> 0] /\ order = [r \in Requests |-> 0]
        /\ head = NULL /\ last = NULL /\ size = 0 /\ used = {}
        /\ next = [n \in Nodes |-> NULL] /\ prev = [n \in Nodes |-> NULL]
        /\ payload = [n \in Nodes |-> NULL]

\* The nodes an owner reaches from n0 along one of the pointers.
Along(ptr, n0) ==
    LET chain[n \in Nodes \cup {NULL}, k \in 0 .. Cardinality(Nodes)] ==
            IF n = NULL \/ k = 0 THEN <<>> ELSE <<n>> \o chain[ptr[n], k - 1]
    IN  chain[n0, Cardinality(Nodes)]

Forward == Along(next, head)
Backward == Along(prev, last)

\* The while loop of the insertion: from the tail to the first node it stops at.
Stop(t) ==
    LET early == { i \in 1 .. Len(Backward) :
                     etime[payload[Backward[i]]] <= t + Slack }
    IN  IF early = {} THEN NULL
        ELSE Backward[CHOOSE i \in early : \A j \in early : i <= j]

\* The three ways to link entry e behind curr.
LinkHead(e) ==
    /\ prev' = [prev EXCEPT ![e] = NULL, ![head] = e]
    /\ next' = [next EXCEPT ![e] = head]
    /\ head' = e
    /\ UNCHANGED last

LinkTail(e, curr) ==
    /\ prev' = [prev EXCEPT ![e] = curr]
    /\ next' = [next EXCEPT ![e] = NULL, ![curr] = e]
    /\ last' = e
    /\ UNCHANGED head

LinkBetweenOneWay(e, curr) ==              \* mutant: curr->next->prev kept
    /\ prev' = [prev EXCEPT ![e] = curr]
    /\ next' = [next EXCEPT ![e] = next[curr], ![curr] = e]
    /\ UNCHANGED <<head, last>>

LinkBetween(e, curr) ==
    /\ prev' = [prev EXCEPT ![e] = curr, ![next[curr]] = e]
    /\ next' = [next EXCEPT ![e] = next[curr], ![curr] = e]
    /\ UNCHANGED <<head, last>>

LinkOnly(e) ==
    /\ prev' = [prev EXCEPT ![e] = NULL]
    /\ next' = [next EXCEPT ![e] = NULL]
    /\ head' = e /\ last' = e

Link(e, t) ==
    IF head = NULL THEN LinkOnly(e)
    ELSE IF Stop(t) = NULL THEN LinkHead(e)
    ELSE IF next[Stop(t)] = NULL THEN LinkTail(e, Stop(t))
    ELSE LinkBetween(e, Stop(t))

algo_q_insert_sorted(r, t) ==
    /\ arrivals < MaxArrivals
    /\ \A n \in used : payload[n] # r
    /\ \E e \in Nodes \ used :
          /\ Link(e, t)
          /\ used' = used \cup {e}
          /\ payload' = [payload EXCEPT ![e] = r]
    /\ size' = size + 1
    /\ etime' = [etime EXCEPT ![r] = t]
    /\ arrivals' = arrivals + 1
    /\ order' = [order EXCEPT ![r] = arrivals + 1]
    /\ UNCHANGED now

\* Taking the head off, with its fix of last and of the new head's prev.
NewHeadPrev == IF next[head] = NULL THEN prev ELSE [prev EXCEPT ![next[head]] = NULL]

Unlink ==
    /\ head' = next[head] /\ prev' = NewHeadPrev
    /\ last' = IF next[head] = NULL THEN NULL ELSE last
    /\ size' = size - 1

algo_q_dequeue ==
    /\ head # NULL
    /\ etime[payload[head]] <= now         \* the owner looked at the head first
    /\ Unlink
    /\ used' = used \ {head}
    /\ UNCHANGED <<now, etime, order, arrivals, next, payload>>

Tick == /\ now < MaxTime
        /\ now' = now + 1
        /\ UNCHANGED <<etime, order, arrivals, list>>

Next == \/ \E r \in Requests, t \in 0 .. MaxTime : algo_q_insert_sorted(r, t)
        \/ algo_q_dequeue
        \/ Tick

Spec == Init /\ [][Next]_vars

-----------------------------------------------------------------------------
TypeOK == /\ head \in Nodes \cup {NULL} /\ last \in Nodes \cup {NULL}
          /\ next \in [Nodes -> Nodes \cup {NULL}]
          /\ prev \in [Nodes -> Nodes \cup {NULL}]
          /\ payload \in [Nodes -> Requests \cup {NULL}]
          /\ used \subseteq Nodes /\ size \in 0 .. Cardinality(Nodes)

(***************************************************************************)
(* The two directions of the list hold the same nodes in opposite order,   *)
(* which are the allocated ones and as many as size says: no node is lost, *)
(* leaked, or reached after it was freed.                                  *)
(***************************************************************************)
WellLinked ==
    /\ Len(Forward) = size /\ Len(Backward) = size
    /\ \A i \in 1 .. size : Forward[i] = Backward[size + 1 - i]
    /\ { Forward[i] : i \in 1 .. Len(Forward) } = used

\* The sequence of payloads from the head is the queue of AlgoQueue.
Queue == INSTANCE AlgoQueue
         WITH Payloads <- Requests, q <- [i \in 1 .. Len(Forward) |-> payload[Forward[i]]]

(***************************************************************************)
(* Every insertion and removal in the list is one of the queue.            *)
(***************************************************************************)
ImplementsQueue == Queue!QueueSpec

=============================================================================
