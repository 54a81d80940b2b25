----------------------------- MODULE AlgoQueue -----------------------------
(***************************************************************************)
(* What hash_hot_cmt/algo_queue.c promises the threads that use it:        *)
(* retry_q and wb_retry_q of algo_thread and complete_q of each completion *)
(* thread hold requests until their etime, and the owner of the queue      *)
(* serves the head once its etime has passed.  An insertion walks from the *)
(* tail and stops behind the first entry due at most Slack after the new   *)
(* one, so the queue is not quite sorted.                                  *)
(*                                                                         *)
(* Module AlgoList is the doubly linked list that implements it.           *)
(***************************************************************************)
EXTENDS Integers, Sequences

CONSTANTS Payloads,      \* what waits: requests, or entries of a flush
          Slack,         \* the 1000 ns added to etime in the comparison
          MaxTime,       \* bound on the clock
          MaxArrivals    \* bound on the insertions

ASSUME AlgoQueueAssumption == /\ Slack \in Nat
                              /\ MaxTime \in Nat
                              /\ MaxArrivals \in Nat

VARIABLES now,       \* clock_get_ns()
          q,         \* the queue, head first
          etime,     \* etime of each request
          order,     \* when each request was last inserted (history)
          arrivals   \* insertions so far (history)

queueVars == <<now, q, etime, order, arrivals>>

Times == 0 .. MaxTime

QueueInit == /\ now = 0 /\ q = <<>>
             /\ etime = [r \in Payloads |-> 0]
             /\ order = [r \in Payloads |-> 0] /\ arrivals = 0

\* A handler parks a request its thread has taken off the queue before.
Queued(r) == \E i \in 1 .. Len(q) : q[i] = r

\* The loop of algo_q_insert_sorted stops at position k (0: before the head).
StopsAnywhere(k, t) == TRUE                       \* mutant: ignores etime

StopsAtNoLater(k, t) ==                           \* mutant: no slack
    /\ k # 0 => etime[q[k]] <= t
    /\ \A i \in k + 1 .. Len(q) : etime[q[i]] > t

StopsAt(k, t) ==
    /\ k # 0 => etime[q[k]] <= t \/ etime[q[k]] <= t + Slack
    /\ \A i \in k + 1 .. Len(q) : etime[q[i]] > t + Slack

InsertBehind(k, r) ==
    [i \in 1 .. Len(q) + 1 |->
        IF i <= k THEN q[i] ELSE IF i = k + 1 THEN r ELSE q[i - 1]]

\* algo_q_insert_sorted of request r, whose etime was set to t in its handler.
InsertSorted(r, t) ==
    /\ ~Queued(r)
    /\ \E k \in 0 .. Len(q) : StopsAt(k, t) /\ q' = InsertBehind(k, r)
    /\ etime' = [etime EXCEPT ![r] = t]
    /\ UNCHANGED now

Insert(r, t) ==
    /\ arrivals < MaxArrivals
    /\ InsertSorted(r, t)
    /\ arrivals' = arrivals + 1
    /\ order' = [order EXCEPT ![r] = arrivals + 1]

Due == etime[Head(q)] <= now

\* The owner finds the head due and dequeues it.
Serve == /\ q # <<>> /\ Due
         /\ q' = Tail(q)
         /\ UNCHANGED <<now, etime, order, arrivals>>

Tick == /\ now < MaxTime
        /\ now' = now + 1
        /\ UNCHANGED <<q, etime, order, arrivals>>

QueueNext == \/ \E r \in Payloads, t \in Times : Insert(r, t)
             \/ Serve
             \/ Tick

QueueSpec == QueueInit /\ [][QueueNext]_queueVars

\* Time passes, and requests come, without an end: the clock stays at Here, etimes are
\* counted from it, and what lies further back than they reach counts as their start.  A
\* handler parks a request with a time at most Late before the clock: it has just read the
\* clock, or the request has waited for a mapping page since.
Passes(Here) ==
    /\ now = Here
    /\ etime' = [r \in Payloads |-> IF etime[r] = 0 THEN 0 ELSE etime[r] - 1]
    /\ UNCHANGED <<now, q, order, arrivals>>

EndlessNext(Here, Late) ==
    \/ \E r \in Payloads, t \in Times :
          t + Late >= now /\ InsertSorted(r, t) /\ UNCHANGED <<order, arrivals>>
    \/ Serve
    \/ now < Here /\ Tick
    \/ Passes(Here)

-----------------------------------------------------------------------------
(***************************************************************************)
(* Every record has its type and no request is queued twice.               *)
(***************************************************************************)
QueueTypeOK == /\ now \in Times
               /\ q \in Seq(Payloads)
               /\ \A i, j \in 1 .. Len(q) : q[i] = q[j] => i = j
               /\ etime \in [Payloads -> Times]
               /\ order \in [Payloads -> 0 .. arrivals] /\ arrivals \in 0 .. MaxArrivals

(***************************************************************************)
(* How unsorted the queue can get: an entry is due at most Slack later per *)
(* position than one behind it.  This bounds how long the head, which is   *)
(* the only entry the loop of algo_thread looks at, holds up a request     *)
(* that is due.                                                            *)
(***************************************************************************)
WaitBounded ==
    \A i, j \in 1 .. Len(q) :
        i <= j => etime[q[i]] <= etime[q[j]] + (j - i) * Slack

(***************************************************************************)
(* A request overtakes only requests due more than Slack after it; all     *)
(* others are served in the order in which they were inserted.             *)
(***************************************************************************)
OvertakesOnlyLater ==
    \A i, j \in 1 .. Len(q) :
        i < j /\ order[q[i]] > order[q[j]] => etime[q[j]] > etime[q[i]] + Slack

=============================================================================
