------------------------------- MODULE Driver ------------------------------
(***************************************************************************)
(* The threads of hash_hot_cmt/test_ext_mem_lat.c: workers that submit     *)
(* requests within an I/O depth, algo_thread that runs them, and two       *)
(* completion threads that end and free them.  A request goes from its     *)
(* worker through req_q to algo_thread, through finish_q to a completion   *)
(* thread, and waits in that thread's complete_q until its etime.          *)
(*                                                                         *)
(* Some workers do read-modify-write (YCSB F): they wait on their counter  *)
(* for the read, then for the write, before they go on.  The handlers of   *)
(* algo_thread are modelled in KvRequests; here one answers its request,   *)
(* parks it, or answers it twice (a read whose mapping page is nowhere).   *)
(* The rings are the bounded FIFOs of BoundedFifo.  When a parked request  *)
(* is due, and in which order, is the subject of AlgoQueue.                *)
(***************************************************************************)
EXTENDS Integers, Sequences, FiniteSetsExt

CONSTANTS Workers,
          RmwWorkers,     \* those that run test_ycsb_f's loop
          Requests,       \* memory for requests; free(req) makes it available
          Completers,     \* the threads of process_cq_cpl
          IoDepth,        \* iodepth
          ReqRoom, FinishRoom,   \* capacities of req_q and finish_q
          MaxParks,       \* bound on how often a handler parks a request
          AbsentReads     \* whether a read may meet a page that is nowhere

DriverAssumption ==
    /\ RmwWorkers \subseteq Workers /\ Requests \subseteq Nat \ {0}
    /\ IoDepth \in Nat \ {0} /\ ReqRoom \in Nat \ {0} /\ FinishRoom \in Nat \ {0}
    /\ MaxParks \in Nat /\ AbsentReads \in BOOLEAN

VARIABLES pc,         \* where each worker is in its loop
          mine,       \* the request it prepares
          turn,       \* what a read-modify-write worker submits next
          nrIos,      \* tr_nr_ios of each worker
          mem,        \* each request: [worker, type], or Freed
          parks,      \* how often it was parked
          reqQ, retryQ, finishQ,
          running,    \* the request algo_thread runs, or NoReq
          todo,       \* how often it has still to put it on finish_q
          taken,      \* the request each completion thread has dequeued
          completeQ,  \* those it keeps until their etime
          twice,      \* whether a request was ever answered twice (history)
          aborted     \* the allocator found a request freed twice

workerVars == <<pc, mine, turn>>
algoVars == <<retryQ, running, todo, parks, twice>>
cplVars == <<taken, completeQ>>
vars == <<workerVars, algoVars, cplVars, nrIos, mem, reqQ, finishQ, aborted>>

NoReq == 0
Freed(w) == [worker |-> w, type |-> "freed"]
IsFree(r) == mem[r].type = "freed"

Init == /\ pc = [w \in Workers |-> "idle"]
        /\ mine = [w \in Workers |-> NoReq]
        /\ turn = [w \in Workers |-> "read"]
        /\ nrIos = [w \in Workers |-> 0]
        /\ \E w \in Workers : mem = [r \in Requests |-> Freed(w)]
        /\ parks = [r \in Requests |-> 0]
        /\ reqQ = <<>> /\ retryQ = {} /\ finishQ = <<>>
        /\ running = NoReq /\ todo = 0
        /\ taken = [t \in Completers |-> NoReq]
        /\ completeQ = [t \in Completers |-> {}]
        /\ twice = FALSE /\ aborted = FALSE

(***************************************************************************)
(* A worker.                                                               *)
(***************************************************************************)
\* g_malloc0 of a request.  A read-modify-write worker sets its counter to 0 first.
Allocate(w, r, type) ==
    /\ ~aborted /\ pc[w] = "idle" /\ IsFree(r)
    /\ w \in RmwWorkers => type = turn[w]
    /\ mem' = [mem EXCEPT ![r] = [worker |-> w, type |-> type]]
    /\ parks' = [parks EXCEPT ![r] = 0]
    /\ mine' = [mine EXCEPT ![w] = r] /\ pc' = [pc EXCEPT ![w] = "wait"]
    /\ nrIos' = IF w \in RmwWorkers THEN [nrIos EXCEPT ![w] = 0] ELSE nrIos
    /\ UNCHANGED <<turn, retryQ, running, todo, twice, cplVars, reqQ, finishQ, aborted>>

DepthFree(w) == nrIos[w] < IoDepth

\* wait_for_nr_ios: the counter is read in one step and increased in the next.
SeeRoom(w) ==
    /\ ~aborted /\ pc[w] = "wait" /\ DepthFree(w)
    /\ pc' = [pc EXCEPT ![w] = "count"]
    /\ UNCHANGED <<mine, turn, algoVars, cplVars, nrIos, mem, reqQ, finishQ, aborted>>

CountIo(w) ==
    /\ ~aborted /\ pc[w] = "count"
    /\ nrIos' = [nrIos EXCEPT ![w] = @ + 1]
    /\ pc' = [pc EXCEPT ![w] = "enqueue"]
    /\ UNCHANGED <<mine, turn, algoVars, cplVars, mem, reqQ, finishQ, aborted>>

\* submit_req: spins while req_q is full.
Enqueue(w) ==
    /\ ~aborted /\ pc[w] = "enqueue" /\ Len(reqQ) < ReqRoom
    /\ reqQ' = Append(reqQ, mine[w]) /\ mine' = [mine EXCEPT ![w] = NoReq]
    /\ pc' = [pc EXCEPT ![w] = IF w \in RmwWorkers THEN "drain" ELSE "idle"]
    /\ UNCHANGED <<turn, algoVars, cplVars, nrIos, mem, finishQ, aborted>>

DrainedButOne(w) ==                                  \* mutant: off by one
    /\ ~aborted /\ pc[w] = "drain" /\ nrIos[w] <= 1
    /\ pc' = [pc EXCEPT ![w] = "idle"]
    /\ turn' = [turn EXCEPT ![w] = IF @ = "read" THEN "write" ELSE "read"]
    /\ UNCHANGED <<mine, algoVars, cplVars, nrIos, mem, reqQ, finishQ, aborted>>

\* while (tr_nr_ios > 0), after the read and after the write.
Drained(w) ==
    /\ ~aborted /\ pc[w] = "drain" /\ nrIos[w] <= 0
    /\ pc' = [pc EXCEPT ![w] = "idle"]
    /\ turn' = [turn EXCEPT ![w] = IF @ = "read" THEN "write" ELSE "read"]
    /\ UNCHANGED <<mine, algoVars, cplVars, nrIos, mem, reqQ, finishQ, aborted>>

(***************************************************************************)
(* algo_thread.                                                            *)
(***************************************************************************)
Take(r) == /\ ~aborted /\ running = NoReq /\ running' = r
           /\ UNCHANGED <<todo, parks, twice, workerVars, cplVars, nrIos, mem, finishQ, aborted>>

TakeParked(r) == r \in retryQ /\ retryQ' = retryQ \ {r} /\ Take(r) /\ UNCHANGED reqQ
TakeNew == reqQ # <<>> /\ reqQ' = Tail(reqQ) /\ Take(Head(reqQ)) /\ UNCHANGED retryQ

Handled == ~aborted /\ running # NoReq /\ todo = 0
           /\ UNCHANGED <<workerVars, cplVars, nrIos, mem, reqQ, finishQ, aborted>>

Answers == Handled /\ todo' = 1 /\ UNCHANGED <<running, retryQ, parks, twice>>

ParksAndAnswers ==                                   \* mutant: put on finish_q as well
    /\ Handled /\ parks[running] < MaxParks
    /\ retryQ' = retryQ \cup {running} /\ parks' = [parks EXCEPT ![running] = @ + 1]
    /\ todo' = 1 /\ UNCHANGED <<running, twice>>

Parks == /\ Handled /\ parks[running] < MaxParks
         /\ retryQ' = retryQ \cup {running} /\ parks' = [parks EXCEPT ![running] = @ + 1]
         /\ running' = NoReq /\ UNCHANGED <<todo, twice>>

\* The load of a page that is nowhere.  The request is also parked; what algo_thread does
\* with it once it is freed is not modelled.  A bound: one such read in a run.
AnswersTwice == /\ Handled /\ AbsentReads /\ ~twice /\ mem[running].type = "read"
                /\ todo' = 2 /\ twice' = TRUE /\ UNCHANGED <<running, retryQ, parks>>

FinishOrDrop == /\ ~aborted /\ todo > 0             \* mutant: does not spin
                /\ finishQ' = IF Len(finishQ) < FinishRoom THEN Append(finishQ, running) ELSE finishQ
                /\ todo' = todo - 1 /\ running' = IF todo = 1 THEN NoReq ELSE running
                /\ UNCHANGED <<retryQ, parks, twice, workerVars, cplVars, nrIos, mem, reqQ, aborted>>

\* while (!ring_enqueue(finish_q, ...)): spins while finish_q is full.
Finish == /\ ~aborted /\ todo > 0 /\ Len(finishQ) < FinishRoom
          /\ finishQ' = Append(finishQ, running)
          /\ todo' = todo - 1 /\ running' = IF todo = 1 THEN NoReq ELSE running
          /\ UNCHANGED <<retryQ, parks, twice, workerVars, cplVars, nrIos, mem, reqQ, aborted>>

(***************************************************************************)
(* process_cq_cpl and end_request.                                         *)
(***************************************************************************)
Dequeue(t) == /\ ~aborted /\ taken[t] = NoReq /\ finishQ # <<>>
              /\ taken' = [taken EXCEPT ![t] = Head(finishQ)] /\ finishQ' = Tail(finishQ)
              /\ UNCHANGED <<workerVars, algoVars, completeQ, nrIos, mem, reqQ, aborted>>

\* Not due yet.
Keep(t) == /\ ~aborted /\ taken[t] # NoReq
           /\ completeQ' = [completeQ EXCEPT ![t] = @ \cup {taken[t]}]
           /\ taken' = [taken EXCEPT ![t] = NoReq]
           /\ UNCHANGED <<workerVars, algoVars, nrIos, mem, reqQ, finishQ, aborted>>

EndUncounted(r) == mem' = [mem EXCEPT ![r].type = "freed"]   \* mutant: no decrement
                   /\ UNCHANGED <<nrIos, aborted>>

\* The counter goes down before the request is freed.  One that was freed before still
\* holds the pointer to its counter, and the allocator may notice the second free.
end_request(r) ==
    /\ nrIos' = [nrIos EXCEPT ![mem[r].worker] = @ - 1]
    /\ mem' = [mem EXCEPT ![r].type = "freed"]
    /\ aborted' \in IF IsFree(r) THEN BOOLEAN ELSE {FALSE}

EndTaken(t) == /\ ~aborted /\ taken[t] # NoReq /\ end_request(taken[t])
               /\ taken' = [taken EXCEPT ![t] = NoReq]
               /\ UNCHANGED <<workerVars, algoVars, completeQ, reqQ, finishQ>>

EndKept(t, r) == /\ ~aborted /\ r \in completeQ[t] /\ taken[t] = NoReq /\ end_request(r)
                 /\ completeQ' = [completeQ EXCEPT ![t] = @ \ {r}]
                 /\ UNCHANGED <<workerVars, algoVars, taken, reqQ, finishQ>>

Worker(w) == SeeRoom(w) \/ CountIo(w) \/ Enqueue(w) \/ Drained(w)
algo_handler == Answers \/ Parks \/ AnswersTwice \/ Finish
process_cq_cpl(t) == Dequeue(t) \/ Keep(t) \/ EndTaken(t)

Next == \/ \E w \in Workers : \/ \E r \in Requests, type \in {"read", "write"} : Allocate(w, r, type)
                              \/ Worker(w)
        \/ TakeNew \/ algo_handler
        \/ \E r \in Requests : TakeParked(r)
        \/ \E t \in Completers : process_cq_cpl(t) \/ \E r \in Requests : EndKept(t, r)

\* Every thread runs.  algo_thread comes back to each of its queues, and what is parked or
\* kept is due one day and then served (EventuallyServed of MCThreads).
Spec == /\ Init /\ [][Next]_vars
        /\ \A w \in Workers : WF_vars(Worker(w))
        /\ WF_vars(algo_handler) /\ SF_vars(TakeNew)
        /\ \A r \in Requests : SF_vars(TakeParked(r))
        /\ \A t \in Completers : /\ WF_vars(process_cq_cpl(t))
                                 /\ \A r \in Requests : SF_vars(EndKept(t, r))

-----------------------------------------------------------------------------
\* What a worker has submitted, counted from its increment on, and not seen ended.
Outstanding(w) == {r \in Requests : /\ mem[r].worker = w /\ ~IsFree(r)
                                    /\ mine[w] = r => pc[w] = "enqueue"}

\* How many hold a request, by queue and kind of thread.
Holders(r) == [q \in {"mine", "reqQ", "retryQ", "finishQ", "run", "taken", "kept"} |->
    CASE q = "mine" -> Cardinality({w \in Workers : mine[w] = r})
      [] q = "reqQ" -> Cardinality({i \in 1 .. Len(reqQ) : reqQ[i] = r})
      [] q = "retryQ" -> IF r \in retryQ THEN 1 ELSE 0
      [] q = "finishQ" -> Cardinality({i \in 1 .. Len(finishQ) : finishQ[i] = r})
      [] q = "run" -> IF running = r THEN 1 ELSE 0
      [] q = "taken" -> Cardinality({t \in Completers : taken[t] = r})
      [] q = "kept" -> Cardinality({t \in Completers : r \in completeQ[t]})]

\* No thread holds a request that was freed, and no two queues or threads hold the same
\* one: end_request frees what nobody else has a pointer to.
OneHolder == ~twice => \A r \in Requests :
    LET h == Holders(r) IN
    \A q \in DOMAIN h : /\ h[q] <= 1
                        /\ h[q] = 1 => ~IsFree(r) /\ \A p \in DOMAIN h \ {q} : h[p] = 0

\* The counter of a worker is what it has outstanding, though the workers' threads
\* increase it and the completion threads decrease it; and it stays within the I/O depth
\* (submit_req asserts (*req->ptr_nr_ios) <= iodepth).
CounterExact == ~twice => \A w \in Workers : /\ nrIos[w] = Cardinality(Outstanding(w))
                                             /\ nrIos[w] <= IoDepth

\* test_ycsb_f waits for its write, to make the read-modify-write atomic: when it goes on,
\* none of its requests is still in flight.
RmwAtomic == \A w \in RmwWorkers : pc[w] = "idle" => Outstanding(w) = {}

\* The same where no read was answered twice.
RmwAtomicOnce == ~twice => RmwAtomic

\* Every request that req_q accepted is ended, with rings that fill up and threads that
\* spin on them.  Which of the workers that spin on a full req_q gets in is left to chance.
Accepted(r) == ~IsFree(r) /\ \A w \in Workers : mine[w] # r

EventuallyEnded == \A r \in Requests : Accepted(r) ~> IsFree(r) \/ twice
=============================================================================
