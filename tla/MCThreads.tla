---- MODULE MCThreads ----
(***************************************************************************)
(* What lies between the threads of the test driver.  A behaviour runs one *)
(* part; the others stay in their initial state.                           *)
(*                                                                         *)
(*  "timed"   the timed queue of AlgoQueue, with a bound on the clock and   *)
(*            on the insertions                                            *)
(*  "endless" the same without them: only the distance of an etime from    *)
(*            the clock is kept, and no history                            *)
(*  "ring"    the ring that req_q is, with two producers and algo_thread   *)
(*            as its one consumer (RteRing)                                *)
(*  "deep"    Driver where the plain worker w1 runs alone, with an I/O     *)
(*            depth of two and memory for three requests                   *)
(*  "live"    Driver with w1 and the read-modify-write worker w2, two      *)
(*            requests, and the threads' fairness                          *)
(*  "absent"  Driver where w2 runs alone with two requests, one of whose   *)
(*            reads meets a mapping page that is nowhere                   *)
(*                                                                         *)
(* Driver has two completion threads and rings of one entry.  Its parts    *)
(* are behaviours of one instance, told apart by what workers do in them.  *)
(***************************************************************************)
EXTENDS Driver, AlgoQueue

CONSTANTS w1, w2,              \* the workers
          p1, p2, c1           \* the threads at the ring

VARIABLES part, prod, cons, ring, step, n, old, obj, seen, issued

ReqRing == INSTANCE RteRing
    WITH Producers <- {p1, p2}, Consumers <- {c1}, SP <- FALSE, SC <- TRUE, Size <- 2, Word <- 8,
         Bulk <- {1}, Starts <- {6}, MaxItems <- 4, pc <- step

ASSUME DriverAssumption /\ ReqRing!RteRingAssumption

ringVars == <<prod, cons, ring, step, n, old, obj, seen, issued>>

MCvars == <<part, queueVars, ringVars, vars>>

\* Times reach from 2 before the clock to MaxTime - 2 after it.
Here == 2
Late == 1
ASSUME Here <= MaxTime /\ Late < Here

MCInit == /\ part \in {"timed", "endless", "ring", "deep", "live", "absent"}
          /\ QueueInit /\ ReqRing!Init /\ Init
          \* No request was ever allocated: whose it was does not matter.
          /\ mem[1] = Freed(IF part = "absent" THEN w2 ELSE w1)

\* Who never runs in a part of Driver, how many requests have memory, and whether a read is
\* answered twice.
InPart == /\ part = "deep" => pc'[w2] = "idle" /\ ~twice'
          /\ part = "live" => mem'[3].type = "freed" /\ ~twice'
          /\ part = "absent" => pc'[w1] = "idle" /\ mem'[3].type = "freed"

Endless(A) == part = "endless" /\ A /\ UNCHANGED <<part, ringVars, vars>>
Ring(A)  == part = "ring" /\ A /\ UNCHANGED <<part, queueVars, vars>>
Live(A)  == part = "live" /\ A /\ InPart /\ UNCHANGED <<part, queueVars, ringVars>>

MCNext == /\ \/ part = "timed" /\ QueueNext /\ UNCHANGED <<ringVars, vars>>
             \/ part = "endless" /\ EndlessNext(Here, Late) /\ UNCHANGED <<ringVars, vars>>
             \/ part = "ring" /\ ReqRing!Next /\ UNCHANGED <<queueVars, vars>>
             \/ /\ part \in {"deep", "live", "absent"}
                /\ Next /\ InPart /\ UNCHANGED <<queueVars, ringVars>>
          /\ UNCHANGED part

\* Time passes and the owner of the queue polls it.  A thread inside a ring call keeps
\* running, and the consumer polls for ever.  Every thread of the driver runs: algo_thread
\* comes back to each of its queues, and what is parked or kept is due one day and then
\* served (EventuallyServed).
Fairness ==
    /\ WF_MCvars(Endless(now < Here /\ Tick)) /\ WF_MCvars(Endless(Passes(Here)))
    /\ WF_MCvars(Endless(Serve))
    /\ \A p \in {p1, p2} : WF_MCvars(Ring(ReqRing!Enqueue(p)))
    /\ WF_MCvars(Ring(ReqRing!Dequeue(c1)))
    /\ \A w \in Workers : WF_MCvars(Live(Worker(w)))
    /\ WF_MCvars(Live(algo_handler)) /\ SF_MCvars(Live(TakeNew))
    /\ \A r \in 1 .. 2 : SF_MCvars(Live(TakeParked(r)))
    /\ \A t \in Completers : /\ WF_MCvars(Live(process_cq_cpl(t)))
                             /\ \A r \in 1 .. 2 : SF_MCvars(Live(EndKept(t, r)))

MCSpec == MCInit /\ [][MCNext]_MCvars /\ Fairness

-----------------------------------------------------------------------------
\* A request parked in a timed queue is served, however many come after it and go ahead
\* (the loops of algo_thread).  The requests are interchangeable: one stands for all.
EventuallyServed ==
    LET r == CHOOSE e \in Payloads : TRUE
    IN  (part = "endless" /\ Queued(r)) ~> ~Queued(r)

\* What ring_count told algo_thread of is there when it dequeues.
CountedIsThere == ReqRing!CountedIsThere

\* What the ring took in comes out.
EventuallyDrained == ReqRing!Drained

\* Every request that req_q accepted is ended, with rings that fill up and threads that
\* spin on them (EventuallyEnded of Driver).  The requests are interchangeable: one stands
\* for all.
AcceptedEnds == (part = "live" /\ Accepted(1)) ~> (part = "live" /\ IsFree(1))
====
