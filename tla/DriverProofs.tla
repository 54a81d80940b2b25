---------------------------- MODULE DriverProofs ----------------------------
(***************************************************************************)
(* The driver of Driver, proved for every set of workers, requests and     *)
(* completion threads, every I/O depth and every size of the rings.        *)
(*                                                                         *)
(* A request is in one place at a time.  Every step either moves one       *)
(* request from one place to another, allocates one that nobody holds, or  *)
(* frees one that its thread alone holds; as long as no read is answered   *)
(* twice, this is inductive, and the counters follow from it.              *)
(***************************************************************************)
EXTENDS Driver, AlgoQueue, FiniteSetTheorems, TLAPS

Places == {"mine", "reqQ", "retryQ", "finishQ", "run", "taken", "kept"}

InSeq(s, x) == \E i \in 1 .. Len(s) : s[i] = x
Once(s) == \A i, j \in 1 .. Len(s) : s[i] = s[j] => i = j

\* Some holder of this kind has r.
At(k, r) == CASE k = "mine" -> \E w \in Workers : mine[w] = r
              [] k = "reqQ" -> InSeq(reqQ, r)
              [] k = "retryQ" -> r \in retryQ
              [] k = "finishQ" -> InSeq(finishQ, r)
              [] k = "run" -> running = r
              [] k = "taken" -> \E t \in Completers : taken[t] = r
              [] k = "kept" -> \E t \in Completers : r \in completeQ[t]

Locs == {"idle", "wait", "count", "enqueue", "drain"}

TypeOK ==
    /\ pc \in [Workers -> Locs]
    /\ mine \in [Workers -> Requests \cup {NoReq}]
    /\ turn \in [Workers -> {"read", "write"}]
    /\ nrIos \in [Workers -> Int]
    /\ mem \in [Requests -> [worker : Workers, type : {"read", "write", "freed"}]]
    /\ parks \in [Requests -> 0 .. MaxParks]
    /\ reqQ \in Seq(Requests) /\ retryQ \subseteq Requests /\ finishQ \in Seq(Requests)
    /\ running \in Requests \cup {NoReq} /\ todo \in 0 .. 2
    /\ taken \in [Completers -> Requests \cup {NoReq}]
    /\ completeQ \in [Completers -> SUBSET Requests]
    /\ twice \in BOOLEAN /\ aborted \in BOOLEAN
    /\ todo > 0 => running # NoReq
    /\ \A w \in Workers : mine[w] # NoReq <=> pc[w] \in {"wait", "count", "enqueue"}

\* A request that is not free has one kind of holder, a free one has none.
InOnePlace ==
    /\ \A r \in Requests, k, l \in Places : At(k, r) /\ At(l, r) => k = l
    /\ \A r \in Requests : ~IsFree(r) <=> \E k \in Places : At(k, r)

\* No two holders of one kind have the same request.
NoDoubles ==
    /\ \A w, v \in Workers : mine[w] = mine[v] /\ mine[w] # NoReq => w = v
    /\ Once(reqQ) /\ Once(finishQ)
    /\ \A s, t \in Completers : taken[s] = taken[t] /\ taken[s] # NoReq => s = t
    /\ \A s, t \in Completers : completeQ[s] \cap completeQ[t] # {} => s = t

\* What algo_thread has still to put on finish_q is the one answer.
OneAnswer == todo <= 1

HolderInv == TypeOK /\ (~twice => InOnePlace /\ NoDoubles /\ OneAnswer)

\* A prepared request names its worker, whose counter is what it has outstanding; between
\* reading the counter and increasing it there is room for one more.
CountInv(w) == /\ IsFiniteSet(Outstanding(w))
               /\ nrIos[w] = Cardinality(Outstanding(w))
               /\ nrIos[w] <= IoDepth
               /\ pc[w] = "count" => nrIos[w] < IoDepth

CounterInv ==
    /\ \A w \in Workers : mine[w] # NoReq => mem[mine[w]].worker = w
    /\ \A w \in Workers : CountInv(w)
    /\ RmwAtomic

DriverInv == HolderInv /\ (~twice => CounterInv)

-----------------------------------------------------------------------------

\* The driver starts in the state its variables' types describe.
LEMMA TypeInit == ASSUME DriverAssumption, Init PROVE TypeOK
<1>1. NoReq \notin Requests /\ MaxParks \in Nat
  BY DEF DriverAssumption, NoReq
<1>2. mem \in [Requests -> [worker : Workers, type : {"read", "write", "freed"}]]
  BY DEF Init, Freed
<1>3. <<>> \in Seq(Requests)
  OBVIOUS
<1>4. \A w \in Workers : mine[w] = NoReq /\ pc[w] = "idle"
  BY DEF Init
<1>5. /\ pc \in [Workers -> Locs] /\ mine \in [Workers -> Requests \cup {NoReq}]
      /\ turn \in [Workers -> {"read", "write"}] /\ nrIos \in [Workers -> Int]
      /\ parks \in [Requests -> 0 .. MaxParks]
      /\ taken \in [Completers -> Requests \cup {NoReq}]
      /\ completeQ \in [Completers -> SUBSET Requests]
  BY <1>1 DEF Init, Locs
<1>6. /\ reqQ \in Seq(Requests) /\ finishQ \in Seq(Requests) /\ retryQ \subseteq Requests
      /\ running \in Requests \cup {NoReq} /\ todo \in 0 .. 2 /\ ~(todo > 0)
  BY <1>3 DEF Init
<1>8. twice \in BOOLEAN /\ aborted \in BOOLEAN
  BY Zenon DEF Init
<1>7. \A w \in Workers : mine[w] # NoReq <=> pc[w] \in {"wait", "count", "enqueue"}
  BY <1>4
<1> QED BY <1>2, <1>3, <1>5, <1>6, <1>7, <1>8 DEF TypeOK

\* The record of a request keeps its fields when end_request marks it freed.
LEMMA EndType ==
    ASSUME TypeOK, NEW r \in Requests, end_request(r)
    PROVE  /\ mem' \in [Requests -> [worker : Workers, type : {"read", "write", "freed"}]]
           /\ nrIos' \in [Workers -> Int] /\ aborted' \in BOOLEAN
           /\ mem[r].worker \in Workers
           /\ mem'[r].worker = mem[r].worker /\ mem'[r].type = "freed"
           /\ \A x \in Requests : x # r => mem'[x] = mem[x]
<1>1. mem[r] \in [worker : Workers, type : {"read", "write", "freed"}]
  BY DEF TypeOK
<1>2. [mem[r] EXCEPT !.type = "freed"] \in [worker : Workers, type : {"read", "write", "freed"}]
      /\ [mem[r] EXCEPT !.type = "freed"].worker = mem[r].worker
      /\ [mem[r] EXCEPT !.type = "freed"].type = "freed"
  BY <1>1
<1>3. mem' = [mem EXCEPT ![r] = [mem[r] EXCEPT !.type = "freed"]]
  BY DEF end_request
<1>4. \A w \in Workers : nrIos[w] - 1 \in Int
  BY DEF TypeOK
<1>5. nrIos' \in [Workers -> Int]
  BY <1>1, <1>4 DEF end_request, TypeOK
<1>6. mem' \in [Requests -> [worker : Workers, type : {"read", "write", "freed"}]]
  BY <1>1, <1>2, <1>3 DEF TypeOK
<1> QED BY <1>1, <1>2, <1>3, <1>5, <1>6 DEF end_request, TypeOK

\* Each step of a thread of the driver keeps the types.
LEMMA TypeStep ==
    ASSUME DriverAssumption, TypeOK, [Next]_vars PROVE TypeOK'
<1>0. NoReq \notin Requests /\ MaxParks \in Nat
  BY DEF DriverAssumption, NoReq
<1>1. ASSUME NEW w \in Workers, NEW r \in Requests, NEW type \in {"read", "write"},
             Allocate(w, r, type)
      PROVE  TypeOK'
  BY <1>0, <1>1 DEF TypeOK, Locs, Allocate, cplVars
<1>2. ASSUME NEW w \in Workers, Worker(w) PROVE TypeOK'
  <2>1. CASE SeeRoom(w)
    BY <2>1 DEF TypeOK, Locs, SeeRoom, algoVars, cplVars
  <2>2. CASE CountIo(w)
    BY <2>2 DEF TypeOK, Locs, CountIo, algoVars, cplVars
  <2>3. CASE Enqueue(w)
    BY <2>3 DEF TypeOK, Locs, Enqueue, algoVars, cplVars
  <2>4. CASE Drained(w)
    BY <2>4 DEF TypeOK, Locs, Drained, algoVars, cplVars
  <2> QED BY <1>2, <2>1, <2>2, <2>3, <2>4 DEF Worker
<1>3. CASE TakeNew
  <2>1. Head(reqQ) \in Requests /\ Tail(reqQ) \in Seq(Requests)
    BY <1>3 DEF TakeNew, TypeOK
  <2> QED BY <1>0, <1>3, <2>1 DEF TypeOK, TakeNew, Take, workerVars, cplVars
<1>4. ASSUME NEW r \in Requests, TakeParked(r) PROVE TypeOK'
  BY <1>0, <1>4 DEF TypeOK, TakeParked, Take, workerVars, cplVars
<1>5. CASE algo_handler
  <2>1. CASE Answers
    BY <2>1 DEF TypeOK, Answers, Handled, workerVars, cplVars
  <2>2. CASE Parks
    BY <1>0, <2>2 DEF TypeOK, Parks, Handled, workerVars, cplVars
  <2>3. CASE AnswersTwice
    BY <2>3 DEF TypeOK, AnswersTwice, Handled, workerVars, cplVars
  <2>4. CASE Finish
    BY <1>0, <2>4 DEF TypeOK, Finish, workerVars, cplVars
  <2> QED BY <1>5, <2>1, <2>2, <2>3, <2>4 DEF algo_handler
<1>6. ASSUME NEW t \in Completers, process_cq_cpl(t) PROVE TypeOK'
  <2>1. CASE Dequeue(t)
    <3>1. Head(finishQ) \in Requests /\ Tail(finishQ) \in Seq(Requests)
      BY <2>1 DEF Dequeue, TypeOK
    <3> QED BY <2>1, <3>1 DEF TypeOK, Dequeue, workerVars, algoVars
  <2>2. CASE Keep(t)
    BY <2>2 DEF TypeOK, Keep, workerVars, algoVars
  <2>3. CASE EndTaken(t)
    <3>1. taken[t] \in Requests /\ end_request(taken[t])
      BY <2>3 DEF EndTaken, TypeOK
    <3> QED BY <2>3, <3>1, EndType DEF TypeOK, EndTaken, workerVars, algoVars
  <2> QED BY <1>6, <2>1, <2>2, <2>3 DEF process_cq_cpl
<1>7. ASSUME NEW t \in Completers, NEW r \in Requests, EndKept(t, r) PROVE TypeOK'
  <2>1. end_request(r)
    BY <1>7 DEF EndKept
  <2> QED BY <1>7, <2>1, EndType DEF TypeOK, EndKept, workerVars, algoVars
<1>8. CASE UNCHANGED vars
  BY <1>8 DEF TypeOK, vars, workerVars, algoVars, cplVars
<1> QED BY <1>1, <1>2, <1>3, <1>4, <1>5, <1>6, <1>7, <1>8 DEF Next

-----------------------------------------------------------------------------

\* What a queue holds after an append, and that it still holds each request once.
LEMMA AppendIn ==
    ASSUME NEW S, NEW s \in Seq(S), NEW e \in S
    PROVE  /\ \A x : InSeq(Append(s, e), x) <=> InSeq(s, x) \/ x = e
           /\ Once(s) /\ ~InSeq(s, e) => Once(Append(s, e))
<1> DEFINE a == Append(s, e)
<1>1. /\ Len(s) \in Nat /\ a \in Seq(S) /\ Len(a) = Len(s) + 1
      /\ \A i \in 1 .. Len(s) : a[i] = s[i]
      /\ a[Len(s) + 1] = e
  OBVIOUS
<1> HIDE DEF a
<1>2. ASSUME NEW x PROVE InSeq(a, x) <=> InSeq(s, x) \/ x = e
  <2>1. ASSUME InSeq(a, x), x # e PROVE InSeq(s, x)
    <3>1. PICK i \in 1 .. Len(a) : a[i] = x
      BY <2>1 DEF InSeq
    <3>2. i \in 1 .. Len(s)
      BY <2>1, <3>1, <1>1
    <3> QED BY <3>1, <3>2, <1>1 DEF InSeq
  <2>2. ASSUME InSeq(s, x) PROVE InSeq(a, x)
    <3>1. PICK i \in 1 .. Len(s) : s[i] = x
      BY <2>2 DEF InSeq
    <3>2. i \in 1 .. Len(a) /\ a[i] = x
      BY <3>1, <1>1
    <3> QED BY <3>2 DEF InSeq
  <2>3. InSeq(a, e)
    <3>1. Len(s) + 1 \in 1 .. Len(a)
      BY <1>1
    <3> QED BY <3>1, <1>1 DEF InSeq
  <2> QED BY <2>1, <2>2, <2>3
<1>3. ASSUME Once(s), ~InSeq(s, e), NEW i \in 1 .. Len(a), NEW j \in 1 .. Len(a), a[i] = a[j]
      PROVE  i = j
  <2>1. \A k \in 1 .. Len(a) : k \in 1 .. Len(s) \/ k = Len(s) + 1
    BY <1>1
  <2>2. \A k \in 1 .. Len(s) : a[k] # e
    BY <1>1, <1>3 DEF InSeq
  <2> QED BY <1>1, <1>3, <2>1, <2>2 DEF Once
<1> QED BY <1>2, <1>3 DEF Once, a

\* What a queue holds after its first request was taken.
LEMMA TailIn ==
    ASSUME NEW S, NEW s \in Seq(S), s # <<>>, Once(s)
    PROVE  /\ \A x : InSeq(Tail(s), x) <=> InSeq(s, x) /\ x # Head(s)
           /\ Once(Tail(s)) /\ InSeq(s, Head(s)) /\ Head(s) \in S
<1> DEFINE a == Tail(s)
<1>1. /\ Len(s) \in Nat /\ Len(s) >= 1 /\ a \in Seq(S) /\ Len(a) = Len(s) - 1
      /\ \A i \in 1 .. Len(a) : a[i] = s[i + 1]
      /\ Head(s) = s[1] /\ s[1] \in S
  OBVIOUS
<1> HIDE DEF a
<1>2. ASSUME NEW x PROVE InSeq(a, x) <=> InSeq(s, x) /\ x # Head(s)
  <2>1. ASSUME InSeq(a, x) PROVE InSeq(s, x) /\ x # Head(s)
    <3>1. PICK i \in 1 .. Len(a) : a[i] = x
      BY <2>1 DEF InSeq
    <3>2. i + 1 \in 1 .. Len(s) /\ 1 \in 1 .. Len(s) /\ i + 1 # 1 /\ s[i + 1] = x
      BY <3>1, <1>1
    <3> QED BY <3>2, <1>1 DEF InSeq, Once
  <2>2. ASSUME InSeq(s, x), x # Head(s) PROVE InSeq(a, x)
    <3>1. PICK i \in 1 .. Len(s) : s[i] = x
      BY <2>2 DEF InSeq
    <3>2. i - 1 \in 1 .. Len(a) /\ i - 1 + 1 = i
      BY <2>2, <3>1, <1>1
    <3> QED BY <3>1, <3>2, <1>1 DEF InSeq
  <2> QED BY <2>1, <2>2
<1>3. ASSUME NEW i \in 1 .. Len(a), NEW j \in 1 .. Len(a), a[i] = a[j] PROVE i = j
  <2>1. i + 1 \in 1 .. Len(s) /\ j + 1 \in 1 .. Len(s) /\ s[i + 1] = s[j + 1]
    BY <1>1, <1>3
  <2>2. i + 1 = j + 1
    BY <2>1 DEF Once
  <2> QED BY <2>2
<1>4. InSeq(s, Head(s))
  <2>1. 1 \in 1 .. Len(s)
    BY <1>1
  <2> QED BY <2>1, <1>1 DEF InSeq
<1> QED BY <1>1, <1>2, <1>3, <1>4 DEF Once, a

-----------------------------------------------------------------------------
\* After the step r is in place b alone, and nothing else has moved.
Moved(r, b) == \A x \in Requests, k \in Places :
                   At(k, x)' <=> IF x = r THEN k = b ELSE At(k, x)

\* After the step nobody holds r.
LetGo(r) == \A x \in Requests, k \in Places : At(k, x)' <=> x # r /\ At(k, x)

\* A step that moves one request into one place keeps every request in one place.
LEMMA MovedKeeps ==
    ASSUME InOnePlace, NEW r \in Requests, NEW b \in Places, Moved(r, b), ~IsFree(r)',
           \A x \in Requests : x # r => (IsFree(x)' <=> IsFree(x))
    PROVE  InOnePlace'
BY DEF InOnePlace, Moved

\* A step that frees a request no place keeps holds the others where they are.
LEMMA LetGoKeeps ==
    ASSUME InOnePlace, NEW r \in Requests, LetGo(r), IsFree(r)',
           \A x \in Requests : x # r => (IsFree(x)' <=> IsFree(x))
    PROVE  InOnePlace'
BY DEF InOnePlace, LetGo

\* A step that moves no request and frees none keeps them where they are.
LEMMA StaysKeeps ==
    ASSUME InOnePlace, \A x \in Requests, k \in Places : At(k, x)' <=> At(k, x),
           \A x \in Requests : IsFree(x)' <=> IsFree(x)
    PROVE  InOnePlace'
BY DEF InOnePlace

-----------------------------------------------------------------------------
(***************************************************************************)
(* Each step that keeps ~twice moves, allocates or frees one request.      *)
(***************************************************************************)
LEMMA AllocateHolds ==
    ASSUME DriverAssumption, TypeOK, InOnePlace, NoDoubles,
           NEW w \in Workers, NEW r \in Requests, NEW type \in {"read", "write"},
           Allocate(w, r, type)
    PROVE  InOnePlace' /\ NoDoubles'
<1>1. /\ mine' = [mine EXCEPT ![w] = r] /\ mine[w] = NoReq
      /\ UNCHANGED <<reqQ, retryQ, finishQ, running, taken, completeQ>>
  BY DEF Allocate, cplVars, TypeOK
<1>2. /\ ~IsFree(r)' /\ IsFree(r)
      /\ \A x \in Requests : x # r => (IsFree(x)' <=> IsFree(x))
  BY DEF Allocate, IsFree, TypeOK
<1>3. \A k \in Places : ~At(k, r)
  BY <1>2 DEF InOnePlace
<1>4. NoReq \notin Requests
  BY DEF DriverAssumption, NoReq
<1>5. \A x \in Requests : At("mine", x)' <=> x = r \/ At("mine", x)
  BY <1>1, <1>4 DEF At, TypeOK
<1>6. \A x \in Requests, k \in Places \ {"mine"} : At(k, x)' <=> At(k, x)
  BY <1>1 DEF At, Places
<1>7. Moved(r, "mine")
  BY <1>3, <1>5, <1>6 DEF Moved, Places
<1>8. NoDoubles'
  <2>1. \A v \in Workers : mine[v] # r
    BY <1>3 DEF At, Places
  <2> QED BY <2>1, <1>1 DEF NoDoubles, TypeOK, Once
<1> QED BY <1>2, <1>7, <1>8, MovedKeeps DEF Places

\* A worker puts its request into req_q.
LEMMA EnqueueHolds ==
    ASSUME DriverAssumption, TypeOK, InOnePlace, NoDoubles, NEW w \in Workers, Enqueue(w)
    PROVE  InOnePlace' /\ NoDoubles'
<1>0. PICK r \in Requests : r = mine[w]
  BY DEF Enqueue, TypeOK
<1>1. /\ reqQ' = Append(reqQ, r) /\ mine' = [mine EXCEPT ![w] = NoReq]
      /\ UNCHANGED <<retryQ, finishQ, running, taken, completeQ, mem>>
  BY <1>0 DEF Enqueue, algoVars, cplVars
<1>2. NoReq \notin Requests /\ reqQ \in Seq(Requests)
  BY DEF DriverAssumption, NoReq, TypeOK
<1>3. At("mine", r)
  BY <1>0 DEF At
<1>4. \A k \in Places : At(k, r) => k = "mine"
  BY <1>2, <1>3 DEF InOnePlace, Places
<1>5. ~InSeq(reqQ, r)
  BY <1>4 DEF At, Places
<1>6. \A x : InSeq(reqQ', x) <=> InSeq(reqQ, x) \/ x = r
  BY <1>1, <1>2, AppendIn
<1>7. Once(reqQ')
  BY <1>1, <1>2, <1>5, AppendIn DEF NoDoubles
<1>8. \A x \in Requests : At("mine", x)' <=> x # r /\ At("mine", x)
  BY <1>0, <1>1, <1>2 DEF At, TypeOK, NoDoubles
<1>9. \A x \in Requests : At("reqQ", x)' <=> x = r \/ At("reqQ", x)
  BY <1>6 DEF At, InSeq
<1>10. \A x \in Requests, k \in Places \ {"mine", "reqQ"} : At(k, x)' <=> At(k, x)
  BY <1>1 DEF At, Places, InSeq
<1>11. Moved(r, "reqQ")
  BY <1>4, <1>8, <1>9, <1>10 DEF Moved, Places
<1>12. ~IsFree(r)' /\ \A x \in Requests : IsFree(x)' <=> IsFree(x)
  BY <1>1, <1>2, <1>3 DEF IsFree, InOnePlace, Places
<1>13. NoDoubles'
  <2>1. Once(finishQ)' /\ Once(reqQ)'
    BY <1>1, <1>7 DEF NoDoubles, Once
  <2>2. \A u, v \in Workers : mine'[u] = mine'[v] /\ mine'[u] # NoReq => u = v
    BY <1>1 DEF NoDoubles, TypeOK
  <2> QED BY <1>1, <2>1, <2>2 DEF NoDoubles
<1> QED BY <1>2, <1>11, <1>12, <1>13, MovedKeeps DEF Places

\* algo_thread takes a request from req_q.
LEMMA TakeNewHolds ==
    ASSUME DriverAssumption, TypeOK, InOnePlace, NoDoubles, TakeNew
    PROVE  InOnePlace' /\ NoDoubles'
<1>0. NoReq \notin Requests /\ reqQ \in Seq(Requests) /\ reqQ # <<>> /\ Once(reqQ)
  BY DEF DriverAssumption, NoReq, TypeOK, TakeNew, NoDoubles
<1>1. PICK r \in Requests : r = Head(reqQ) /\ InSeq(reqQ, r)
  BY <1>0, TailIn
<1>2. /\ reqQ' = Tail(reqQ) /\ running' = r /\ running = NoReq
      /\ UNCHANGED <<mine, retryQ, finishQ, taken, completeQ, mem>>
  BY <1>1 DEF TakeNew, Take, workerVars, cplVars
<1>3. At("reqQ", r)
  BY <1>1 DEF At
<1>4. \A k \in Places : At(k, r) => k = "reqQ"
  BY <1>3 DEF InOnePlace, Places
<1>5. (\A x : InSeq(reqQ', x) <=> InSeq(reqQ, x) /\ x # r) /\ Once(reqQ')
  BY <1>0, <1>1, <1>2, TailIn
<1>6. \A x \in Requests : At("reqQ", x)' <=> x # r /\ At("reqQ", x)
  BY <1>5 DEF At, InSeq
<1>7. \A x \in Requests : At("run", x)' <=> x = r \/ At("run", x)
  BY <1>0, <1>2 DEF At
<1>8. \A x \in Requests, k \in Places \ {"reqQ", "run"} : At(k, x)' <=> At(k, x)
  BY <1>2 DEF At, Places, InSeq
<1>9. Moved(r, "run")
  BY <1>4, <1>6, <1>7, <1>8 DEF Moved, Places
<1>10. ~IsFree(r)' /\ \A x \in Requests : IsFree(x)' <=> IsFree(x)
  BY <1>2, <1>3 DEF IsFree, InOnePlace, Places
<1>11. NoDoubles'
  <2>1. Once(finishQ)' /\ Once(reqQ)'
    BY <1>2, <1>5 DEF NoDoubles, Once
  <2> QED BY <1>2, <2>1 DEF NoDoubles
<1> QED BY <1>9, <1>10, <1>11, MovedKeeps DEF Places

\* algo_thread takes a request from the retry queue.
LEMMA TakeParkedHolds ==
    ASSUME DriverAssumption, TypeOK, InOnePlace, NoDoubles, NEW r \in Requests, TakeParked(r)
    PROVE  InOnePlace' /\ NoDoubles'
<1>1. /\ r \in retryQ /\ retryQ' = retryQ \ {r} /\ running' = r /\ running = NoReq
      /\ UNCHANGED <<mine, reqQ, finishQ, taken, completeQ, mem>>
  BY DEF TakeParked, Take, workerVars, cplVars
<1>2. At("retryQ", r) /\ NoReq \notin Requests
  BY <1>1 DEF At, DriverAssumption, NoReq
<1>3. \A k \in Places : At(k, r) => k = "retryQ"
  BY <1>2 DEF InOnePlace, Places
<1>4. \A x \in Requests : /\ At("retryQ", x)' <=> x # r /\ At("retryQ", x)
                          /\ At("run", x)' <=> x = r \/ At("run", x)
  BY <1>1, <1>2 DEF At
<1>5. \A x \in Requests, k \in Places \ {"retryQ", "run"} : At(k, x)' <=> At(k, x)
  BY <1>1 DEF At, Places, InSeq
<1>6. Moved(r, "run")
  BY <1>3, <1>4, <1>5 DEF Moved, Places
<1>7. ~IsFree(r)' /\ \A x \in Requests : IsFree(x)' <=> IsFree(x)
  BY <1>1, <1>2 DEF IsFree, InOnePlace, Places
<1>8. NoDoubles'
  BY <1>1 DEF NoDoubles, Once
<1> QED BY <1>6, <1>7, <1>8, MovedKeeps DEF Places

\* The algorithm parks the request to have it retried.
LEMMA ParksHolds ==
    ASSUME DriverAssumption, TypeOK, InOnePlace, NoDoubles, Parks
    PROVE  InOnePlace' /\ NoDoubles'
<1>0. PICK r \in Requests : r = running
  BY DEF Parks, Handled, TypeOK
<1>1. /\ retryQ' = retryQ \cup {r} /\ running' = NoReq
      /\ UNCHANGED <<mine, reqQ, finishQ, taken, completeQ, mem>>
  BY <1>0 DEF Parks, Handled, workerVars, cplVars
<1>2. At("run", r) /\ NoReq \notin Requests
  BY <1>0 DEF At, DriverAssumption, NoReq
<1>3. \A k \in Places : At(k, r) => k = "run"
  BY <1>2 DEF InOnePlace, Places
<1>4. \A x \in Requests : /\ At("run", x)' <=> x # r /\ At("run", x)
                          /\ At("retryQ", x)' <=> x = r \/ At("retryQ", x)
  BY <1>0, <1>1, <1>2 DEF At
<1>5. \A x \in Requests, k \in Places \ {"retryQ", "run"} : At(k, x)' <=> At(k, x)
  BY <1>1 DEF At, Places, InSeq
<1>6. Moved(r, "retryQ")
  BY <1>3, <1>4, <1>5 DEF Moved, Places
<1>7. ~IsFree(r)' /\ \A x \in Requests : IsFree(x)' <=> IsFree(x)
  BY <1>1, <1>2 DEF IsFree, InOnePlace, Places
<1>8. NoDoubles'
  BY <1>1 DEF NoDoubles, Once
<1> QED BY <1>6, <1>7, <1>8, MovedKeeps DEF Places

\* The algorithm ends the request: it goes to finish_q.
LEMMA FinishHolds ==
    ASSUME DriverAssumption, TypeOK, InOnePlace, NoDoubles, OneAnswer, Finish
    PROVE  InOnePlace' /\ NoDoubles' /\ OneAnswer'
<1>0. PICK r \in Requests : r = running
  BY DEF Finish, TypeOK
<1>1. /\ finishQ' = Append(finishQ, r) /\ running' = NoReq /\ todo' = 0
      /\ UNCHANGED <<mine, reqQ, retryQ, taken, completeQ, mem>>
  BY <1>0 DEF Finish, workerVars, cplVars, OneAnswer, TypeOK
<1>2. At("run", r) /\ NoReq \notin Requests /\ finishQ \in Seq(Requests)
  BY <1>0 DEF At, DriverAssumption, NoReq, TypeOK
<1>3. \A k \in Places : At(k, r) => k = "run"
  BY <1>2 DEF InOnePlace, Places
<1>4. ~InSeq(finishQ, r)
  BY <1>3 DEF At, Places
<1>5. (\A x : InSeq(finishQ', x) <=> InSeq(finishQ, x) \/ x = r) /\ Once(finishQ')
  BY <1>1, <1>2, <1>4, AppendIn DEF NoDoubles
<1>6. \A x \in Requests : At("run", x)' <=> x # r /\ At("run", x)
  BY <1>0, <1>1, <1>2 DEF At
<1>7. \A x \in Requests : At("finishQ", x)' <=> x = r \/ At("finishQ", x)
  BY <1>5 DEF At, InSeq
<1>8. \A x \in Requests, k \in Places \ {"finishQ", "run"} : At(k, x)' <=> At(k, x)
  BY <1>1 DEF At, Places, InSeq
<1>9. Moved(r, "finishQ")
  BY <1>3, <1>6, <1>7, <1>8 DEF Moved, Places
<1>10. ~IsFree(r)' /\ \A x \in Requests : IsFree(x)' <=> IsFree(x)
  BY <1>1, <1>2 DEF IsFree, InOnePlace, Places
<1>11. NoDoubles'
  <2>1. Once(finishQ)' /\ Once(reqQ)'
    BY <1>1, <1>5 DEF NoDoubles, Once
  <2> QED BY <1>1, <2>1 DEF NoDoubles
<1>12. OneAnswer'
  BY <1>1 DEF OneAnswer
<1> QED BY <1>9, <1>10, <1>11, <1>12, MovedKeeps DEF Places

\* A completion thread takes a request from finish_q.
LEMMA DequeueHolds ==
    ASSUME DriverAssumption, TypeOK, InOnePlace, NoDoubles, NEW t \in Completers, Dequeue(t)
    PROVE  InOnePlace' /\ NoDoubles'
<1>0. NoReq \notin Requests /\ finishQ \in Seq(Requests) /\ finishQ # <<>> /\ Once(finishQ)
  BY DEF DriverAssumption, NoReq, TypeOK, Dequeue, NoDoubles
<1>1. PICK r \in Requests : r = Head(finishQ) /\ InSeq(finishQ, r)
  BY <1>0, TailIn
<1>2. /\ finishQ' = Tail(finishQ) /\ taken' = [taken EXCEPT ![t] = r] /\ taken[t] = NoReq
      /\ UNCHANGED <<mine, reqQ, retryQ, running, completeQ, mem>>
  BY <1>1 DEF Dequeue, workerVars, algoVars
<1>3. At("finishQ", r)
  BY <1>1 DEF At
<1>4. \A k \in Places : At(k, r) => k = "finishQ"
  BY <1>3 DEF InOnePlace, Places
<1>5. (\A x : InSeq(finishQ', x) <=> InSeq(finishQ, x) /\ x # r) /\ Once(finishQ')
  BY <1>0, <1>1, <1>2, TailIn
<1>6. \A x \in Requests : At("finishQ", x)' <=> x # r /\ At("finishQ", x)
  BY <1>5 DEF At, InSeq
<1>7. \A x \in Requests : At("taken", x)' <=> x = r \/ At("taken", x)
  BY <1>0, <1>2 DEF At, TypeOK
<1>8. \A x \in Requests, k \in Places \ {"finishQ", "taken"} : At(k, x)' <=> At(k, x)
  BY <1>2 DEF At, Places, InSeq
<1>9. Moved(r, "taken")
  BY <1>4, <1>6, <1>7, <1>8 DEF Moved, Places
<1>10. ~IsFree(r)' /\ \A x \in Requests : IsFree(x)' <=> IsFree(x)
  BY <1>2, <1>3 DEF IsFree, InOnePlace, Places
<1>11. NoDoubles'
  <2>1. Once(finishQ)' /\ Once(reqQ)'
    BY <1>2, <1>5 DEF NoDoubles, Once
  <2>2. \A s \in Completers : taken[s] # r
    BY <1>4 DEF At, Places
  <2>3. \A u, s \in Completers : taken'[u] = taken'[s] /\ taken'[u] # NoReq => u = s
    BY <1>2, <2>2 DEF NoDoubles, TypeOK
  <2> QED BY <1>2, <2>1, <2>3 DEF NoDoubles
<1> QED BY <1>9, <1>10, <1>11, MovedKeeps DEF Places

\* A completion thread keeps a request whose end time has not come.
LEMMA KeepHolds ==
    ASSUME DriverAssumption, TypeOK, InOnePlace, NoDoubles, NEW t \in Completers, Keep(t)
    PROVE  InOnePlace' /\ NoDoubles'
<1>0. PICK r \in Requests : r = taken[t]
  BY DEF Keep, TypeOK
<1>1. /\ completeQ' = [completeQ EXCEPT ![t] = @ \cup {r}]
      /\ taken' = [taken EXCEPT ![t] = NoReq]
      /\ UNCHANGED <<mine, reqQ, retryQ, running, finishQ, mem>>
  BY <1>0 DEF Keep, workerVars, algoVars
<1>2. At("taken", r) /\ NoReq \notin Requests
  BY <1>0 DEF At, DriverAssumption, NoReq
<1>3. \A k \in Places : At(k, r) => k = "taken"
  BY <1>2 DEF InOnePlace, Places
<1>4. \A x \in Requests : At("taken", x)' <=> x # r /\ At("taken", x)
  BY <1>0, <1>1, <1>2 DEF At, TypeOK, NoDoubles
<1>5. \A x \in Requests : At("kept", x)' <=> x = r \/ At("kept", x)
  BY <1>1 DEF At, TypeOK
<1>6. \A x \in Requests, k \in Places \ {"taken", "kept"} : At(k, x)' <=> At(k, x)
  BY <1>1 DEF At, Places, InSeq
<1>7. Moved(r, "kept")
  BY <1>3, <1>4, <1>5, <1>6 DEF Moved, Places
<1>8. ~IsFree(r)' /\ \A x \in Requests : IsFree(x)' <=> IsFree(x)
  BY <1>1, <1>2 DEF IsFree, InOnePlace, Places
<1>9. NoDoubles'
  <2>1. Once(finishQ)' /\ Once(reqQ)'
    BY <1>1 DEF NoDoubles, Once
  <2>2. \A s \in Completers : r \notin completeQ[s]
    BY <1>3 DEF At, Places
  <2>3. \A u, s \in Completers : completeQ'[u] \cap completeQ'[s] # {} => u = s
    BY <1>1, <2>2 DEF NoDoubles, TypeOK
  <2>4. \A u, s \in Completers : taken'[u] = taken'[s] /\ taken'[u] # NoReq => u = s
    BY <1>1 DEF NoDoubles, TypeOK
  <2> QED BY <1>1, <2>1, <2>3, <2>4 DEF NoDoubles
<1> QED BY <1>7, <1>8, <1>9, MovedKeeps DEF Places

\* A completion thread ends the request it just took.
LEMMA EndTakenHolds ==
    ASSUME DriverAssumption, TypeOK, InOnePlace, NoDoubles, NEW t \in Completers, EndTaken(t)
    PROVE  InOnePlace' /\ NoDoubles'
<1>0. PICK r \in Requests : r = taken[t]
  BY DEF EndTaken, TypeOK
<1>1. /\ taken' = [taken EXCEPT ![t] = NoReq] /\ end_request(r)
      /\ UNCHANGED <<mine, reqQ, retryQ, running, finishQ, completeQ>>
  BY <1>0 DEF EndTaken, workerVars, algoVars
<1>2. At("taken", r) /\ NoReq \notin Requests
  BY <1>0 DEF At, DriverAssumption, NoReq
<1>3. \A k \in Places : At(k, r) => k = "taken"
  BY <1>2 DEF InOnePlace, Places
<1>4. \A x \in Requests : At("taken", x)' <=> x # r /\ At("taken", x)
  BY <1>0, <1>1, <1>2 DEF At, TypeOK, NoDoubles
<1>5. \A x \in Requests, k \in Places \ {"taken"} : At(k, x)' <=> At(k, x)
  BY <1>1 DEF At, Places, InSeq
<1>6. LetGo(r)
  BY <1>3, <1>4, <1>5 DEF LetGo, Places
<1>7. IsFree(r)' /\ \A x \in Requests : x # r => (IsFree(x)' <=> IsFree(x))
  BY <1>1, EndType DEF IsFree
<1>8. NoDoubles'
  <2>1. Once(finishQ)' /\ Once(reqQ)'
    BY <1>1 DEF NoDoubles, Once
  <2>2. \A u, s \in Completers : taken'[u] = taken'[s] /\ taken'[u] # NoReq => u = s
    BY <1>1 DEF NoDoubles, TypeOK
  <2> QED BY <1>1, <2>1, <2>2 DEF NoDoubles
<1> QED BY <1>6, <1>7, <1>8, LetGoKeeps

\* A completion thread ends a request it kept.
LEMMA EndKeptHolds ==
    ASSUME DriverAssumption, TypeOK, InOnePlace, NoDoubles,
           NEW t \in Completers, NEW r \in Requests, EndKept(t, r)
    PROVE  InOnePlace' /\ NoDoubles'
<1>1. /\ r \in completeQ[t] /\ completeQ' = [completeQ EXCEPT ![t] = @ \ {r}] /\ end_request(r)
      /\ UNCHANGED <<mine, reqQ, retryQ, running, finishQ, taken>>
  BY DEF EndKept, workerVars, algoVars
<1>2. At("kept", r)
  BY <1>1 DEF At
<1>3. \A k \in Places : At(k, r) => k = "kept"
  BY <1>2 DEF InOnePlace, Places
<1>4. \A s \in Completers : r \in completeQ[s] => s = t
  BY <1>1 DEF NoDoubles
<1>5. \A x \in Requests : At("kept", x)' <=> x # r /\ At("kept", x)
  BY <1>1, <1>4 DEF At, TypeOK
<1>6. \A x \in Requests, k \in Places \ {"kept"} : At(k, x)' <=> At(k, x)
  BY <1>1 DEF At, Places, InSeq
<1>7. LetGo(r)
  BY <1>3, <1>5, <1>6 DEF LetGo, Places
<1>8. IsFree(r)' /\ \A x \in Requests : x # r => (IsFree(x)' <=> IsFree(x))
  BY <1>1, EndType DEF IsFree
<1>9. NoDoubles'
  <2>1. Once(finishQ)' /\ Once(reqQ)'
    BY <1>1 DEF NoDoubles, Once
  <2>2. \A u, s \in Completers : completeQ'[u] \cap completeQ'[s] # {} => u = s
    BY <1>1 DEF NoDoubles, TypeOK
  <2> QED BY <1>1, <2>1, <2>2 DEF NoDoubles
<1> QED BY <1>7, <1>8, <1>9, LetGoKeeps

\* A step that neither moves nor frees a request.
LEMMA StillHolds ==
    ASSUME TypeOK, InOnePlace, NoDoubles,
           UNCHANGED <<mine, reqQ, retryQ, finishQ, running, taken, completeQ, mem>>
    PROVE  InOnePlace' /\ NoDoubles'
<1>1. \A x \in Requests, k \in Places : At(k, x)' <=> At(k, x)
  BY DEF At, Places, InSeq
<1>2. \A x \in Requests : IsFree(x)' <=> IsFree(x)
  BY DEF IsFree
<1>3. NoDoubles'
  BY DEF NoDoubles, Once
<1> QED BY <1>1, <1>2, <1>3, StaysKeeps

\* At the start every request is free and no place holds one.
LEMMA HolderInit == ASSUME DriverAssumption, Init PROVE HolderInv
<1>1. TypeOK
  BY TypeInit
<1>2. NoReq \notin Requests
  BY DEF DriverAssumption, NoReq
<1>3. \A r \in Requests : IsFree(r)
  BY DEF Init, Freed, IsFree
<1>4. \A r \in Requests, k \in Places : ~At(k, r)
  <2> SUFFICES ASSUME NEW r \in Requests, NEW k \in Places, At(k, r) PROVE FALSE
    OBVIOUS
  <2>1. Len(reqQ) = 0 /\ Len(finishQ) = 0
    BY DEF Init
  <2>2. /\ \A w \in Workers : mine[w] = NoReq
        /\ retryQ = {} /\ running = NoReq
        /\ \A t \in Completers : taken[t] = NoReq /\ completeQ[t] = {}
    BY DEF Init
  <2>3. ~InSeq(reqQ, r) /\ ~InSeq(finishQ, r)
    BY <2>1 DEF InSeq
  <2> QED BY <1>2, <2>2, <2>3 DEF At, Places
<1>5. InOnePlace
  BY <1>3, <1>4 DEF InOnePlace
<1>6. NoDoubles
  <2>1. Len(reqQ) = 0 /\ Len(finishQ) = 0
    BY DEF Init
  <2>2. Once(reqQ) /\ Once(finishQ)
    BY <2>1 DEF Once
  <2> QED BY <2>2 DEF Init, NoDoubles
<1>7. OneAnswer
  BY DEF Init, OneAnswer
<1> QED BY <1>1, <1>5, <1>6, <1>7 DEF HolderInv

\* No step of the driver puts a request into a second place.
LEMMA HolderStep ==
    ASSUME DriverAssumption, HolderInv, [Next]_vars PROVE HolderInv'
<1>1. TypeOK /\ TypeOK'
  BY TypeStep DEF HolderInv
<1> SUFFICES ASSUME ~twice' PROVE InOnePlace' /\ NoDoubles' /\ OneAnswer'
  BY <1>1 DEF HolderInv
<1>2. ~twice
  BY <1>1 DEF Next, Allocate, Worker, SeeRoom, CountIo, Enqueue, Drained, TakeNew, TakeParked,
              Take, algo_handler, Answers, Handled, Parks, AnswersTwice, Finish,
              process_cq_cpl, Dequeue, Keep, EndTaken, EndKept, vars, algoVars
<1>3. InOnePlace /\ NoDoubles /\ OneAnswer
  BY <1>2 DEF HolderInv
<1>4. todo' = todo => OneAnswer'
  BY <1>3 DEF OneAnswer
<1>5. ASSUME NEW w \in Workers, NEW r \in Requests, NEW type \in {"read", "write"},
             Allocate(w, r, type)
      PROVE  InOnePlace' /\ NoDoubles' /\ OneAnswer'
  BY <1>1, <1>3, <1>4, <1>5, AllocateHolds DEF Allocate
<1>6. ASSUME NEW w \in Workers, Worker(w) PROVE InOnePlace' /\ NoDoubles' /\ OneAnswer'
  <2>1. CASE SeeRoom(w) \/ CountIo(w) \/ Drained(w)
    BY <1>1, <1>3, <1>4, <2>1, StillHolds DEF SeeRoom, CountIo, Drained, algoVars, cplVars
  <2>2. CASE Enqueue(w)
    BY <1>1, <1>3, <1>4, <2>2, EnqueueHolds DEF Enqueue, algoVars
  <2> QED BY <1>6, <2>1, <2>2 DEF Worker
<1>7. CASE TakeNew
  BY <1>1, <1>3, <1>4, <1>7, TakeNewHolds DEF TakeNew, Take
<1>8. ASSUME NEW r \in Requests, TakeParked(r) PROVE InOnePlace' /\ NoDoubles' /\ OneAnswer'
  BY <1>1, <1>3, <1>4, <1>8, TakeParkedHolds DEF TakeParked, Take
<1>9. CASE algo_handler
  <2>1. CASE Answers
    <3>1. todo' = 1 /\ UNCHANGED <<mine, reqQ, retryQ, finishQ, running, taken, completeQ, mem>>
      BY <2>1 DEF Answers, Handled, workerVars, cplVars
    <3> QED BY <1>1, <1>3, <3>1, StillHolds DEF OneAnswer
  <2>2. CASE Parks
    BY <1>1, <1>3, <1>4, <2>2, ParksHolds DEF Parks
  <2>3. CASE AnswersTwice
    BY <2>3 DEF AnswersTwice
  <2>4. CASE Finish
    BY <1>1, <1>3, <2>4, FinishHolds
  <2> QED BY <1>9, <2>1, <2>2, <2>3, <2>4 DEF algo_handler
<1>10. ASSUME NEW t \in Completers, process_cq_cpl(t)
       PROVE  InOnePlace' /\ NoDoubles' /\ OneAnswer'
  <2>1. CASE Dequeue(t)
    BY <1>1, <1>3, <1>4, <2>1, DequeueHolds DEF Dequeue, algoVars
  <2>2. CASE Keep(t)
    BY <1>1, <1>3, <1>4, <2>2, KeepHolds DEF Keep, algoVars
  <2>3. CASE EndTaken(t)
    BY <1>1, <1>3, <1>4, <2>3, EndTakenHolds DEF EndTaken, algoVars
  <2> QED BY <1>10, <2>1, <2>2, <2>3 DEF process_cq_cpl
<1>11. ASSUME NEW t \in Completers, NEW r \in Requests, EndKept(t, r)
       PROVE  InOnePlace' /\ NoDoubles' /\ OneAnswer'
  BY <1>1, <1>3, <1>4, <1>11, EndKeptHolds DEF EndKept, algoVars
<1>12. CASE UNCHANGED vars
  BY <1>1, <1>3, <1>4, <1>12, StillHolds DEF vars, workerVars, algoVars, cplVars
<1> QED BY <1>5, <1>6, <1>7, <1>8, <1>9, <1>10, <1>11, <1>12 DEF Next

-----------------------------------------------------------------------------

\* A set without two different elements has at most one.
LEMMA AtMostOne ==
    ASSUME NEW S, \A a, b \in S : a = b
    PROVE  Cardinality(S) = IF S = {} THEN 0 ELSE 1
<1>1. CASE S = {}
  BY <1>1, FS_EmptySet
<1>2. ASSUME NEW a \in S PROVE Cardinality(S) = 1
  <2>1. S = {a}
    OBVIOUS
  <2> QED BY <2>1, FS_Singleton
<1> QED BY <1>1, <1>2

\* Holders counts one for each place a request is in.
LEMMA HoldersCount ==
    ASSUME DriverAssumption, TypeOK, NoDoubles, NEW r \in Requests
    PROVE  Holders(r) = [pl \in Places |-> IF At(pl, r) THEN 1 ELSE 0]
<1>1. r # NoReq
  BY DEF DriverAssumption, NoReq
<1> DEFINE Ws == {w \in Workers : mine[w] = r}
           Rs == {i \in 1 .. Len(reqQ) : reqQ[i] = r}
           Fs == {i \in 1 .. Len(finishQ) : finishQ[i] = r}
           Ts == {t \in Completers : taken[t] = r}
           Ks == {t \in Completers : r \in completeQ[t]}
<1>2. Cardinality(Ws) = IF At("mine", r) THEN 1 ELSE 0
  <2>1. \A a, b \in Ws : a = b
    BY <1>1 DEF NoDoubles
  <2>2. Ws = {} <=> ~At("mine", r)
    BY DEF At
  <2> HIDE DEF Ws
  <2> QED BY <2>1, <2>2, AtMostOne
<1>3. Cardinality(Rs) = IF At("reqQ", r) THEN 1 ELSE 0
  <2>1. \A a, b \in Rs : a = b
    BY DEF NoDoubles, Once
  <2>2. Rs = {} <=> ~At("reqQ", r)
    BY DEF At, InSeq
  <2> HIDE DEF Rs
  <2> QED BY <2>1, <2>2, AtMostOne
<1>4. Cardinality(Fs) = IF At("finishQ", r) THEN 1 ELSE 0
  <2>1. \A a, b \in Fs : a = b
    BY DEF NoDoubles, Once
  <2>2. Fs = {} <=> ~At("finishQ", r)
    BY DEF At, InSeq
  <2> HIDE DEF Fs
  <2> QED BY <2>1, <2>2, AtMostOne
<1>5. Cardinality(Ts) = IF At("taken", r) THEN 1 ELSE 0
  <2>1. \A a, b \in Ts : a = b
    BY <1>1 DEF NoDoubles
  <2>2. Ts = {} <=> ~At("taken", r)
    BY DEF At
  <2> HIDE DEF Ts
  <2> QED BY <2>1, <2>2, AtMostOne
<1>6. Cardinality(Ks) = IF At("kept", r) THEN 1 ELSE 0
  <2>1. \A a, b \in Ks : a = b
    BY DEF NoDoubles
  <2>2. Ks = {} <=> ~At("kept", r)
    BY DEF At
  <2> HIDE DEF Ks
  <2> QED BY <2>1, <2>2, AtMostOne
<1>7. (r \in retryQ <=> At("retryQ", r)) /\ (running = r <=> At("run", r))
  BY DEF At
<1>8. /\ Holders(r)["mine"] = Cardinality(Ws) /\ Holders(r)["reqQ"] = Cardinality(Rs)
      /\ Holders(r)["finishQ"] = Cardinality(Fs) /\ Holders(r)["taken"] = Cardinality(Ts)
      /\ Holders(r)["kept"] = Cardinality(Ks)
      /\ Holders(r)["retryQ"] = IF r \in retryQ THEN 1 ELSE 0
      /\ Holders(r)["run"] = IF running = r THEN 1 ELSE 0
  BY DEF Holders
<1>9. Holders(r) = [pl \in Places |-> Holders(r)[pl]]
  BY DEF Holders, Places
<1> HIDE DEF Ws, Rs, Fs, Ts, Ks
<1>10. \A pl \in Places : Holders(r)[pl] = IF At(pl, r) THEN 1 ELSE 0
  BY <1>2, <1>3, <1>4, <1>5, <1>6, <1>7, <1>8 DEF Places
<1> QED BY <1>9, <1>10

\* A request in one place at most has at most one holder.
LEMMA HolderImplies == ASSUME DriverAssumption, HolderInv PROVE OneHolder
<1> SUFFICES ASSUME ~twice, NEW r \in Requests, NEW pl \in DOMAIN Holders(r)
             PROVE  /\ Holders(r)[pl] <= 1
                    /\ Holders(r)[pl] = 1 =>
                          ~IsFree(r) /\ \A p \in DOMAIN Holders(r) \ {pl} : Holders(r)[p] = 0
  BY DEF OneHolder
<1>1. Holders(r) = [p \in Places |-> IF At(p, r) THEN 1 ELSE 0]
  BY HoldersCount DEF HolderInv
<1>2. InOnePlace
  BY DEF HolderInv
<1> QED BY <1>1, <1>2 DEF InOnePlace

(***************************************************************************)
(* No thread holds a freed request, and no two hold the same one: what     *)
(* end_request frees nobody else points to, however many threads there     *)
(* are and however the rings fill up.                                      *)
(***************************************************************************)
THEOREM OneHolderHolds == ASSUME DriverAssumption PROVE Spec => []OneHolder
<1>1. Init => HolderInv
  BY HolderInit
<1>2. HolderInv /\ [Next]_vars => HolderInv'
  BY HolderStep
<1>3. HolderInv => OneHolder
  BY HolderImplies
<1> QED BY <1>1, <1>2, <1>3, PTL DEF Spec

-----------------------------------------------------------------------------
(***************************************************************************)
(* The counters.  A worker's counter and what it has outstanding change    *)
(* together, in CountIo and in end_request.                                *)
(***************************************************************************)
\* A worker whose counter, position and outstanding requests stay as they are.
LEMMA CountStays ==
    ASSUME NEW w \in Workers, CountInv(w), Outstanding(w)' = Outstanding(w),
           nrIos'[w] = nrIos[w], pc'[w] = "count" => pc[w] = "count"
    PROVE  CountInv(w)'
BY DEF CountInv

\* A worker raises tr_nr_ios for the request it takes from its pool.
LEMMA AllocateCounts ==
    ASSUME DriverAssumption, TypeOK, InOnePlace, CounterInv,
           NEW w \in Workers, NEW r \in Requests, NEW type \in {"read", "write"},
           Allocate(w, r, type)
    PROVE  CounterInv'
<1>1. /\ pc[w] = "idle" /\ IsFree(r) /\ mine[w] = NoReq
      /\ mem' = [mem EXCEPT ![r] = [worker |-> w, type |-> type]]
      /\ mine' = [mine EXCEPT ![w] = r] /\ pc' = [pc EXCEPT ![w] = "wait"]
      /\ nrIos' = IF w \in RmwWorkers THEN [nrIos EXCEPT ![w] = 0] ELSE nrIos
  BY DEF Allocate, TypeOK
<1>2. NoReq \notin Requests /\ RmwWorkers \subseteq Workers /\ IoDepth \in Nat
  BY DEF DriverAssumption, NoReq
<1>3. /\ \A x \in Requests : x # r => mem'[x] = mem[x]
      /\ mem'[r].worker = w
      /\ mine'[w] = r /\ pc'[w] = "wait"
      /\ \A v \in Workers : v # w => mine'[v] = mine[v] /\ pc'[v] = pc[v] /\ nrIos'[v] = nrIos[v]
  BY <1>1 DEF TypeOK
<1>4. \A v \in Workers : Outstanding(v)' = Outstanding(v)
  BY <1>1, <1>2, <1>3 DEF Outstanding, IsFree
<1>5. nrIos'[w] = nrIos[w]
  <2>1. CASE w \in RmwWorkers
    <3>1. Outstanding(w) = {}
      BY <1>1, <2>1 DEF CounterInv, RmwAtomic
    <3>2. nrIos[w] = 0
      BY <3>1, FS_EmptySet DEF CounterInv, CountInv
    <3> QED BY <1>1, <2>1, <3>2 DEF TypeOK
  <2> QED BY <1>1, <2>1
<1>6. \A v \in Workers : CountInv(v)'
  <2> SUFFICES ASSUME NEW v \in Workers PROVE CountInv(v)'
    OBVIOUS
  <2>1. nrIos'[v] = nrIos[v] /\ (pc'[v] = "count" => pc[v] = "count")
    BY <1>3, <1>5
  <2> QED BY <1>4, <2>1, CountStays DEF CounterInv
<1>7. \A v \in Workers : mine'[v] # NoReq => mem'[mine'[v]].worker = v
  <2> SUFFICES ASSUME NEW v \in Workers, mine'[v] # NoReq PROVE mem'[mine'[v]].worker = v
    OBVIOUS
  <2>1. CASE v = w
    BY <1>3, <2>1
  <2>2. CASE v # w
    <3>1. mine'[v] = mine[v] /\ mine[v] \in Requests
      BY <1>3, <2>2 DEF TypeOK
    <3>2. mine[v] # r
      <4>1. At("mine", mine[v])
        BY DEF At
      <4>2. ~IsFree(mine[v])
        BY <3>1, <4>1 DEF InOnePlace, Places
      <4> QED BY <1>1, <4>2
    <3> QED BY <1>3, <3>1, <3>2 DEF CounterInv
  <2> QED BY <2>1, <2>2
<1>8. RmwAtomic'
  <2> SUFFICES ASSUME NEW v \in RmwWorkers, pc'[v] = "idle" PROVE Outstanding(v)' = {}
    BY DEF RmwAtomic
  <2>1. v \in Workers /\ pc[v] = "idle"
    BY <1>2, <1>3
  <2> QED BY <1>4, <2>1 DEF CounterInv, RmwAtomic
<1> QED BY <1>6, <1>7, <1>8 DEF CounterInv

\* A step that leaves the workers, their counters and the requests alone.
LEMMA FrameCounts ==
    ASSUME CounterInv, UNCHANGED <<pc, mine, nrIos, mem>> PROVE CounterInv'
<1>1. \A w \in Workers : Outstanding(w)' = Outstanding(w)
  BY DEF Outstanding, IsFree
<1>2. RmwAtomic'
  BY DEF CounterInv, RmwAtomic, Outstanding, IsFree
<1> QED BY <1>1, <1>2 DEF CounterInv, CountInv

\* The steps of a worker keep the count of its outstanding requests.
LEMMA WorkerCounts ==
    ASSUME DriverAssumption, TypeOK, InOnePlace, NoDoubles, CounterInv,
           NEW w \in Workers, Worker(w)
    PROVE  CounterInv'
<1>1. NoReq \notin Requests /\ RmwWorkers \subseteq Workers /\ IoDepth \in Nat
  BY DEF DriverAssumption, NoReq
<1>2. \A v \in Workers : /\ nrIos[v] \in Int /\ Cardinality(Outstanding(v)) \in Nat
                         /\ mine[v] # NoReq => mine[v] \in Requests /\ ~IsFree(mine[v])
  <2> SUFFICES ASSUME NEW v \in Workers
               PROVE  /\ nrIos[v] \in Int /\ Cardinality(Outstanding(v)) \in Nat
                      /\ mine[v] # NoReq => mine[v] \in Requests /\ ~IsFree(mine[v])
    OBVIOUS
  <2>1. At("mine", mine[v])
    BY DEF At
  <2> QED BY <2>1, FS_CardinalityType DEF CounterInv, CountInv, InOnePlace, Places, TypeOK
<1>3. CASE SeeRoom(w)
  <2>1. /\ pc[w] = "wait" /\ pc' = [pc EXCEPT ![w] = "count"] /\ nrIos[w] < IoDepth
        /\ UNCHANGED <<mine, nrIos, mem>>
    BY <1>3 DEF SeeRoom, DepthFree
  <2>2. \A v \in Workers : Outstanding(v)' = Outstanding(v)
    BY <2>1 DEF Outstanding, IsFree, TypeOK
  <2>3. \A v \in Workers : CountInv(v)'
    BY <2>1, <2>2 DEF CounterInv, CountInv, TypeOK
  <2>4. RmwAtomic'
    BY <1>1, <2>1, <2>2 DEF CounterInv, RmwAtomic, TypeOK
  <2> QED BY <2>1, <2>3, <2>4 DEF CounterInv
<1>4. CASE CountIo(w)
  <2>0. PICK r \in Requests : r = mine[w]
    BY <1>4 DEF CountIo, TypeOK
  <2>1. /\ pc[w] = "count" /\ pc' = [pc EXCEPT ![w] = "enqueue"]
        /\ nrIos' = [nrIos EXCEPT ![w] = @ + 1] /\ UNCHANGED <<mine, mem>>
        /\ nrIos[w] < IoDepth
    BY <1>4 DEF CountIo, CounterInv, CountInv
  <2>2. r \notin Outstanding(w) /\ ~IsFree(r) /\ mem[r].worker = w
    BY <1>1, <1>2, <2>0, <2>1 DEF Outstanding, CounterInv
  <2>3. Outstanding(w)' = Outstanding(w) \cup {r}
    BY <2>0, <2>1, <2>2 DEF Outstanding, IsFree, TypeOK
  <2>4. \A v \in Workers : v # w => Outstanding(v)' = Outstanding(v)
    BY <2>1 DEF Outstanding, IsFree, TypeOK
  <2>5. CountInv(w)'
    <3>1. IsFiniteSet(Outstanding(w))
          /\ nrIos[w] = Cardinality(Outstanding(w)) /\ nrIos'[w] = nrIos[w] + 1
      BY <2>1 DEF CounterInv, CountInv, TypeOK
    <3>2. IsFiniteSet(Outstanding(w) \cup {r})
          /\ Cardinality(Outstanding(w) \cup {r}) = Cardinality(Outstanding(w)) + 1
      BY <2>2, <3>1, FS_AddElement
    <3>3. nrIos'[w] <= IoDepth /\ pc'[w] # "count"
      BY <1>1, <1>2, <2>1, <3>1 DEF TypeOK
    <3> QED BY <2>3, <3>1, <3>2, <3>3 DEF CountInv
  <2>6. \A v \in Workers : CountInv(v)'
    <3> SUFFICES ASSUME NEW v \in Workers, v # w PROVE CountInv(v)'
      BY <2>5
    <3>1. nrIos'[v] = nrIos[v] /\ pc'[v] = pc[v]
      BY <2>1 DEF TypeOK
    <3> QED BY <2>4, <3>1, CountStays DEF CounterInv
  <2>7. RmwAtomic'
    BY <1>1, <2>1, <2>4 DEF CounterInv, RmwAtomic, TypeOK
  <2> QED BY <2>1, <2>6, <2>7 DEF CounterInv
<1>5. CASE Enqueue(w)
  <2>1. /\ pc[w] = "enqueue" /\ mine' = [mine EXCEPT ![w] = NoReq]
        /\ pc' = [pc EXCEPT ![w] = IF w \in RmwWorkers THEN "drain" ELSE "idle"]
        /\ UNCHANGED <<nrIos, mem>>
    BY <1>5 DEF Enqueue
  <2>2. \A v \in Workers : Outstanding(v)' = Outstanding(v)
    BY <1>1, <2>1 DEF Outstanding, IsFree, TypeOK
  <2>3. \A v \in Workers : CountInv(v)'
    BY <2>1, <2>2 DEF CounterInv, CountInv, TypeOK
  <2>4. RmwAtomic'
    BY <1>1, <2>1, <2>2 DEF CounterInv, RmwAtomic, TypeOK
  <2>5. \A v \in Workers : mine'[v] # NoReq => mem'[mine'[v]].worker = v
    BY <2>1 DEF CounterInv, TypeOK
  <2> QED BY <2>3, <2>4, <2>5 DEF CounterInv
<1>6. CASE Drained(w)
  <2>1. /\ pc[w] = "drain" /\ nrIos[w] <= 0 /\ pc' = [pc EXCEPT ![w] = "idle"]
        /\ UNCHANGED <<mine, nrIos, mem>>
    BY <1>6 DEF Drained
  <2>2. \A v \in Workers : Outstanding(v)' = Outstanding(v)
    BY <1>1, <2>1 DEF Outstanding, IsFree, TypeOK
  <2>3. \A v \in Workers : CountInv(v)'
    BY <2>1, <2>2 DEF CounterInv, CountInv, TypeOK
  <2>4. Outstanding(w) = {}
    <3>1. IsFiniteSet(Outstanding(w)) /\ Cardinality(Outstanding(w)) = 0
      BY <1>2, <2>1 DEF CounterInv, CountInv
    <3> QED BY <3>1, FS_EmptySet
  <2>5. RmwAtomic'
    BY <1>1, <2>1, <2>2, <2>4 DEF CounterInv, RmwAtomic, TypeOK
  <2> QED BY <2>1, <2>3, <2>5 DEF CounterInv
<1> QED BY <1>3, <1>4, <1>5, <1>6 DEF Worker

\* The one who ends a request takes it from its worker's counter.
LEMMA EndCounts ==
    ASSUME DriverAssumption, TypeOK, InOnePlace, CounterInv,
           NEW r \in Requests, At("taken", r) \/ At("kept", r), end_request(r),
           UNCHANGED <<pc, mine>>
    PROVE  CounterInv'
<1> DEFINE w == mem[r].worker
<1>1. /\ w \in Workers /\ mem'[r].worker = w /\ mem'[r].type = "freed"
      /\ \A x \in Requests : x # r => mem'[x] = mem[x]
      /\ RmwWorkers \subseteq Workers
  BY EndType DEF DriverAssumption
<1>2. PICK u \in Workers : u = w
  BY <1>1
<1>3. ~At("mine", r) /\ ~IsFree(r)
  BY DEF InOnePlace, Places
<1>4. \A v \in Workers : mine[v] # r
  BY <1>3 DEF At
<1>5. r \in Outstanding(u) /\ Outstanding(u)' = Outstanding(u) \ {r}
  BY <1>1, <1>2, <1>3, <1>4 DEF Outstanding, IsFree
<1>6. \A v \in Workers : v # u => Outstanding(v)' = Outstanding(v)
  BY <1>1, <1>2 DEF Outstanding, IsFree
<1>7. nrIos' = [nrIos EXCEPT ![u] = @ - 1]
  BY <1>2 DEF end_request
<1>8. CountInv(u)'
  <2>1. IsFiniteSet(Outstanding(u)) /\ nrIos[u] = Cardinality(Outstanding(u))
        /\ nrIos[u] <= IoDepth /\ Cardinality(Outstanding(u)) \in Nat /\ IoDepth \in Nat
    BY FS_CardinalityType DEF CounterInv, CountInv, DriverAssumption
  <2>2. IsFiniteSet(Outstanding(u) \ {r})
        /\ Cardinality(Outstanding(u) \ {r}) = Cardinality(Outstanding(u)) - 1
    BY <1>5, <2>1, FS_RemoveElement
  <2>3. nrIos'[u] = nrIos[u] - 1
    BY <1>7 DEF TypeOK
  <2> QED BY <1>5, <2>1, <2>2, <2>3 DEF CountInv
<1>9. \A v \in Workers : CountInv(v)'
  <2> SUFFICES ASSUME NEW v \in Workers, v # u PROVE CountInv(v)'
    BY <1>8
  <2>1. nrIos'[v] = nrIos[v] /\ pc'[v] = pc[v]
    BY <1>7 DEF TypeOK
  <2> QED BY <1>6, <2>1, CountStays DEF CounterInv
<1>10. \A v \in Workers : mine'[v] # NoReq => mem'[mine'[v]].worker = v
  BY <1>1, <1>4 DEF CounterInv, TypeOK
<1>11. \A v \in Workers : Outstanding(v)' \subseteq Outstanding(v)
  BY <1>5, <1>6
<1>12. RmwAtomic'
  <2> SUFFICES ASSUME NEW v \in RmwWorkers, pc'[v] = "idle" PROVE Outstanding(v)' = {}
    BY DEF RmwAtomic
  <2>1. v \in Workers /\ pc[v] = "idle"
    BY <1>1
  <2> QED BY <1>11, <2>1 DEF CounterInv, RmwAtomic
<1> QED BY <1>9, <1>10, <1>12 DEF CounterInv

\* At the start no request is outstanding and the counters are 0.
LEMMA CounterInit == ASSUME DriverAssumption, Init PROVE CounterInv
<1>1. \A r \in Requests : IsFree(r)
  BY DEF Init, Freed, IsFree
<1>2. \A w \in Workers : Outstanding(w) = {}
  BY <1>1 DEF Outstanding
<1>3. \A w \in Workers : mine[w] = NoReq /\ nrIos[w] = 0 /\ pc[w] = "idle"
  BY DEF Init
<1>4. IoDepth \in Nat /\ RmwWorkers \subseteq Workers
  BY DEF DriverAssumption
<1>5. \A w \in Workers : CountInv(w)
  BY <1>2, <1>3, <1>4, FS_EmptySet DEF CountInv
<1> QED BY <1>2, <1>3, <1>4, <1>5 DEF CounterInv, RmwAtomic

\* Each step of the driver keeps the places, the types and the counters.
LEMMA DriverStep ==
    ASSUME DriverAssumption, DriverInv, [Next]_vars PROVE DriverInv'
<1>1. HolderInv'
  BY HolderStep DEF DriverInv
<1> SUFFICES ASSUME ~twice' PROVE CounterInv'
  BY <1>1 DEF DriverInv
<1>2. ~twice
  BY <1>1 DEF Next, Allocate, Worker, SeeRoom, CountIo, Enqueue, Drained, TakeNew, TakeParked,
              Take, algo_handler, Answers, Handled, Parks, AnswersTwice, Finish,
              process_cq_cpl, Dequeue, Keep, EndTaken, EndKept, vars, algoVars
<1>3. TypeOK /\ InOnePlace /\ NoDoubles /\ CounterInv
  BY <1>2 DEF DriverInv, HolderInv
<1>4. ASSUME NEW w \in Workers, NEW r \in Requests, NEW type \in {"read", "write"},
             Allocate(w, r, type)
      PROVE  CounterInv'
  BY <1>3, <1>4, AllocateCounts
<1>5. ASSUME NEW w \in Workers, Worker(w) PROVE CounterInv'
  BY <1>3, <1>5, WorkerCounts
<1>6. CASE TakeNew \/ \E r \in Requests : TakeParked(r)
  BY <1>3, <1>6, FrameCounts DEF TakeNew, TakeParked, Take, workerVars
<1>7. CASE algo_handler
  BY <1>3, <1>7, FrameCounts
     DEF algo_handler, Answers, Parks, AnswersTwice, Handled, Finish, workerVars
<1>8. ASSUME NEW t \in Completers, process_cq_cpl(t) PROVE CounterInv'
  <2>1. CASE Dequeue(t) \/ Keep(t)
    BY <1>3, <2>1, FrameCounts DEF Dequeue, Keep, workerVars
  <2>2. CASE EndTaken(t)
    <3>1. PICK r \in Requests : r = taken[t]
      BY <1>3, <2>2 DEF EndTaken, TypeOK
    <3>2. At("taken", r) /\ end_request(r) /\ UNCHANGED <<pc, mine>>
      BY <2>2, <3>1 DEF At, EndTaken, workerVars
    <3> QED BY <1>3, <3>2, EndCounts
  <2> QED BY <1>8, <2>1, <2>2 DEF process_cq_cpl
<1>9. ASSUME NEW t \in Completers, NEW r \in Requests, EndKept(t, r) PROVE CounterInv'
  <2>1. At("kept", r) /\ end_request(r) /\ UNCHANGED <<pc, mine>>
    BY <1>9 DEF At, EndKept, workerVars
  <2> QED BY <1>3, <2>1, EndCounts
<1>10. CASE UNCHANGED vars
  BY <1>3, <1>10, FrameCounts DEF vars, workerVars
<1> QED BY <1>4, <1>5, <1>6, <1>7, <1>8, <1>9, <1>10 DEF Next

\* The inductive invariant of the driver.
LEMMA DriverInvariant == ASSUME DriverAssumption PROVE Spec => []DriverInv
<1>1. Init => DriverInv
  BY HolderInit, CounterInit DEF DriverInv
<1>2. DriverInv /\ [Next]_vars => DriverInv'
  BY DriverStep
<1> QED BY <1>1, <1>2, PTL DEF Spec

(***************************************************************************)
(* tr_nr_ios is what a worker has outstanding and stays within the I/O     *)
(* depth (the assertion of submit_req), though its worker increases it and *)
(* the completion threads decrease it.                                     *)
(***************************************************************************)
THEOREM CounterExactHolds == ASSUME DriverAssumption PROVE Spec => []CounterExact
<1>1. DriverInv => CounterExact
  BY DEF DriverInv, CounterInv, CountInv, CounterExact
<1> QED BY <1>1, DriverInvariant, PTL

(***************************************************************************)
(* test_ycsb_f goes on only when none of its requests is in flight, as     *)
(* long as no read was answered twice.                                     *)
(***************************************************************************)
THEOREM RmwAtomicOnceHolds == ASSUME DriverAssumption PROVE Spec => []RmwAtomicOnce
<1>1. DriverInv => RmwAtomicOnce
  BY DEF DriverInv, CounterInv, RmwAtomicOnce
<1> QED BY <1>1, DriverInvariant, PTL

------------------------------------------------------------------------------
(***************************************************************************)
(* AlgoQueue for every set of requests, every slack and every bound.       *)
(* Each property is inductive together with QueueTypeOK.                   *)
(***************************************************************************)

\* Where the entry now at position i was before an insertion behind k.
Old(i, k) == IF i <= k THEN i ELSE i - 1

\* What one insertion does to the queue, as the proofs use it.
LEMMA InsertShape ==
    ASSUME QueueTypeOK, NEW r \in Payloads, NEW t \in Times, Insert(r, t)
    PROVE  \E k \in 0 .. Len(q) :
              /\ StopsAt(k, t)
              /\ Len(q') = Len(q) + 1
              /\ q' \in Seq(Payloads)
              /\ q'[k + 1] = r /\ etime'[r] = t /\ order'[r] = arrivals + 1
              /\ \A i \in 1 .. Len(q) : q[i] # r
              /\ \A i \in 1 .. Len(q) + 1 :
                    i # k + 1 =>
                       /\ Old(i, k) \in 1 .. Len(q)
                       /\ q'[i] = q[Old(i, k)]
                       /\ etime'[q'[i]] = etime[q[Old(i, k)]]
                       /\ order'[q'[i]] = order[q[Old(i, k)]]
<1>1. PICK k \in 0 .. Len(q) : StopsAt(k, t) /\ q' = InsertBehind(k, r)
  BY DEF Insert, InsertSorted
<1>2. /\ q \in Seq(Payloads) /\ Len(q) \in Nat
      /\ etime \in [Payloads -> Times]
      /\ order \in [Payloads -> 0 .. arrivals]
      /\ \A i \in 1 .. Len(q) : q[i] \in Payloads
  BY DEF QueueTypeOK
<1>3. \A i \in 1 .. Len(q) : q[i] # r
  BY DEF Insert, InsertSorted, Queued
<1>4. q' = [i \in 1 .. Len(q) + 1 |->
              IF i <= k THEN q[i] ELSE IF i = k + 1 THEN r ELSE q[i - 1]]
  BY <1>1 DEF InsertBehind
<1>5. q' \in [1 .. Len(q) + 1 -> Payloads]
  <2>1. \A i \in 1 .. Len(q) + 1 : q'[i] \in Payloads
    BY <1>2, <1>4
  <2>. QED  BY <1>4, <2>1
<1>6. q' \in Seq(Payloads) /\ Len(q') = Len(q) + 1
  BY <1>2, <1>5
<1>7. /\ etime' = [etime EXCEPT ![r] = t]
      /\ order' = [order EXCEPT ![r] = arrivals + 1]
  BY DEF Insert, InsertSorted
<1>8. \A i \in 1 .. Len(q) :
         etime'[q[i]] = etime[q[i]] /\ order'[q[i]] = order[q[i]]
  BY <1>2, <1>3, <1>7
<1>9. ASSUME NEW i \in 1 .. Len(q) + 1, i # k + 1
      PROVE  Old(i, k) \in 1 .. Len(q) /\ q'[i] = q[Old(i, k)]
  BY <1>2, <1>4, <1>9 DEF Old
<1>10. q'[k + 1] = r
  BY <1>2, <1>4
<1>11. etime'[r] = t /\ order'[r] = arrivals + 1
  BY <1>2, <1>7
<1>. QED  BY <1>1, <1>3, <1>6, <1>8, <1>9, <1>10, <1>11

\* Serving the head shifts the queue and touches no etime.
LEMMA ServeShape ==
    ASSUME QueueTypeOK, Serve
    PROVE  /\ Len(q') = Len(q) - 1
           /\ q' \in Seq(Payloads)
           /\ \A i \in 1 .. Len(q') : i + 1 \in 1 .. Len(q) /\ q'[i] = q[i + 1]
           /\ etime' = etime /\ order' = order
BY DEF QueueTypeOK, Serve

\* QueueTypeOK is inductive: the queue holds requests, each at most once.
LEMMA TypeInductive == QueueTypeOK /\ [QueueNext]_queueVars => QueueTypeOK'
<1> SUFFICES ASSUME QueueTypeOK, [QueueNext]_queueVars PROVE QueueTypeOK'
  OBVIOUS
<1>0. Len(q) \in Nat /\ \A i, j \in 1 .. Len(q) : q[i] = q[j] => i = j
  BY DEF QueueTypeOK
<1>1. ASSUME NEW r \in Payloads, NEW t \in Times, Insert(r, t) PROVE QueueTypeOK'
  <2>1. PICK k \in 0 .. Len(q) :
              /\ Len(q') = Len(q) + 1 /\ q' \in Seq(Payloads)
              /\ q'[k + 1] = r
              /\ \A i \in 1 .. Len(q) : q[i] # r
              /\ \A i \in 1 .. Len(q) + 1 :
                    i # k + 1 => Old(i, k) \in 1 .. Len(q) /\ q'[i] = q[Old(i, k)]
    BY <1>1, InsertShape
  <2>2. ASSUME NEW i \in 1 .. Len(q'), NEW j \in 1 .. Len(q'), q'[i] = q'[j]
        PROVE  i = j
    <3>1. CASE i # k + 1 /\ j # k + 1
      <4>1. Old(i, k) = Old(j, k)
        BY <1>0, <2>1, <2>2, <3>1
      <4>. QED  BY <1>0, <2>1, <3>1, <4>1 DEF Old
    <3>2. CASE i = k + 1 /\ j # k + 1
      BY <2>1, <2>2, <3>2
    <3>3. CASE i # k + 1 /\ j = k + 1
      BY <2>1, <2>2, <3>3
    <3>. QED  BY <3>1, <3>2, <3>3
  <2>3. /\ now' \in Times
        /\ etime' \in [Payloads -> Times]
        /\ order' \in [Payloads -> 0 .. arrivals'] /\ arrivals' \in 0 .. MaxArrivals
    BY <1>1, AlgoQueueAssumption DEF QueueTypeOK, Insert, InsertSorted
  <2>. QED  BY <2>1, <2>2, <2>3 DEF QueueTypeOK
<1>2. ASSUME Serve PROVE QueueTypeOK'
  <2>1. \A i, j \in 1 .. Len(q') : q'[i] = q'[j] => i = j
    BY <1>0, <1>2, ServeShape
  <2>. QED  BY <1>2, <2>1, ServeShape DEF QueueTypeOK, Serve
<1>3. CASE Tick
  BY <1>3, AlgoQueueAssumption DEF QueueTypeOK, Tick, Times
<1>4. CASE UNCHANGED queueVars
  BY <1>4 DEF QueueTypeOK, queueVars
<1>. QED  BY <1>1, <1>2, <1>3, <1>4 DEF QueueNext

\* Each record of the queue keeps its type and nothing is queued twice.
THEOREM TypeCorrect == QueueSpec => []QueueTypeOK
<1>1. QueueInit => QueueTypeOK
  BY AlgoQueueAssumption DEF QueueInit, QueueTypeOK, Times
<1>. QED  BY <1>1, TypeInductive, PTL DEF QueueSpec

-----------------------------------------------------------------------------
\* The slack of n positions, and of one more.
LEMMA OneMoreSlack ==
    ASSUME NEW n \in Nat
    PROVE  /\ n * Slack \in Nat
           /\ (n + 1) * Slack = n * Slack + Slack
BY AlgoQueueAssumption

\* No step, of the poller or of an enqueue, lets a request stay past its wait.
LEMMA WaitInductive == QueueTypeOK /\ WaitBounded /\ [QueueNext]_queueVars => WaitBounded'
<1> SUFFICES ASSUME QueueTypeOK, WaitBounded, [QueueNext]_queueVars PROVE WaitBounded'
  OBVIOUS
<1>0. /\ Len(q) \in Nat /\ Slack \in Nat
      /\ \A i \in 1 .. Len(q) : q[i] \in Payloads /\ etime[q[i]] \in Nat
  BY AlgoQueueAssumption DEF QueueTypeOK, Times
<1>1. ASSUME NEW r \in Payloads, NEW t \in Times, Insert(r, t) PROVE WaitBounded'
  <2>1. PICK k \in 0 .. Len(q) :
              /\ StopsAt(k, t)
              /\ Len(q') = Len(q) + 1
              /\ q'[k + 1] = r /\ etime'[r] = t
              /\ \A i \in 1 .. Len(q) + 1 :
                    i # k + 1 =>
                       /\ Old(i, k) \in 1 .. Len(q)
                       /\ etime'[q'[i]] = etime[q[Old(i, k)]]
    BY <1>1, InsertShape
  <2>2. /\ t \in Nat
        /\ k # 0 => etime[q[k]] <= t + Slack
        /\ \A i \in k + 1 .. Len(q) : etime[q[i]] > t + Slack
    BY <1>0, <2>1 DEF StopsAt, Times
  <2>3. ASSUME NEW i \in 1 .. Len(q'), NEW j \in 1 .. Len(q'), i <= j
        PROVE  etime'[q'[i]] <= etime'[q'[j]] + (j - i) * Slack
    <3>0. i \in 1 .. Len(q) + 1 /\ j \in 1 .. Len(q) + 1 /\ j - i \in Nat
      BY <1>0, <2>1, <2>3
    <3>e. PICK e \in Nat : e = (j - i) * Slack
      BY <3>0, OneMoreSlack
    <3> SUFFICES etime'[q'[i]] <= etime'[q'[j]] + e
      BY <3>e
    <3>1. CASE i # k + 1 /\ j # k + 1
      <4> DEFINE a == Old(i, k)
                 b == Old(j, k)
      <4>1. /\ a \in 1 .. Len(q) /\ b \in 1 .. Len(q)
            /\ etime'[q'[i]] = etime[q[a]] /\ etime'[q'[j]] = etime[q[b]]
        BY <2>1, <3>0, <3>1
      <4>2. a <= b /\ (b - a = j - i \/ (b - a) + 1 = j - i)
        BY <2>3, <3>0, <3>1 DEF Old
      <4>3. b - a \in Nat
        BY <4>1, <4>2
      <4>4. PICK d \in Nat : d = (b - a) * Slack /\ d + Slack = ((b - a) + 1) * Slack
        BY <4>3, OneMoreSlack
      <4>5. etime[q[a]] <= etime[q[b]] + d
        BY <4>1, <4>2, <4>4 DEF WaitBounded
      <4>6. e = d \/ e = d + Slack
        BY <3>e, <4>2, <4>4
      <4>7. etime[q[a]] \in Nat /\ etime[q[b]] \in Nat
        BY <1>0, <4>1
      <4>. HIDE DEF a, b
      <4>. QED  BY <1>0, <4>1, <4>5, <4>6, <4>7
    <3>2. CASE i # k + 1 /\ j = k + 1
      <4>1. /\ i \in 1 .. Len(q) /\ k \in 1 .. Len(q) /\ i <= k
            /\ etime'[q'[i]] = etime[q[i]] /\ etime'[q'[j]] = t
        BY <2>1, <2>3, <3>0, <3>2 DEF Old
      <4>2. k - i \in Nat /\ (k - i) + 1 = j - i
        BY <3>2, <4>1
      <4>3. PICK d \in Nat : d = (k - i) * Slack /\ d + Slack = ((k - i) + 1) * Slack
        BY <4>2, OneMoreSlack
      <4>4. etime[q[i]] <= etime[q[k]] + d /\ etime[q[k]] <= t + Slack
        BY <2>2, <4>1, <4>3 DEF WaitBounded
      <4>5. e = d + Slack
        BY <3>e, <4>2, <4>3
      <4>6. etime[q[i]] \in Nat /\ etime[q[k]] \in Nat
        BY <1>0, <4>1
      <4>. QED  BY <1>0, <2>2, <4>1, <4>4, <4>5, <4>6
    <3>3. CASE i = k + 1 /\ j # k + 1
      <4>1. /\ j - 1 \in k + 1 .. Len(q)
            /\ etime'[q'[i]] = t /\ etime'[q'[j]] = etime[q[j - 1]]
        BY <2>1, <2>3, <3>0, <3>3 DEF Old
      <4>2. etime[q[j - 1]] > t + Slack /\ etime[q[j - 1]] \in Nat
        BY <1>0, <2>2, <4>1
      <4>. QED  BY <1>0, <2>2, <4>1, <4>2
    <3>4. CASE i = k + 1 /\ j = k + 1
      BY <1>0, <2>1, <2>2, <3>4
    <3>. QED  BY <3>1, <3>2, <3>3, <3>4
  <2>. QED  BY <2>3 DEF WaitBounded
<1>2. ASSUME Serve PROVE WaitBounded'
  <2>1. ASSUME NEW i \in 1 .. Len(q'), NEW j \in 1 .. Len(q'), i <= j
        PROVE  etime'[q'[i]] <= etime'[q'[j]] + (j - i) * Slack
    <3>1. /\ i + 1 \in 1 .. Len(q) /\ j + 1 \in 1 .. Len(q) /\ i + 1 <= j + 1
          /\ q'[i] = q[i + 1] /\ q'[j] = q[j + 1] /\ etime' = etime
      BY <1>2, <2>1, ServeShape
    <3>2. etime[q[i + 1]] <= etime[q[j + 1]] + ((j + 1) - (i + 1)) * Slack
      BY <3>1 DEF WaitBounded
    <3>3. (j + 1) - (i + 1) = j - i
      BY <2>1, <1>0, <1>2, ServeShape
    <3>. QED  BY <3>1, <3>2, <3>3
  <2>. QED  BY <2>1 DEF WaitBounded
<1>3. CASE Tick
  BY <1>3 DEF WaitBounded, Tick
<1>4. CASE UNCHANGED queueVars
  BY <1>4 DEF WaitBounded, queueVars
<1>. QED  BY <1>1, <1>2, <1>3, <1>4 DEF QueueNext

\* However requests are parked and served, an entry of a queue of algo_queue.c
\* is due at most Slack later per position than one behind it.
THEOREM WaitIsBounded == QueueSpec => []WaitBounded
<1>1. QueueInit => QueueTypeOK /\ WaitBounded
  BY AlgoQueueAssumption DEF QueueInit, QueueTypeOK, WaitBounded, Times
<1>2. QueueTypeOK /\ WaitBounded /\ [QueueNext]_queueVars => (QueueTypeOK /\ WaitBounded)'
  BY TypeInductive, WaitInductive
<1>. QED  BY <1>1, <1>2, PTL DEF QueueSpec

-----------------------------------------------------------------------------

\* No step of the poller hands out a request before one with an earlier end time.
LEMMA OvertakesInductive ==
    QueueTypeOK /\ OvertakesOnlyLater /\ [QueueNext]_queueVars => OvertakesOnlyLater'
<1> SUFFICES ASSUME QueueTypeOK, OvertakesOnlyLater, [QueueNext]_queueVars
             PROVE  OvertakesOnlyLater'
  OBVIOUS
<1>0. /\ Len(q) \in Nat /\ arrivals \in Nat
      /\ \A i \in 1 .. Len(q) : q[i] \in Payloads /\ order[q[i]] \in 0 .. arrivals
  BY AlgoQueueAssumption DEF QueueTypeOK
<1>1. ASSUME NEW r \in Payloads, NEW t \in Times, Insert(r, t)
      PROVE  OvertakesOnlyLater'
  <2>1. PICK k \in 0 .. Len(q) :
              /\ StopsAt(k, t)
              /\ Len(q') = Len(q) + 1
              /\ q'[k + 1] = r /\ etime'[r] = t /\ order'[r] = arrivals + 1
              /\ \A i \in 1 .. Len(q) + 1 :
                    i # k + 1 =>
                       /\ Old(i, k) \in 1 .. Len(q)
                       /\ etime'[q'[i]] = etime[q[Old(i, k)]]
                       /\ order'[q'[i]] = order[q[Old(i, k)]]
    BY <1>1, InsertShape
  <2>2. ASSUME NEW i \in 1 .. Len(q'), NEW j \in 1 .. Len(q'),
               i < j, order'[q'[i]] > order'[q'[j]]
        PROVE  etime'[q'[j]] > etime'[q'[i]] + Slack
    <3>1. CASE i # k + 1 /\ j # k + 1
      <4>1. /\ Old(i, k) \in 1 .. Len(q) /\ Old(j, k) \in 1 .. Len(q)
            /\ Old(i, k) < Old(j, k)
        BY <2>1, <2>2, <3>1 DEF Old
      <4>. QED  BY <2>1, <2>2, <3>1, <4>1 DEF OvertakesOnlyLater
    <3>2. CASE i # k + 1 /\ j = k + 1
      BY <1>0, <2>1, <2>2, <3>2
    <3>3. CASE i = k + 1 /\ j # k + 1
      <4>1. j - 1 \in k + 1 .. Len(q) /\ Old(j, k) = j - 1
        BY <2>1, <2>2, <3>3 DEF Old
      <4>. QED  BY <2>1, <3>3, <4>1 DEF StopsAt
    <3>. QED  BY <2>2, <3>1, <3>2, <3>3
  <2>. QED  BY <2>2 DEF OvertakesOnlyLater
<1>2. ASSUME Serve PROVE OvertakesOnlyLater'
  <2>1. ASSUME NEW i \in 1 .. Len(q'), NEW j \in 1 .. Len(q'),
               i < j, order'[q'[i]] > order'[q'[j]]
        PROVE  etime'[q'[j]] > etime'[q'[i]] + Slack
    <3>1. /\ i + 1 \in 1 .. Len(q) /\ j + 1 \in 1 .. Len(q) /\ i + 1 < j + 1
          /\ q'[i] = q[i + 1] /\ q'[j] = q[j + 1]
          /\ etime' = etime /\ order' = order
      BY <1>2, <2>1, ServeShape
    <3>. QED  BY <2>1, <3>1 DEF OvertakesOnlyLater
  <2>. QED  BY <2>1 DEF OvertakesOnlyLater
<1>3. CASE Tick
  BY <1>3 DEF OvertakesOnlyLater, Tick
<1>4. CASE UNCHANGED queueVars
  BY <1>4 DEF OvertakesOnlyLater, queueVars
<1>. QED  BY <1>1, <1>2, <1>3, <1>4 DEF QueueNext

\* A request is served before one that was parked earlier only if that one is
\* due more than Slack after it.
THEOREM OvertakingIsJustified == QueueSpec => []OvertakesOnlyLater
<1>1. QueueInit => QueueTypeOK /\ OvertakesOnlyLater
  BY AlgoQueueAssumption DEF QueueInit, QueueTypeOK, OvertakesOnlyLater, Times
<1>2. QueueTypeOK /\ OvertakesOnlyLater /\ [QueueNext]_queueVars => (QueueTypeOK /\ OvertakesOnlyLater)'
  BY TypeInductive, OvertakesInductive
<1>. QED  BY <1>1, <1>2, PTL DEF QueueSpec
==============================================================================
