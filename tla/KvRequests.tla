---------------------------- MODULE KvRequests -----------------------------
(***************************************************************************)
(* demand_get and demand_set of hash_hot_cmt/demand.c with the write       *)
(* buffer and the mapping update of its flush (dftl_wb.c): how algo_thread *)
(* turns requests for keys into probes of the hash table kept in the       *)
(* mapping entries.  A key has a hash, which gives the mapping entry (lpa) *)
(* of each probe, and a fingerprint, stored in the entry; the key itself   *)
(* is checked after its data was read (real_keys).                         *)
(*                                                                         *)
(* algo_thread runs one request at a time, up to where its handler returns *)
(* or parks it; a step here is one probe.  A mapping page is in the cache, *)
(* has a copy on flash, both or neither.  Which page is evicted (the LRU)  *)
(* is modelled in MapCache, and left open here.  The flash holds no        *)
(* values: what a get returns is whether it found its key.                 *)
(***************************************************************************)
EXTENDS Integers, Sequences, FiniteSetsExt

CONSTANTS Keys,          \* in the order of the skiplist
          Requests,      \* requests the workers allocate, 1, 2, ...
          Hash, Fp,      \* hashing_key and hashing_key_fp of each key
          FpMax,         \* FP_MAX, the fingerprint of an initial entry
          NrEntries,     \* nr_valid_tentries
          EPP,           \* mapping entries per page
          MaxCached,     \* max_cached_tpages
          MaxWb,         \* MAX_WRITE_BUF
          MaxCollision,  \* MAX_HASH_COLLISION
          MaxQueue       \* requests req_q has room for

KvAssumption == /\ Keys \subseteq Nat \ {0} /\ Requests \subseteq Nat \ {0}
                /\ NrEntries \in Nat \ {0} /\ EPP \in Nat \ {0}
                /\ Hash \in [Keys -> 0 .. NrEntries - 1]
                /\ MaxCached \in Nat \ {0} /\ MaxWb \in Nat \ {0}
                /\ MaxCollision \in Nat /\ MaxQueue \in Nat \ {0}

VARIABLES op,        \* each request: [type, key], or NoOp before it is submitted
          reqQ,      \* req_q
          parked,    \* retry_q
          busy,      \* the request algo_thread runs, or NoReq
          jump, cnt, \* inflight_params and probe count of each request
          answers,   \* what was put on finish_q for each request
          table,     \* real_keys of each entry, NoKey while its pte is initial
          cache,     \* [cached, dirty, copy, nr]: mapping pages
          maxTry,    \* max_try
          wb,        \* keys in the write buffer
          flush,     \* [on, master, parked, cur, jump, cnt, fresh]: the flush
          aborted,
          had,       \* gets whose key was stored when they were submitted (history)
          late       \* pages updated while neither cached nor on flash (history)

reqVars == <<op, reqQ, parked, busy, jump, cnt, answers, had>>
mapVars == <<table, cache, maxTry, late>>
vars == <<reqVars, mapVars, wb, flush, aborted>>

NoKey == 0
NoReq == 0
NoOp == [type |-> "none", key |-> NoKey]
Slots == 0 .. NrEntries - 1
Pages == {s \div EPP : s \in Slots}

Probe(k, c) == (Hash[k] + c + c * c) % NrEntries
PageOf(s) == s \div EPP
FpOf(s) == IF table[s] = NoKey THEN FpMax ELSE Fp[table[s]]

InTable == {table[s] : s \in Slots} \ {NoKey}
Stored == wb \cup InTable

NoFlush == [on |-> FALSE, master |-> {}, parked |-> {}, cur |-> NoKey, fresh |-> {},
            jump |-> [k \in Keys |-> "none"], cnt |-> [k \in Keys |-> 0]]

Init == /\ op = [r \in Requests |-> NoOp] /\ reqQ = <<>> /\ parked = {} /\ busy = NoReq
        /\ jump = [r \in Requests |-> "none"] /\ cnt = [r \in Requests |-> 0]
        /\ answers = [r \in Requests |-> <<>>]
        /\ table = [s \in Slots |-> NoKey]
        /\ cache = [cached |-> {}, dirty |-> {}, copy |-> {}, nr |-> 0]
        /\ maxTry = 0 /\ wb = {} /\ flush = NoFlush /\ aborted = FALSE
        /\ had = {} /\ late = {}

(***************************************************************************)
(* The cache, as the handlers see it.                                      *)
(***************************************************************************)

Evicted(c, v) == [c EXCEPT !.cached = @ \ {v}, !.dirty = @ \ {v}, !.nr = @ - 1,
                           !.copy = IF v \in c.dirty THEN @ \cup {v} ELSE @]

ListedUp(c, p) == [c EXCEPT !.cached = @ \cup {p}, !.nr = @ + 1]

\* list_up of page p; wrote is its return code: a dirty victim was written back.
ListUp(p, wrote) ==
    \/ /\ cache.nr < MaxCached /\ ~wrote
       /\ cache' = ListedUp(cache, p)
    \/ /\ cache.nr >= MaxCached
       /\ \E v \in cache.cached : /\ wrote = (v \in cache.dirty)
                                  /\ cache' = ListedUp(Evicted(cache, v), p)

Updated(c, p) == IF p \in c.cached
                 THEN [c EXCEPT !.dirty = @ \cup {p}, !.copy = @ \ {p}]
                 ELSE c

(***************************************************************************)
(* Requests come in through req_q and leave through finish_q.              *)
(***************************************************************************)
Submit(r, type, k) ==
    /\ {q \in Requests : op[q] = NoOp} # {} /\ r = Min({q \in Requests : op[q] = NoOp})
    /\ Len(reqQ) < MaxQueue
    /\ op' = [op EXCEPT ![r] = [type |-> type, key |-> k]]
    /\ reqQ' = Append(reqQ, r)
    /\ had' = IF type = "get" /\ k \in Stored THEN had \cup {r} ELSE had
    /\ UNCHANGED <<parked, busy, jump, cnt, answers, mapVars, wb, flush, aborted>>

\* algo_thread: a parked request that is due, else the head of req_q.  A request that
\* was answered is freed by a completion thread; serving it again is not modelled.
Serve(r) ==
    /\ ~aborted /\ busy = NoReq /\ busy' = r
    /\ \/ r \in parked /\ answers[r] = <<>> /\ parked' = parked \ {r} /\ UNCHANGED reqQ
       \/ reqQ # <<>> /\ r = Head(reqQ) /\ reqQ' = Tail(reqQ) /\ UNCHANGED parked
    /\ UNCHANGED <<op, jump, cnt, answers, had, mapVars, wb, flush, aborted>>

Answer(r, a) == answers' = [answers EXCEPT ![r] = Append(@, a)] /\ busy' = NoReq
Park(r, j) == /\ parked' = parked \cup {r} /\ busy' = NoReq
              /\ jump' = [jump EXCEPT ![r] = j]

(***************************************************************************)
(* __demand_get                                                            *)
(***************************************************************************)
Getting(r) == ~aborted /\ busy = r /\ op[r].type = "get"
KeyOf(r) == op[r].key
SlotOf(r) == Probe(KeyOf(r), cnt[r])

ExhaustedEarly(r) == cnt[r] >= maxTry /\ cnt[r] > 0          \* mutant: off by one
Exhausted(r) == cnt[r] > maxTry

GiveUpTwice(r) ==                                            \* mutant: demand_get answers too
    /\ Getting(r) /\ Exhausted(r)
    /\ answers' = [answers EXCEPT ![r] = @ \o <<"notfound", "notfound">>] /\ busy' = NoReq
    /\ UNCHANGED <<op, reqQ, parked, jump, cnt, had, mapVars, wb, flush, aborted>>

GiveUp(r) ==
    /\ Getting(r) /\ Exhausted(r)
    /\ Answer(r, "notfound")
    /\ UNCHANGED <<op, reqQ, parked, jump, cnt, had, mapVars, wb, flush, aborted>>

HitBuffer(r) ==
    /\ Getting(r) /\ ~Exhausted(r)
    /\ jump[r] = "none" /\ cnt[r] = 0 /\ KeyOf(r) \in wb
    /\ Answer(r, "found")
    /\ UNCHANGED <<op, reqQ, parked, jump, cnt, had, mapVars, wb, flush, aborted>>

\* The entry's page: in the cache, or loaded from flash, or nowhere.  In the last case
\* the request is put on finish_q, parked all the same, and put on finish_q by demand_get.
Lookup(r) ==
    /\ Getting(r) /\ ~Exhausted(r)
    /\ jump[r] = "none" /\ (cnt[r] = 0 => KeyOf(r) \notin wb)
    /\ LET p == PageOf(SlotOf(r)) IN
       IF p \in cache.cached THEN
          /\ jump' = [jump EXCEPT ![r] = "complete"]
          /\ UNCHANGED <<parked, busy, answers>>
       ELSE IF p \in cache.copy THEN Park(r, "list") /\ UNCHANGED answers
       ELSE /\ Park(r, "none")
            /\ answers' = [answers EXCEPT ![r] = @ \o <<"notfound", "notfound">>]
    /\ UNCHANGED <<op, reqQ, cnt, had, mapVars, wb, flush, aborted>>

GetListUp(r) ==
    /\ Getting(r) /\ ~Exhausted(r) /\ jump[r] = "list"
    /\ \E wrote \in BOOLEAN :
          /\ ListUp(PageOf(SlotOf(r)), wrote)
          /\ IF wrote THEN Park(r, "complete")
             ELSE jump' = [jump EXCEPT ![r] = "complete"] /\ UNCHANGED <<parked, busy>>
    /\ UNCHANGED <<op, reqQ, cnt, answers, had, table, maxTry, late, wb, flush, aborted>>

NextProbe(r) == /\ cnt' = [cnt EXCEPT ![r] = @ + 1]
                /\ jump' = [jump EXCEPT ![r] = "none"]

CheckNotParked(r) ==                                         \* mutant: left out of retry_q
    /\ Getting(r) /\ ~Exhausted(r) /\ jump[r] = "complete"
    /\ LET s == SlotOf(r) IN
       \/ /\ Fp[KeyOf(r)] # FpOf(s)
          /\ NextProbe(r) /\ UNCHANGED <<busy, answers>>
       \/ /\ table[s] = KeyOf(r)
          /\ Answer(r, "found") /\ UNCHANGED <<jump, cnt>>
       \/ /\ Fp[KeyOf(r)] = FpOf(s) /\ table[s] # KeyOf(r)
          /\ NextProbe(r) /\ busy' = NoReq /\ UNCHANGED answers
    /\ UNCHANGED <<op, reqQ, parked, had, mapVars, wb, flush, aborted>>

\* cache_check_complete and data_read: an entry with another fingerprint costs nothing,
\* one with another key costs a read of its data.
Check(r) ==
    /\ Getting(r) /\ ~Exhausted(r) /\ jump[r] = "complete"
    /\ LET s == SlotOf(r) IN
       \/ /\ Fp[KeyOf(r)] # FpOf(s)
          /\ NextProbe(r) /\ UNCHANGED <<parked, busy, answers>>
       \/ /\ Fp[KeyOf(r)] = FpOf(s) /\ table[s] = NoKey
          /\ Answer(r, "notfound") /\ UNCHANGED <<parked, jump, cnt>>
       \/ /\ table[s] = KeyOf(r)
          /\ Answer(r, "found") /\ UNCHANGED <<parked, jump, cnt>>
       \/ /\ Fp[KeyOf(r)] = FpOf(s) /\ table[s] \notin {NoKey, KeyOf(r)}
          /\ NextProbe(r)
          /\ parked' = parked \cup {r} /\ busy' = NoReq /\ UNCHANGED answers
    /\ UNCHANGED <<op, reqQ, had, mapVars, wb, flush, aborted>>

(***************************************************************************)
(* __demand_set.  A full buffer is flushed first: all of its entries are   *)
(* mapped before the handler goes on, and no other request runs meanwhile. *)
(***************************************************************************)
Setting(r) == ~aborted /\ busy = r /\ op[r].type = "set"

Insert(r) ==
    /\ Setting(r) /\ Cardinality(wb) # MaxWb
    /\ wb' = wb \cup {KeyOf(r)}
    /\ Answer(r, "stored")
    /\ UNCHANGED <<op, reqQ, parked, jump, cnt, had, mapVars, flush, aborted>>

StartFlush(r) ==
    /\ Setting(r) /\ Cardinality(wb) = MaxWb /\ ~flush.on
    /\ flush' = [NoFlush EXCEPT !.on = TRUE, !.master = wb]
    /\ UNCHANGED <<reqVars, mapVars, wb, aborted>>

EndFlush(r) ==
    /\ Setting(r) /\ flush.on
    /\ flush.master = {} /\ flush.parked = {} /\ flush.cur = NoKey
    /\ flush' = NoFlush /\ wb' = {}
    /\ UNCHANGED <<reqVars, mapVars, aborted>>

\* wb_retry_q when its head is due, else the next of wb_master_q, in the buffer's order.
NextEntry(k) ==
    /\ ~aborted /\ flush.on /\ flush.cur = NoKey
    /\ \/ k \in flush.parked /\ flush' = [flush EXCEPT !.cur = k, !.parked = @ \ {k}]
       \/ /\ k \in flush.master /\ \A j \in flush.master : k <= j
          /\ flush' = [flush EXCEPT !.cur = k, !.master = @ \ {k}]
    /\ UNCHANGED <<reqVars, mapVars, wb, aborted>>

Mapping(k) == ~aborted /\ flush.on /\ flush.cur = k
EntrySlot(k) == Probe(k, flush.cnt[k])
OverflowEarly(k) == flush.cnt[k] >= MaxCollision             \* mutant: off by one
Overflow(k) == flush.cnt[k] > MaxCollision

GoOn(k, j) == flush' = [flush EXCEPT !.jump[k] = j]
ParkEntry(k, j) == flush' = [flush EXCEPT !.cur = NoKey, !.parked = @ \cup {k}, !.jump[k] = j]

CollisionOverflow(k) ==
    /\ Mapping(k) /\ Overflow(k)
    /\ aborted' = TRUE
    /\ UNCHANGED <<reqVars, mapVars, wb, flush>>

EntryLookup(k) ==
    /\ Mapping(k) /\ ~Overflow(k) /\ flush.jump[k] = "none"
    /\ LET p == PageOf(EntrySlot(k)) IN
       IF p \in cache.cached THEN GoOn(k, "complete")
       ELSE IF p \in cache.copy THEN ParkEntry(k, "list")
       ELSE GoOn(k, "list")
    /\ UNCHANGED <<reqVars, mapVars, wb, aborted>>

EntryListUp(k) ==
    /\ Mapping(k) /\ ~Overflow(k) /\ flush.jump[k] = "list"
    /\ \E wrote \in BOOLEAN : /\ ListUp(PageOf(EntrySlot(k)), wrote)
                              /\ IF wrote THEN ParkEntry(k, "complete") ELSE GoOn(k, "complete")
    /\ UNCHANGED <<reqVars, table, maxTry, late, wb, aborted>>

\* wb_update and wb_direct_update: the entry's key takes the slot.
UpdateKeepsTry(k) ==                                 \* mutant: max_try is not raised
    LET s == EntrySlot(k)
        p == PageOf(s)
    IN
    /\ table' = [table EXCEPT ![s] = k]
    /\ cache' = Updated(cache, p)
    /\ late' = IF p \in cache.cached \cup cache.copy THEN late ELSE late \cup {p}
    /\ UNCHANGED maxTry
    /\ flush' = [flush EXCEPT !.cur = NoKey, !.fresh = @ \cup {s}]

Update(k) ==
    LET s == EntrySlot(k)
        p == PageOf(s)
    IN
    /\ table' = [table EXCEPT ![s] = k]
    /\ cache' = Updated(cache, p)
    /\ late' = IF p \in cache.cached \cup cache.copy THEN late ELSE late \cup {p}
    /\ maxTry' = IF flush.cnt[k] > maxTry THEN flush.cnt[k] ELSE maxTry
    /\ flush' = [flush EXCEPT !.cur = NoKey, !.fresh = @ \cup {s}]

\* wb_data_check: a free slot is taken at once; a slot with another fingerprint, or that
\* another entry of this flush has taken (hash_table), is passed over; for the others the
\* data is read, and the entry comes back for its update or for the next probe.
Passed(k, s) == Fp[k] # FpOf(s) \/ s \in flush.fresh

EntryCheckUnread(k) ==                                       \* mutant: no UPDATE_DATA_CHECK
    /\ Mapping(k) /\ ~Overflow(k) /\ flush.jump[k] = "complete"
    /\ LET s == EntrySlot(k) IN
       \/ (table[s] = NoKey \/ ~Passed(k, s)) /\ Update(k)
       \/ /\ table[s] # NoKey /\ Passed(k, s)
          /\ flush' = [flush EXCEPT !.cnt[k] = @ + 1, !.jump[k] = "none"]
          /\ UNCHANGED mapVars
    /\ UNCHANGED <<reqVars, wb, aborted>>

EntryCheck(k) ==
    /\ Mapping(k) /\ ~Overflow(k) /\ flush.jump[k] = "complete"
    /\ LET s == EntrySlot(k) IN
       \/ table[s] = NoKey /\ Update(k)
       \/ /\ table[s] # NoKey /\ Passed(k, s)
          /\ flush' = [flush EXCEPT !.cnt[k] = @ + 1, !.jump[k] = "none"]
          /\ UNCHANGED mapVars
       \/ /\ table[s] = k /\ ~Passed(k, s)
          /\ ParkEntry(k, "update") /\ UNCHANGED mapVars
       \/ /\ table[s] \notin {NoKey, k} /\ ~Passed(k, s)
          /\ flush' = [flush EXCEPT !.cnt[k] = @ + 1, !.jump[k] = "none", !.cur = NoKey,
                                    !.parked = @ \cup {k}]
          /\ UNCHANGED mapVars
    /\ UNCHANGED <<reqVars, wb, aborted>>

EntryUpdate(k) ==
    /\ Mapping(k) /\ ~Overflow(k) /\ flush.jump[k] = "update"
    /\ Update(k)
    /\ UNCHANGED <<reqVars, wb, aborted>>

Get(r) == GiveUp(r) \/ HitBuffer(r) \/ Lookup(r) \/ GetListUp(r) \/ Check(r)
Set(r) == Insert(r) \/ StartFlush(r) \/ EndFlush(r)
Entry(k) == NextEntry(k) \/ CollisionOverflow(k) \/ EntryLookup(k) \/ EntryListUp(k)
              \/ EntryCheck(k) \/ EntryUpdate(k)

algo_thread == \/ \E r \in Requests : Serve(r) \/ Get(r) \/ Set(r)
               \/ \E k \in Keys : Entry(k)

Next == \/ \E r \in Requests, type \in {"get", "set"}, k \in Keys : Submit(r, type, k)
        \/ algo_thread

Spec == Init /\ [][Next]_vars /\ WF_vars(algo_thread)
-----------------------------------------------------------------------------
\* The shape of the state: handlers run one at a time and leave no entry in two queues.
TypeOK ==
    /\ table \in [Slots -> Keys \cup {NoKey}]
    /\ cache.cached \subseteq Pages /\ cache.dirty \subseteq cache.cached
    /\ cache.copy \subseteq Pages /\ cache.nr \in Nat
    /\ wb \subseteq Keys /\ Cardinality(wb) <= MaxWb
    /\ maxTry \in 0 .. MaxCollision
    /\ busy \in Requests \cup {NoReq} /\ parked \subseteq Requests
    /\ flush.on => busy # NoReq /\ op[busy].type = "set"
    /\ flush.master \cap flush.parked = {} /\ flush.cur \notin flush.master \cup flush.parked
    /\ ~flush.on => flush = NoFlush

\* Where a get looks for k: the probes up to the first that holds it.
FirstHit(k) == CHOOSE c \in 0 .. MaxCollision :
    table[Probe(k, c)] = k /\ \A b \in 0 .. c - 1 : table[Probe(k, b)] # k

\* A stored key is where its probes find it: in one entry only, no further than max_try
\* lets a get look, and every entry a get passes on the way holds another key.
StoredReachable == \A k \in InTable :
    /\ \A s, t \in Slots : table[s] = k /\ table[t] = k => s = t
    /\ \E c \in 0 .. maxTry : table[Probe(k, c)] = k
    /\ \A b \in 0 .. FirstHit(k) - 1 : table[Probe(k, b)] # NoKey

\* When a flush is over every key of the buffer is in the table: the entries of a flush
\* never take a slot from each other, nor from a key that was stored before.
NothingLostStep == /\ \A k \in Keys : k \in Stored => k \in Stored'
                   /\ \A s \in Slots : table[s] # NoKey => table'[s] = table[s]

NothingLost == [][NothingLostStep]_vars

\* A get answers "not found" only for a key that was not stored when it was submitted,
\* whatever was evicted, flushed or stored while it was parked.  The exception is an
\* entry updated behind the cache (MappingFound of MapCache).
NotFoundIsAbsent == late = {} =>
    \A r \in had : answers[r] \in {<<>>, <<"found">>}

\* A get finds only what some set has stored.
FoundIsStored == \A r \in Requests :
    op[r].type = "get" /\ answers[r] = <<"found">> => KeyOf(r) \in Stored

\* The program gives up with "hash collision overflow" only when every entry the key can
\* be probed to holds another key; a free entry elsewhere does not help.
OverflowIsFull == aborted => \A c \in 0 .. MaxCollision : table[Probe(flush.cur, c)] # NoKey

\* A request is put on finish_q once, and then no queue of algo_thread holds it; except a
\* get that meets a mapping page which is neither cached nor on flash, and is answered
\* twice and parked.
AnsweredOnce == \A r \in Requests :
    /\ Len(answers[r]) = 2 => r \in parked /\ jump[r] = "none"
    /\ Len(answers[r]) = 1 => r \notin parked /\ busy # r
    /\ Len(answers[r]) <= 2

\* Every submitted request is answered, unless the program aborts: probing and the
\* mapping update of a flush come to an end.
EventuallyAnswered == \A r \in Requests :
    op[r] # NoOp ~> answers[r] # <<>> \/ aborted
=============================================================================
