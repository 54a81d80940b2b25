-------------------------- MODULE KvStreamsProofs ---------------------------
(***************************************************************************)
(* Two modules that one run checks, proved for every instance: first the   *)
(* requests of KvRequests, then, at the second header, the pools of        *)
(* superblocks of Streams.                                                 *)
(*                                                                         *)
(* KvRequests, for every number of keys, requests and entries and every    *)
(* hash: each request is answered once, a stored key is where its probes   *)
(* find it, a flush loses nothing, and a get misses no key that was        *)
(* stored.  The invariant says what a probe sequence has behind it.  A     *)
(* slot never changes its key, so what a flush entry or a get has passed   *)
(* stays passed, over parkings, evictions and other flushes.               *)
(***************************************************************************)
EXTENDS KvRequests, Streams, FiniteSetTheorems, SequenceTheorems, WellFoundedInduction, TLAPS

-----------------------------------------------------------------------------
(***************************************************************************)
(* The table.  Key k is held at its probe c, and the probes before hold    *)
(* other keys.                                                             *)
(***************************************************************************)
Behind(k, c) == \A b \in 0 .. c - 1 : table[Probe(k, b)] \notin {NoKey, k}

Holds(k, c) == table[Probe(k, c)] = k /\ Behind(k, c)

TableSound ==
    /\ table \in [Slots -> Keys \cup {NoKey}]
    /\ maxTry \in 0 .. MaxCollision
    /\ \A s \in Slots : table[s] # NoKey =>
          \E c \in 0 .. maxTry : s = Probe(table[s], c) /\ Holds(table[s], c)

Caches == [cached : SUBSET Pages, dirty : SUBSET Pages, copy : SUBSET Pages, nr : Nat]

\* A page with mappings can be found, unless it was updated while it was nowhere.
CacheSound ==
    /\ cache \in Caches
    /\ cache.dirty \subseteq cache.cached
    /\ \A s \in Slots : table[s] # NoKey => PageOf(s) \in cache.dirty \cup cache.copy \cup late

-----------------------------------------------------------------------------
(***************************************************************************)
(* The flush.  Its entries are in one queue each, or done and in the       *)
(* table; the slots it has taken (hash_table) hold the keys that are done. *)
(***************************************************************************)
Jumps == {"none", "list", "complete", "update"}

Pending == flush.master \cup flush.parked \cup ({flush.cur} \ {NoKey})

Flushes == [on : BOOLEAN, master : SUBSET Keys, parked : SUBSET Keys,
            cur : Keys \cup {NoKey}, fresh : SUBSET Slots,
            jump : [Keys -> Jumps], cnt : [Keys -> Nat]]

FlushTypes ==
    /\ flush \in Flushes
    /\ wb \subseteq Keys /\ IsFiniteSet(wb) /\ Cardinality(wb) <= MaxWb

FlushSound ==
    /\ FlushTypes
    /\ ~flush.on => flush = NoFlush
    /\ flush.on => /\ busy # NoReq /\ op[busy].type = "set"
                   /\ Cardinality(wb) = MaxWb
                   /\ wb \ Pending \subseteq InTable
    /\ flush.master \cap flush.parked = {} /\ flush.cur \notin flush.master \cup flush.parked
    /\ Pending \subseteq wb
    /\ \A s \in flush.fresh : table[s] \notin Pending
    /\ \A k \in Pending : /\ Behind(k, flush.cnt[k])
                          /\ flush.jump[k] = "update" => table[EntrySlot(k)] = k

-----------------------------------------------------------------------------
(***************************************************************************)
(* The requests.  Each is in one place, and only the one that met a page   *)
(* which is nowhere stays in retry_q after its answers.                    *)
(***************************************************************************)
Answers == {<<>>, <<"notfound">>, <<"found">>, <<"stored">>, <<"notfound", "notfound">>}

Ops == [type : {"none", "get", "set"}, key : Keys \cup {NoKey}]

ReqTypes ==
    /\ op \in [Requests -> Ops] /\ answers \in [Requests -> Answers]
    /\ jump \in [Requests -> Jumps] /\ cnt \in [Requests -> Nat]
    /\ reqQ \in Seq(Requests) /\ parked \subseteq Requests /\ busy \in Requests \cup {NoReq}
    /\ had \subseteq Requests
    /\ \A r \in Requests : op[r] # NoOp => op[r].type # "none" /\ op[r].key \in Keys

Untouched(r) == answers[r] = <<>> /\ jump[r] = "none" /\ cnt[r] = 0

ReqSound ==
    /\ ReqTypes
    /\ \A i, j \in 1 .. Len(reqQ) : reqQ[i] = reqQ[j] => i = j
    /\ \A i \in 1 .. Len(reqQ) : /\ reqQ[i] # busy /\ reqQ[i] \notin parked
                                 /\ Untouched(reqQ[i]) /\ op[reqQ[i]] # NoOp
    /\ busy # NoReq => answers[busy] = <<>> /\ busy \notin parked /\ op[busy] # NoOp
    /\ \A r \in parked : /\ op[r] # NoOp
                         /\ answers[r] # <<>> => Len(answers[r]) = 2 /\ jump[r] = "none"
    /\ \A r \in Requests : Len(answers[r]) = 2 => r \in parked
    /\ \A r \in Requests : op[r] = NoOp => Untouched(r)

\* A get for a key that was stored has that key ahead of it once it probes the table.
Started(r) == jump[r] # "none" \/ cnt[r] > 0

GetSound ==
    /\ \A r \in had : op[r].type = "get" /\ KeyOf(r) \in Stored
    /\ \A r \in had : answers[r] = <<>> /\ Started(r) =>
          \E c \in cnt[r] .. maxTry : Holds(KeyOf(r), c)
    /\ NotFoundIsAbsent

KvInv == TableSound /\ CacheSound /\ FlushSound /\ ReqSound /\ GetSound /\ OverflowIsFull

-----------------------------------------------------------------------------
(***************************************************************************)
(* Probes and the records.                                                 *)
(***************************************************************************)
LEMMA ProbeSlot ==
    ASSUME KvAssumption, NEW k \in Keys, NEW c \in Nat
    PROVE  Probe(k, c) \in Slots
<1>1. PICK h : h = Hash[k] + c + c * c
  OBVIOUS
<1>2. c * c \in Nat
  OBVIOUS
<1>3. h \in Nat /\ NrEntries \in Nat /\ NrEntries > 0
  BY <1>1, <1>2 DEF KvAssumption
<1>4. h % NrEntries \in 0 .. NrEntries - 1
  BY <1>3
<1> QED BY <1>1, <1>4 DEF Probe, Slots

\* A flush is a record of these fields.
IsFlush(x) == x = [on |-> x.on, master |-> x.master, parked |-> x.parked, cur |-> x.cur,
                   fresh |-> x.fresh, jump |-> x.jump, cnt |-> x.cnt]

IsKvCache(c) == c = [cached |-> c.cached, dirty |-> c.dirty, copy |-> c.copy, nr |-> c.nr]

\* A flush record, field by field.
LEMMA FlushFields ==
    ASSUME NEW x
    PROVE  x \in Flushes <=>
              /\ IsFlush(x) /\ x.on \in BOOLEAN
              /\ x.master \subseteq Keys /\ x.parked \subseteq Keys
              /\ x.cur \in Keys \cup {NoKey} /\ x.fresh \subseteq Slots
              /\ x.jump \in [Keys -> Jumps] /\ x.cnt \in [Keys -> Nat]
BY DEF Flushes, IsFlush

\* A cache record, field by field.
LEMMA CacheFields ==
    ASSUME NEW c
    PROVE  c \in Caches <=>
              /\ IsKvCache(c) /\ c.cached \subseteq Pages /\ c.dirty \subseteq Pages
              /\ c.copy \subseteq Pages /\ c.nr \in Nat
BY DEF Caches, IsKvCache

\* What is behind a key stays behind it, while no slot changes its key.
SlotsKept == \A s \in Slots : table[s] # NoKey => table'[s] = table[s]

\* While every taken entry keeps its key, a key stays within reach of its probes.
LEMMA HoldsStable ==
    ASSUME KvAssumption, SlotsKept, NEW k \in Keys, NEW c \in Nat
    PROVE  (Behind(k, c) => Behind(k, c)') /\ (Holds(k, c) => Holds(k, c)')
<1>1. k # NoKey /\ Probe(k, c) \in Slots
  BY ProbeSlot DEF KvAssumption, NoKey
<1>2. ASSUME Behind(k, c) PROVE Behind(k, c)'
  <2> SUFFICES ASSUME NEW b \in 0 .. c - 1 PROVE table'[Probe(k, b)] \notin {NoKey, k}
    BY DEF Behind
  <2>1. b \in Nat
    OBVIOUS
  <2>2. Probe(k, b) \in Slots /\ table[Probe(k, b)] \notin {NoKey, k}
    BY <1>2, <2>1, ProbeSlot DEF Behind
  <2> QED BY <2>2 DEF SlotsKept
<1> QED BY <1>1, <1>2 DEF Holds, SlotsKept

\* A stored key is held at one probe, and no other slot has it.
LEMMA HeldOnce ==
    ASSUME KvAssumption, TableSound, NEW k \in InTable
    PROVE  /\ k \in Keys
           /\ \E c \in 0 .. maxTry : Holds(k, c) /\ \A s \in Slots : table[s] = k => s = Probe(k, c)
<1>1. k \in Keys /\ k # NoKey /\ \E s \in Slots : table[s] = k
  BY DEF InTable, TableSound
<1>2. PICK s \in Slots : table[s] = k
  BY <1>1
<1>3. PICK c \in 0 .. maxTry : s = Probe(k, c) /\ Holds(k, c)
  BY <1>1, <1>2 DEF TableSound
<1>4. ASSUME NEW t \in Slots, table[t] = k
      PROVE  t = Probe(k, c)
  <2>1. PICK d \in 0 .. maxTry : t = Probe(k, d) /\ Holds(k, d)
    BY <1>1, <1>4 DEF TableSound
  <2>2. c \in Nat /\ d \in Nat
    BY DEF TableSound
  <2>3. CASE c < d
    BY <1>3, <2>1, <2>2, <2>3 DEF Holds, Behind
  <2>4. CASE d < c
    BY <1>3, <2>1, <2>2, <2>4 DEF Holds, Behind
  <2>5. CASE c = d
    BY <2>1, <2>5
  <2> QED BY <2>2, <2>3, <2>4, <2>5
<1> QED BY <1>1, <1>3, <1>4

\* While every taken entry keeps its key, no key leaves the table.
LEMMA StoredStays ==
    ASSUME SlotsKept
    PROVE  InTable \subseteq InTable'
BY DEF SlotsKept, InTable

-----------------------------------------------------------------------------
(***************************************************************************)
(* The parts a step leaves alone.                                          *)
(***************************************************************************)
LEMMA KeepTable ==
    ASSUME TableSound, table' = table, maxTry' = maxTry
    PROVE  TableSound'
BY DEF TableSound, Holds, Behind

\* A step that leaves the table and the cache alone keeps what is known of them.
LEMMA KeepCache ==
    ASSUME CacheSound, table' = table, cache' = cache, late' = late
    PROVE  CacheSound'
BY DEF CacheSound

\* A step that leaves the requests alone keeps what is known of them.
LEMMA KeepReq ==
    ASSUME ReqSound, UNCHANGED reqVars
    PROVE  ReqSound'
<1>1. /\ op' = op /\ reqQ' = reqQ /\ parked' = parked /\ busy' = busy /\ jump' = jump
      /\ cnt' = cnt /\ answers' = answers /\ had' = had
  BY DEF reqVars
<1> QED BY <1>1 DEF ReqSound, ReqTypes, Untouched

\* A step that leaves the flush and the write buffer alone keeps what is known of them.
LEMMA KeepFlush ==
    ASSUME FlushSound, table' = table, flush' = flush, wb' = wb,
           flush.on => busy' = busy /\ op'[busy] = op[busy]
    PROVE  FlushSound'
<1>1. FlushTypes' /\ Pending' = Pending /\ InTable' = InTable
  BY DEF FlushSound, FlushTypes, Pending, InTable
<1>2. flush.on => busy' # NoReq /\ op'[busy'].type = "set" /\ Cardinality(wb') = MaxWb
                  /\ wb' \ Pending' \subseteq InTable'
  BY <1>1 DEF FlushSound
<1>3. \A k \in Pending : Behind(k, flush.cnt[k])' /\ EntrySlot(k)' = EntrySlot(k)
  BY DEF FlushSound, Behind, EntrySlot
<1> QED BY <1>1, <1>2, <1>3 DEF FlushSound

\* While the table only grows and no request moves.
LEMMA KeepGet ==
    ASSUME KvAssumption, TableSound, ReqTypes, GetSound, SlotsKept, UNCHANGED reqVars,
           Stored \subseteq Stored', maxTry' \in Nat, maxTry' >= maxTry,
           late' = {} => late = {}
    PROVE  GetSound'
<1>1. op' = op /\ jump' = jump /\ cnt' = cnt /\ answers' = answers /\ had' = had
  BY DEF reqVars
<1>2. ASSUME NEW r \in had, answers[r] = <<>>, Started(r)
      PROVE  \E c \in cnt[r] .. maxTry' : Holds(KeyOf(r), c)'
  <2>1. PICK c \in cnt[r] .. maxTry : Holds(KeyOf(r), c)
    BY <1>2 DEF GetSound
  <2>2. r \in Requests /\ op[r] # NoOp /\ cnt[r] \in Nat
    BY DEF GetSound, ReqTypes, NoOp
  <2>3. c \in Nat /\ KeyOf(r) \in Keys /\ c \in cnt[r] .. maxTry'
    BY <2>2 DEF TableSound, ReqTypes, KeyOf
  <2>4. KeyOf(r)' = KeyOf(r)
    BY <1>1 DEF KeyOf
  <2> QED BY <2>1, <2>3, <2>4, HoldsStable DEF Holds, Behind
<1>3. \A r \in had : KeyOf(r)' = KeyOf(r) /\ (Started(r)' <=> Started(r))
  BY <1>1 DEF KeyOf, Started
<1>4. NotFoundIsAbsent'
  BY <1>1 DEF GetSound, NotFoundIsAbsent
<1> QED BY <1>1, <1>2, <1>3, <1>4 DEF GetSound

-----------------------------------------------------------------------------
(***************************************************************************)
(* The cache: what list_up and update keep.                                *)
(***************************************************************************)
\* An evicted page that was dirty has a copy.
LEMMA ListUpKeeps ==
    ASSUME KvAssumption, CacheSound, NEW p \in Pages, NEW wrote \in BOOLEAN,
           ListUp(p, wrote), table' = table, late' = late
    PROVE  CacheSound'
<1>1. /\ IsKvCache(cache) /\ cache.cached \subseteq Pages /\ cache.dirty \subseteq cache.cached
      /\ cache.copy \subseteq Pages /\ cache.nr \in Nat
  BY CacheFields DEF CacheSound
<1>2. CASE cache.nr < MaxCached /\ cache' = ListedUp(cache, p)
  <2>1. /\ cache'.cached = cache.cached \cup {p} /\ cache'.dirty = cache.dirty
        /\ cache'.copy = cache.copy /\ cache'.nr = cache.nr + 1 /\ IsKvCache(cache')
    BY <1>1, <1>2 DEF ListedUp, IsKvCache
  <2>2. cache' \in Caches
    BY <1>1, <2>1, CacheFields
  <2> QED BY <1>1, <2>1, <2>2 DEF CacheSound, PageOf
<1>3. ASSUME cache.nr >= MaxCached, NEW v \in cache.cached,
             cache' = ListedUp(Evicted(cache, v), p)
      PROVE  CacheSound'
  <2>1. PICK e : e = Evicted(cache, v)
    OBVIOUS
  <2>2. /\ e.cached = cache.cached \ {v} /\ e.dirty = cache.dirty \ {v}
        /\ e.copy = (IF v \in cache.dirty THEN cache.copy \cup {v} ELSE cache.copy)
        /\ e.nr = cache.nr - 1 /\ IsKvCache(e)
    BY <1>1, <2>1 DEF Evicted, IsKvCache
  <2>3. /\ cache'.cached = e.cached \cup {p} /\ cache'.dirty = e.dirty
        /\ cache'.copy = e.copy /\ cache'.nr = e.nr + 1 /\ IsKvCache(cache')
    BY <1>3, <2>1, <2>2 DEF ListedUp, IsKvCache
  <2>4. cache' \in Caches
    <3>1. cache'.nr \in Nat
      BY <1>1, <1>3, <2>2, <2>3 DEF KvAssumption
    <3> QED BY <1>1, <2>2, <2>3, <3>1, CacheFields
  <2>5. cache.dirty \cup cache.copy \subseteq cache'.dirty \cup cache'.copy
    BY <2>2, <2>3
  <2> QED BY <1>1, <2>2, <2>3, <2>4, <2>5 DEF CacheSound, PageOf
<1> QED BY <1>2, <1>3 DEF ListUp

-----------------------------------------------------------------------------
(***************************************************************************)
(* The steps of algo_thread for a request r, which it runs: r is answered, *)
(* parked, answered and parked, or goes on.                                *)
(***************************************************************************)
LEMMA ReqMoves ==
    ASSUME KvAssumption, ReqSound, NEW r \in Requests, busy = r,
           NEW j \in Jumps, NEW n \in Nat, NEW a \in Answers,
           op' = op, reqQ' = reqQ, had' = had,
           jump' = [jump EXCEPT ![r] = j], cnt' = [cnt EXCEPT ![r] = n],
           answers' = [answers EXCEPT ![r] = a],
           busy' \in {r, NoReq}, parked' \in {parked, parked \cup {r}},
           a # <<>> => busy' = NoReq, busy' = r => parked' = parked,
           r \in parked' /\ a # <<>> => Len(a) = 2 /\ j = "none",
           Len(a) = 2 => r \in parked'
    PROVE  ReqSound'
<1>1. ReqTypes /\ answers[r] = <<>> /\ r \notin parked /\ op[r] # NoOp
  BY DEF ReqSound, KvAssumption, NoReq
<1>2. ReqTypes'
  BY <1>1 DEF ReqTypes
<1>3. /\ answers'[r] = a /\ jump'[r] = j /\ cnt'[r] = n
      /\ \A q \in Requests : q # r =>
            answers'[q] = answers[q] /\ jump'[q] = jump[q] /\ cnt'[q] = cnt[q]
  BY <1>1 DEF ReqTypes
<1>4. \A i \in 1 .. Len(reqQ) : reqQ[i] \in Requests /\ reqQ[i] # r
  BY <1>1 DEF ReqSound, ReqTypes
<1>5. \A i \in 1 .. Len(reqQ') : /\ reqQ'[i] # busy' /\ reqQ'[i] \notin parked'
                                  /\ Untouched(reqQ[i])' /\ op'[reqQ'[i]] # NoOp
  <2> SUFFICES ASSUME NEW i \in 1 .. Len(reqQ)
               PROVE  /\ reqQ[i] # busy' /\ reqQ[i] \notin parked'
                      /\ Untouched(reqQ[i])' /\ op[reqQ[i]] # NoOp
    OBVIOUS
  <2>1. reqQ[i] \notin parked /\ Untouched(reqQ[i]) /\ op[reqQ[i]] # NoOp
    BY DEF ReqSound
  <2>2. reqQ[i] # NoReq
    BY <1>4 DEF KvAssumption, NoReq
  <2> QED BY <1>3, <1>4, <2>1, <2>2 DEF Untouched
<1>6. \A q \in parked' : /\ op'[q] # NoOp
                         /\ answers'[q] # <<>> => Len(answers'[q]) = 2 /\ jump'[q] = "none"
  <2> SUFFICES ASSUME NEW q \in parked'
               PROVE  /\ op[q] # NoOp
                      /\ answers'[q] # <<>> => Len(answers'[q]) = 2 /\ jump'[q] = "none"
    OBVIOUS
  <2>1. CASE q = r
    BY <1>1, <1>3, <2>1
  <2>2. CASE q # r
    <3>1. q \in parked /\ q \in Requests
      BY <1>1, <2>2 DEF ReqTypes
    <3> QED BY <1>3, <2>2, <3>1 DEF ReqSound
  <2> QED BY <2>1, <2>2
<1>7. \A q \in Requests : Len(answers'[q]) = 2 => q \in parked'
  BY <1>3 DEF ReqSound
<1>8. \A q \in Requests : op'[q] = NoOp => Untouched(q)'
  BY <1>1, <1>3 DEF ReqSound, Untouched
<1>9. busy' # NoReq => answers'[busy'] = <<>> /\ busy' \notin parked' /\ op'[busy'] # NoOp
  BY <1>1, <1>3
<1> QED BY <1>2, <1>5, <1>6, <1>7, <1>8, <1>9 DEF ReqSound

\* A step of one request's get keeps what is known of the others.
LEMMA GetMoves ==
    ASSUME ReqTypes, GetSound, NEW r \in Requests,
           table' = table, maxTry' = maxTry, late' = late, Stored \subseteq Stored',
           op' = op, had' = had,
           \A q \in Requests : q # r =>
              answers'[q] = answers[q] /\ jump'[q] = jump[q] /\ cnt'[q] = cnt[q],
           r \in had =>
              /\ answers'[r] = <<>> /\ Started(r)' =>
                    \E c \in cnt'[r] .. maxTry : Holds(KeyOf(r), c)
              /\ late = {} => answers'[r] \in {<<>>, <<"found">>}
    PROVE  GetSound'
<1>1. \A q \in had : q \in Requests /\ KeyOf(q)' = KeyOf(q) /\ op[q].type = "get" /\ KeyOf(q) \in Stored'
  BY DEF ReqTypes, GetSound, KeyOf
<1>2. \A q \in had : q # r => (Started(q)' <=> Started(q))
  BY <1>1 DEF Started
<1>3. \A k, c : Holds(k, c)' <=> Holds(k, c)
  BY DEF Holds, Behind
<1>4. ASSUME NEW q \in had, answers'[q] = <<>>, Started(q)'
      PROVE  \E c \in cnt'[q] .. maxTry' : Holds(KeyOf(q), c)'
  <2>1. CASE q = r
    BY <1>1, <1>3, <1>4, <2>1
  <2>2. CASE q # r
    <3>1. \E c \in cnt[q] .. maxTry : Holds(KeyOf(q), c)
      BY <1>1, <1>2, <1>4, <2>2 DEF GetSound
    <3> QED BY <1>1, <1>3, <2>2, <3>1
  <2> QED BY <2>1, <2>2
<1>5. NotFoundIsAbsent'
  BY <1>1 DEF GetSound, NotFoundIsAbsent
<1> QED BY <1>1, <1>4, <1>5 DEF GetSound

\* A get that runs and is not answered from the buffer has its stored key ahead.
LEMMA Ahead ==
    ASSUME KvAssumption, TableSound, ReqSound, GetSound, NEW r \in had, Getting(r),
           Started(r) \/ KeyOf(r) \notin wb
    PROVE  \E c \in cnt[r] .. maxTry : Holds(KeyOf(r), c)
<1>1. r \in Requests /\ answers[r] = <<>> /\ KeyOf(r) \in Stored
  BY DEF GetSound, ReqSound, ReqTypes, Getting, KvAssumption, NoReq
<1>2. CASE Started(r)
  BY <1>1, <1>2 DEF GetSound
<1>3. CASE ~Started(r)
  <2>1. KeyOf(r) \in InTable /\ cnt[r] = 0
    BY <1>1, <1>3 DEF Stored, Started, ReqSound, ReqTypes
  <2> QED BY <2>1, HeldOnce
<1> QED BY <1>2, <1>3

-----------------------------------------------------------------------------
(***************************************************************************)
(* The entries of a flush.  Entry k goes on, or waits in a queue, with a   *)
(* new probe count n and resume point j.                                   *)
(***************************************************************************)
LEMMA EntryMoves ==
    ASSUME KvAssumption, FlushSound, NEW k \in Keys, flush.on, flush.cur = k,
           NEW j \in Jumps, NEW n \in Nat, Behind(k, n),
           j = "update" => table[Probe(k, n)] = k,
           table' = table, wb' = wb, op' = op, busy' = busy,
           IsFlush(flush'), flush'.on = TRUE, flush'.master = flush.master,
           flush'.fresh = flush.fresh,
           flush'.jump = [flush.jump EXCEPT ![k] = j],
           flush'.cnt = [flush.cnt EXCEPT ![k] = n],
           \/ flush'.cur = k /\ flush'.parked = flush.parked
           \/ flush'.cur = NoKey /\ flush'.parked = flush.parked \cup {k}
    PROVE  FlushSound'
<1>1. /\ flush \in Flushes /\ FlushTypes /\ k # NoKey
      /\ flush.master \subseteq Keys /\ flush.parked \subseteq Keys
      /\ flush.jump \in [Keys -> Jumps] /\ flush.cnt \in [Keys -> Nat]
      /\ flush.fresh \subseteq Slots
  BY FlushFields DEF FlushSound, FlushTypes, KvAssumption, NoKey
<1>2. flush' \in Flushes
  <2>1. /\ flush'.jump \in [Keys -> Jumps] /\ flush'.cnt \in [Keys -> Nat]
        /\ flush'.parked \subseteq Keys /\ flush'.cur \in Keys \cup {NoKey}
    BY <1>1
  <2> QED BY <1>1, <2>1, FlushFields
<1>3. Pending' = Pending /\ k \in Pending /\ Pending \subseteq Keys /\ InTable' = InTable
  BY <1>1 DEF Pending, InTable, NoKey
<1>4. FlushTypes'
  BY <1>1, <1>2 DEF FlushTypes
<1>5. flush'.master \cap flush'.parked = {} /\ flush'.cur \notin flush'.master \cup flush'.parked
  BY <1>1 DEF FlushSound, KvAssumption, NoKey
<1>6. ASSUME NEW i \in Pending
      PROVE  /\ Behind(i, flush.cnt[i])'
             /\ flush'.jump[i] = "update" => table'[EntrySlot(i)'] = i
  <2>1. CASE i = k
    <3>1. flush'.cnt[i] = n /\ flush'.jump[i] = j
      BY <1>1, <2>1
    <3> QED BY <2>1, <3>1 DEF Behind, EntrySlot
  <2>2. CASE i # k
    <3>1. flush'.cnt[i] = flush.cnt[i] /\ flush'.jump[i] = flush.jump[i]
      BY <1>1, <1>3, <2>2
    <3>2. /\ Behind(i, flush.cnt[i])
          /\ flush.jump[i] = "update" => table[Probe(i, flush.cnt[i])] = i
      BY DEF FlushSound, EntrySlot
    <3> QED BY <3>1, <3>2 DEF Behind, EntrySlot
  <2> QED BY <2>1, <2>2
<1>7. \A s \in flush'.fresh : table'[s] \notin Pending'
  BY <1>3 DEF FlushSound
<1>8. /\ busy' # NoReq /\ op'[busy'].type = "set" /\ Cardinality(wb') = MaxWb
      /\ wb' \ Pending' \subseteq InTable' /\ Pending' \subseteq wb'
  BY <1>3 DEF FlushSound
<1> QED BY <1>3, <1>4, <1>5, <1>6, <1>7, <1>8 DEF FlushSound

\* The entry that runs, as the steps find it.
LEMMA EntryFound ==
    ASSUME KvAssumption, KvInv, NEW k \in Keys, Mapping(k)
    PROVE  /\ flush.on /\ flush.cur = k /\ k \in Pending /\ k # NoKey
           /\ flush \in Flushes /\ IsFlush(flush)
           /\ flush.jump \in [Keys -> Jumps] /\ flush.cnt \in [Keys -> Nat]
           /\ flush.cnt[k] \in Nat /\ flush.jump[k] \in Jumps
           /\ Behind(k, flush.cnt[k]) /\ EntrySlot(k) \in Slots
           /\ ~aborted
<1>1. /\ flush.on /\ flush.cur = k /\ k # NoKey /\ ~aborted
      /\ flush \in Flushes /\ FlushSound
  BY DEF Mapping, KvAssumption, NoKey, KvInv, FlushSound, FlushTypes
<1>2. k \in Pending
  BY <1>1 DEF Pending
<1>3. flush.jump \in [Keys -> Jumps] /\ flush.cnt \in [Keys -> Nat] /\ IsFlush(flush)
  BY <1>1, FlushFields
<1>4. flush.cnt[k] \in Nat /\ flush.jump[k] \in Jumps
  BY <1>3
<1>5. Behind(k, flush.cnt[k])
  BY <1>1, <1>2 DEF FlushSound
<1>6. EntrySlot(k) \in Slots
  BY <1>4, ProbeSlot DEF EntrySlot
<1> QED BY <1>1, <1>2, <1>3, <1>4, <1>5, <1>6

(***************************************************************************)
(* The step that writes the table, at a slot that is free or the entry's   *)
(* own.                                                                    *)
(***************************************************************************)
LEMMA UpdateKeeps ==
    ASSUME KvAssumption, KvInv, NEW k \in Keys, Mapping(k), ~Overflow(k), Update(k),
           table[EntrySlot(k)] \in {NoKey, k}, UNCHANGED <<reqVars, wb, aborted>>
    PROVE  KvInv' /\ SlotsKept /\ Stored \subseteq Stored'
<1>0. PICK n : n = flush.cnt[k]
  OBVIOUS
<1>1. /\ flush.on /\ flush.cur = k /\ k \in Pending /\ k # NoKey
      /\ flush \in Flushes /\ IsFlush(flush) /\ n \in Nat
      /\ Behind(k, n) /\ EntrySlot(k) \in Slots /\ ~aborted
  BY <1>0, EntryFound
<1>2. PICK s : s = EntrySlot(k)
  OBVIOUS
<1>3. /\ TableSound /\ CacheSound /\ FlushSound /\ ReqSound /\ GetSound
      /\ table \in [Slots -> Keys \cup {NoKey}] /\ maxTry \in 0 .. MaxCollision
      /\ s \in Slots /\ s = Probe(k, n)
  BY <1>0, <1>1, <1>2 DEF KvInv, TableSound, EntrySlot
<1>4. PICK p : p = PageOf(s)
  OBVIOUS
<1>5. /\ table' = [table EXCEPT ![s] = k] /\ cache' = Updated(cache, p)
      /\ late' = (IF p \in cache.cached \cup cache.copy THEN late ELSE late \cup {p})
      /\ maxTry' = (IF n > maxTry THEN n ELSE maxTry)
      /\ flush' = [flush EXCEPT !.cur = NoKey, !.fresh = @ \cup {s}]
  BY <1>0, <1>2, <1>4 DEF Update
<1>6. wb' = wb /\ aborted' = aborted /\ op' = op /\ busy' = busy
  BY DEF reqVars
<1>7. SlotsKept /\ table'[s] = k /\ \A t \in Slots : t # s => table'[t] = table[t]
  BY <1>2, <1>3, <1>5 DEF SlotsKept
<1>8. InTable \subseteq InTable' /\ k \in InTable'
  <2>1. k \in InTable'
    BY <1>1, <1>3, <1>7 DEF InTable
  <2> QED BY <1>7, <2>1, StoredStays
<1>9. Stored \subseteq Stored'
  BY <1>6, <1>8 DEF Stored
<1>10. maxTry' \in 0 .. MaxCollision /\ maxTry' >= maxTry /\ n \in 0 .. maxTry' /\ maxTry' \in Nat
  BY <1>0, <1>1, <1>3, <1>5 DEF Overflow, KvAssumption
<1>11. TableSound'
  <2>1. table' \in [Slots -> Keys \cup {NoKey}]
    BY <1>3, <1>5
  <2>2. ASSUME NEW t \in Slots, table'[t] # NoKey
        PROVE  \E c \in 0 .. maxTry' : t = Probe(table'[t], c) /\ Holds(table[t], c)'
    <3>1. CASE t = s
      <4>1. Behind(k, n)'
        BY <1>1, <1>7, HoldsStable
      <4>2. table'[t] = k /\ t = Probe(k, n)
        BY <1>3, <1>7, <3>1
      <4>3. Holds(table[t], n)'
        BY <4>1, <4>2 DEF Holds, Behind
      <4> QED BY <1>10, <4>2, <4>3
    <3>2. CASE t # s
      <4>1. PICK i : i = table[t]
        OBVIOUS
      <4>2. table'[t] = i /\ i \in Keys
        BY <1>3, <1>7, <2>2, <3>2, <4>1
      <4>3. PICK c \in 0 .. maxTry : t = Probe(i, c) /\ Holds(i, c)
        BY <1>3, <2>2, <4>1, <4>2 DEF TableSound
      <4>4. Holds(i, c)' /\ c \in 0 .. maxTry'
        BY <1>3, <1>7, <1>10, <4>2, <4>3, HoldsStable
      <4>5. Holds(table[t], c)'
        BY <4>2, <4>4 DEF Holds, Behind
      <4> QED BY <4>2, <4>3, <4>4, <4>5
    <3> QED BY <3>1, <3>2
  <2> QED BY <1>10, <2>1, <2>2 DEF TableSound
<1>12. CacheSound'
  <2>1. /\ IsKvCache(cache) /\ cache.cached \subseteq Pages /\ cache.dirty \subseteq cache.cached
        /\ cache.copy \subseteq Pages /\ cache.nr \in Nat
    BY <1>3, CacheFields DEF CacheSound
  <2>2. p \in Pages
    BY <1>3, <1>4 DEF PageOf, Pages
  <2>3. /\ IsKvCache(cache') /\ cache'.cached = cache.cached /\ cache'.nr = cache.nr
        /\ IF p \in cache.cached
           THEN cache'.dirty = cache.dirty \cup {p} /\ cache'.copy = cache.copy \ {p}
           ELSE cache'.dirty = cache.dirty /\ cache'.copy = cache.copy
    BY <1>5, <2>1 DEF Updated, IsKvCache
  <2>4. cache' \in Caches /\ cache'.dirty \subseteq cache'.cached
    BY <2>1, <2>2, <2>3, CacheFields
  <2>5. /\ cache.dirty \cup cache.copy \cup late \subseteq cache'.dirty \cup cache'.copy \cup late'
        /\ p \in cache'.dirty \cup cache'.copy \cup late'
    BY <1>5, <2>3
  <2>6. \A t \in Slots : table'[t] # NoKey => PageOf(t) \in cache'.dirty \cup cache'.copy \cup late'
    <3> SUFFICES ASSUME NEW t \in Slots, table'[t] # NoKey
                 PROVE  PageOf(t) \in cache'.dirty \cup cache'.copy \cup late'
      OBVIOUS
    <3>1. CASE t = s
      BY <1>4, <2>5, <3>1
    <3>2. CASE t # s
      BY <1>3, <1>7, <2>5, <3>2 DEF CacheSound
    <3> QED BY <3>1, <3>2
  <2> QED BY <2>4, <2>6 DEF CacheSound, PageOf
<1>13. FlushSound'
  <2>1. /\ flush.master \subseteq Keys /\ flush.parked \subseteq Keys /\ flush.fresh \subseteq Slots
        /\ flush.jump \in [Keys -> Jumps] /\ flush.cnt \in [Keys -> Nat]
    BY <1>1, FlushFields
  <2>2. /\ IsFlush(flush') /\ flush'.on = TRUE /\ flush'.master = flush.master
        /\ flush'.parked = flush.parked /\ flush'.cur = NoKey
        /\ flush'.fresh = flush.fresh \cup {s}
        /\ flush'.jump = flush.jump /\ flush'.cnt = flush.cnt
    BY <1>1, <1>5 DEF IsFlush
  <2>3. FlushTypes'
    <3>1. flush' \in Flushes
      BY <1>3, <2>1, <2>2, FlushFields
    <3> QED BY <1>3, <1>6, <3>1 DEF FlushSound, FlushTypes
  <2>4. Pending' = Pending \ {k} /\ Pending \subseteq Keys
    BY <1>1, <1>3, <2>1, <2>2 DEF Pending, FlushSound
  <2>5. /\ busy' # NoReq /\ op'[busy'].type = "set" /\ Cardinality(wb') = MaxWb
        /\ wb' \ Pending' \subseteq InTable' /\ Pending' \subseteq wb'
    BY <1>1, <1>3, <1>6, <1>8, <2>4 DEF FlushSound
  <2>6. flush'.master \cap flush'.parked = {} /\ flush'.cur \notin flush'.master \cup flush'.parked
    BY <1>3, <2>1, <2>2 DEF FlushSound, KvAssumption, NoKey
  <2>7. \A t \in flush'.fresh : table'[t] \notin Pending'
    BY <1>3, <1>7, <2>1, <2>2, <2>4 DEF FlushSound
  <2>8. ASSUME NEW i \in Pending'
        PROVE  /\ Behind(i, flush.cnt[i])'
               /\ flush'.jump[i] = "update" => table'[EntrySlot(i)'] = i
    <3>1. i \in Pending /\ i \in Keys /\ i # NoKey
      BY <2>4 DEF KvAssumption, NoKey
    <3>2. flush.cnt[i] \in Nat /\ flush'.cnt[i] = flush.cnt[i]
      BY <2>1, <2>2, <3>1
    <3>3. Behind(i, flush.cnt[i]) /\ Probe(i, flush.cnt[i]) \in Slots
      BY <1>3, <3>1, <3>2, ProbeSlot DEF FlushSound
    <3>4. PICK m : m = flush.cnt[i]
      OBVIOUS
    <3>5. Behind(i, m)'
      BY <1>7, <3>1, <3>2, <3>3, <3>4, HoldsStable
    <3>6. flush.jump[i] = "update" => table[Probe(i, m)] = i
      BY <1>3, <3>1, <3>4 DEF FlushSound, EntrySlot
    <3>7. flush.jump[i] = "update" => table'[Probe(i, m)] = i
      BY <1>7, <3>1, <3>3, <3>4, <3>6 DEF SlotsKept
    <3> QED BY <2>2, <3>2, <3>4, <3>5, <3>7 DEF Behind, EntrySlot
  <2> QED BY <2>2, <2>3, <2>5, <2>6, <2>7, <2>8 DEF FlushSound
<1>14. ReqSound'
  BY <1>3, KeepReq
<1>15. GetSound'
  BY <1>3, <1>5, <1>7, <1>9, <1>10, KeepGet DEF ReqSound
<1>16. OverflowIsFull'
  BY <1>1, <1>6 DEF OverflowIsFull
<1> QED BY <1>7, <1>9, <1>11, <1>12, <1>13, <1>14, <1>15, <1>16 DEF KvInv

-----------------------------------------------------------------------------
(***************************************************************************)
(* The steps.  Advance is what each does: the invariant holds after it, no *)
(* slot changes its key, and no stored key is lost.                        *)
(***************************************************************************)
Advance == KvInv' /\ SlotsKept /\ Stored \subseteq Stored'

\* A non-empty set of naturals has a least element.
LEMMA NatHasMin ==
    ASSUME NEW T \in SUBSET Nat, T # {} PROVE \E x \in T : \A y \in T : x <= y
<1>1. PICK x \in T : \A y \in T : ~(<<y, x>> \in OpToRel(<, Nat))
  BY NatLessThanWellFounded, WFMin
<1>2. \A y \in T : ~(y < x)
  BY <1>1 DEF OpToRel
<1> QED BY <1>2

\* A request arrives.
LEMMA SubmitStep ==
    ASSUME KvAssumption, KvInv, NEW r \in Requests, NEW type \in {"get", "set"}, NEW k \in Keys,
           Submit(r, type, k)
    PROVE  Advance
<1>1. /\ TableSound /\ CacheSound /\ FlushSound /\ ReqSound /\ GetSound /\ ReqTypes
  BY DEF KvInv, ReqSound
<1>2. /\ op' = [op EXCEPT ![r] = [type |-> type, key |-> k]] /\ reqQ' = Append(reqQ, r)
      /\ had' = (IF type = "get" /\ k \in Stored THEN had \cup {r} ELSE had)
      /\ parked' = parked /\ busy' = busy /\ jump' = jump /\ cnt' = cnt /\ answers' = answers
      /\ table' = table /\ cache' = cache /\ maxTry' = maxTry /\ late' = late
      /\ wb' = wb /\ flush' = flush /\ aborted' = aborted
  BY DEF Submit, mapVars
<1>3. op[r] = NoOp
  <2>1. {q \in Requests : op[q] = NoOp} \in SUBSET Nat
    BY DEF KvAssumption
  <2> QED BY <2>1, NatHasMin DEF Submit, Min
<1>4. Untouched(r) /\ r \notin parked /\ r # busy /\ \A i \in 1 .. Len(reqQ) : reqQ[i] # r
  BY <1>1, <1>3 DEF ReqSound, KvAssumption, NoReq
<1>5. /\ op'[r] = [type |-> type, key |-> k] /\ op'[r] # NoOp
      /\ \A q \in Requests : q # r => op'[q] = op[q]
  BY <1>1, <1>2 DEF ReqTypes, NoOp
<1>6. ReqSound'
  <2>1. ReqTypes'
    <3>1. [type |-> type, key |-> k] \in Ops
      BY DEF Ops
    <3>2. op' \in [Requests -> Ops] /\ reqQ' \in Seq(Requests)
      BY <1>1, <1>2, <3>1 DEF ReqTypes
    <3> QED BY <1>1, <1>2, <1>5, <3>2 DEF ReqTypes
  <2>2. /\ Len(reqQ') = Len(reqQ) + 1 /\ Len(reqQ) \in Nat /\ reqQ'[Len(reqQ) + 1] = r
        /\ \A i \in 1 .. Len(reqQ) : reqQ'[i] = reqQ[i] /\ reqQ[i] \in Requests
    BY <1>1, <1>2 DEF ReqTypes
  <2>3. \A i \in 1 .. Len(reqQ') : i = Len(reqQ) + 1 \/ i \in 1 .. Len(reqQ)
    BY <2>2
  <2>4. \A i, j \in 1 .. Len(reqQ') : reqQ'[i] = reqQ'[j] => i = j
    BY <1>1, <1>4, <2>2, <2>3 DEF ReqSound
  <2>5. \A q \in Requests : (Untouched(q)' <=> Untouched(q))
    BY <1>2 DEF Untouched
  <2>6. \A i \in 1 .. Len(reqQ') : /\ reqQ'[i] # busy' /\ reqQ'[i] \notin parked'
                                    /\ Untouched(reqQ[i])' /\ op'[reqQ'[i]] # NoOp
    <3> SUFFICES ASSUME NEW i \in 1 .. Len(reqQ'), NEW q, q = reqQ'[i]
                 PROVE  q # busy /\ q \notin parked /\ Untouched(q)' /\ op'[q] # NoOp
      BY <1>2 DEF Untouched
    <3>1. CASE i = Len(reqQ) + 1
      BY <1>4, <1>5, <2>2, <2>5, <3>1
    <3>2. CASE i \in 1 .. Len(reqQ)
      BY <1>1, <1>4, <1>5, <2>2, <2>5, <3>2 DEF ReqSound
    <3> QED BY <2>3, <3>1, <3>2
  <2>7. busy' # NoReq => answers'[busy'] = <<>> /\ busy' \notin parked' /\ op'[busy'] # NoOp
    BY <1>1, <1>2, <1>4, <1>5 DEF ReqSound, ReqTypes
  <2>8. \A q \in parked' : /\ op'[q] # NoOp
                           /\ answers'[q] # <<>> => Len(answers'[q]) = 2 /\ jump'[q] = "none"
    BY <1>1, <1>2, <1>4, <1>5 DEF ReqSound, ReqTypes
  <2>9. \A q \in Requests : op'[q] = NoOp => Untouched(q)'
    BY <1>1, <1>5, <2>5 DEF ReqSound
  <2>10. \A q \in Requests : Len(answers'[q]) = 2 => q \in parked'
    BY <1>1, <1>2 DEF ReqSound
  <2> QED BY <2>1, <2>4, <2>6, <2>7, <2>8, <2>9, <2>10 DEF ReqSound
<1>7. FlushSound'
  <2>1. flush.on => op'[busy] = op[busy]
    BY <1>1, <1>4, <1>5 DEF FlushSound, ReqTypes
  <2> QED BY <1>1, <1>2, <2>1, KeepFlush
<1>8. SlotsKept /\ Stored' = Stored
  BY <1>2 DEF SlotsKept, Stored, InTable
<1>9. GetSound'
  <2>1. \A i, c : Holds(i, c)' <=> Holds(i, c)
    BY <1>2 DEF Holds, Behind
  <2>2. ASSUME NEW q \in had', q # r
        PROVE  q \in had /\ KeyOf(q)' = KeyOf(q) /\ op'[q] = op[q] /\ (Started(q)' <=> Started(q))
    BY <1>1, <1>2, <1>5, <2>2 DEF ReqTypes, KeyOf, Started
  <2>3. r \in had' => op'[r].type = "get" /\ KeyOf(r)' \in Stored
    <3>1. r \in had => FALSE
      BY <1>1, <1>3 DEF GetSound, NoOp
    <3> QED BY <1>2, <1>5, <3>1 DEF KeyOf
  <2>4. \A q \in had' : op'[q].type = "get" /\ KeyOf(q)' \in Stored'
    BY <1>1, <1>8, <2>2, <2>3 DEF GetSound
  <2>5. ~Started(r)' /\ answers'[r] = <<>>
    BY <1>2, <1>4 DEF Untouched, Started
  <2>6. ASSUME NEW q \in had', answers'[q] = <<>>, Started(q)'
        PROVE  \E c \in cnt'[q] .. maxTry' : Holds(KeyOf(q), c)'
    <3>1. q # r
      BY <2>5, <2>6
    <3>2. \E c \in cnt[q] .. maxTry : Holds(KeyOf(q), c)
      BY <1>1, <1>2, <2>2, <2>6, <3>1 DEF GetSound
    <3> QED BY <1>2, <2>1, <2>2, <3>1, <3>2
  <2>7. NotFoundIsAbsent'
    <3> SUFFICES ASSUME late = {}, NEW q \in had' PROVE answers[q] \in {<<>>, <<"found">>}
      BY <1>2 DEF NotFoundIsAbsent
    <3> QED BY <1>1, <1>2, <2>2, <2>5 DEF GetSound, NotFoundIsAbsent
  <2> QED BY <2>4, <2>6, <2>7 DEF GetSound
<1>10. OverflowIsFull'
  BY <1>2 DEF KvInv, OverflowIsFull
<1> QED BY <1>1, <1>2, <1>6, <1>7, <1>8, <1>9, <1>10, KeepTable, KeepCache DEF KvInv, Advance

\* The thread takes a request that arrived or was parked.
LEMMA ServeStep ==
    ASSUME KvAssumption, KvInv, NEW r \in Requests, Serve(r)
    PROVE  Advance
<1>1. /\ TableSound /\ CacheSound /\ FlushSound /\ ReqSound /\ GetSound /\ ReqTypes
  BY DEF KvInv, ReqSound
<1>2. /\ busy = NoReq /\ busy' = r /\ ~aborted
      /\ op' = op /\ jump' = jump /\ cnt' = cnt /\ answers' = answers /\ had' = had
      /\ table' = table /\ cache' = cache /\ maxTry' = maxTry /\ late' = late
      /\ wb' = wb /\ flush' = flush /\ aborted' = aborted
  BY DEF Serve, mapVars
<1>3. /\ parked' \subseteq parked /\ r \notin parked' /\ reqQ' \in Seq(Requests)
      /\ answers[r] = <<>> /\ op[r] # NoOp
      /\ \A q \in parked : q # r => q \in parked'
      /\ \A i \in 1 .. Len(reqQ') : \E j \in 1 .. Len(reqQ) : reqQ'[i] = reqQ[j] /\ reqQ[j] # r
      /\ \A i, j \in 1 .. Len(reqQ') : reqQ'[i] = reqQ'[j] => i = j
  <2>1. CASE r \in parked /\ answers[r] = <<>> /\ parked' = parked \ {r} /\ reqQ' = reqQ
    <3>1. \A i \in 1 .. Len(reqQ) : reqQ[i] # r
      BY <1>1, <2>1 DEF ReqSound
    <3> QED BY <1>1, <2>1, <3>1 DEF ReqSound, ReqTypes
  <2>2. CASE reqQ # <<>> /\ r = Head(reqQ) /\ reqQ' = Tail(reqQ) /\ parked' = parked
    <3>1. /\ Len(reqQ) \in Nat /\ Len(reqQ) >= 1 /\ Len(reqQ') = Len(reqQ) - 1
          /\ reqQ' \in Seq(Requests) /\ r = reqQ[1]
          /\ \A i \in 1 .. Len(reqQ') : reqQ'[i] = reqQ[i + 1]
      BY <1>1, <2>2 DEF ReqTypes
    <3>2. r \notin parked /\ answers[r] = <<>> /\ op[r] # NoOp
      <4>1. 1 \in 1 .. Len(reqQ)
        BY <3>1
      <4> QED BY <1>1, <3>1, <4>1 DEF ReqSound, Untouched
    <3>3. \A i \in 1 .. Len(reqQ') : i + 1 \in 1 .. Len(reqQ) /\ i + 1 # 1
      BY <3>1
    <3>4. \A i \in 1 .. Len(reqQ') : reqQ[i + 1] # r
      <4>1. 1 \in 1 .. Len(reqQ)
        BY <3>1
      <4> QED BY <1>1, <3>1, <3>3, <4>1 DEF ReqSound
    <3>5. \A i, j \in 1 .. Len(reqQ') : reqQ'[i] = reqQ'[j] => i = j
      <4> SUFFICES ASSUME NEW i \in 1 .. Len(reqQ'), NEW j \in 1 .. Len(reqQ'),
                          reqQ'[i] = reqQ'[j]
                   PROVE  i = j
        OBVIOUS
      <4>1. \A k, m \in 1 .. Len(reqQ) : reqQ[k] = reqQ[m] => k = m
        BY <1>1 DEF ReqSound
      <4>2. i + 1 \in 1 .. Len(reqQ) /\ j + 1 \in 1 .. Len(reqQ)
        BY <3>3
      <4>3. reqQ[i + 1] = reqQ[j + 1]
        BY <3>1
      <4>4. i + 1 = j + 1
        BY <4>1, <4>2, <4>3
      <4> QED BY <4>4
    <3> QED BY <2>2, <3>1, <3>2, <3>3, <3>4, <3>5
  <2> QED BY <2>1, <2>2 DEF Serve
<1>4. ReqSound'
  <2>1. ReqTypes'
    BY <1>1, <1>2, <1>3 DEF ReqTypes
  <2>2. \A q : Untouched(q)' <=> Untouched(q)
    BY <1>2 DEF Untouched
  <2>3. \A i \in 1 .. Len(reqQ') : /\ reqQ'[i] # busy' /\ reqQ'[i] \notin parked'
                                    /\ Untouched(reqQ[i])' /\ op'[reqQ'[i]] # NoOp
    <3> SUFFICES ASSUME NEW i \in 1 .. Len(reqQ'), NEW q, q = reqQ'[i]
                 PROVE  q # r /\ q \notin parked' /\ Untouched(q)' /\ op[q] # NoOp
      BY <1>2 DEF Untouched
    <3>1. PICK j \in 1 .. Len(reqQ) : q = reqQ[j] /\ reqQ[j] # r
      BY <1>3
    <3>2. q # r /\ q \notin parked /\ Untouched(q) /\ op[q] # NoOp
      BY <1>1, <3>1 DEF ReqSound
    <3> QED BY <1>3, <2>2, <3>2
  <2>4. \A q \in Requests : Len(answers'[q]) = 2 => q \in parked'
    <3>1. Len(<<>>) = 0
      OBVIOUS
    <3> QED BY <1>1, <1>2, <1>3, <3>1 DEF ReqSound
  <2>5. \A q \in parked' : /\ op'[q] # NoOp
                           /\ answers'[q] # <<>> => Len(answers'[q]) = 2 /\ jump'[q] = "none"
    BY <1>1, <1>2, <1>3 DEF ReqSound
  <2>6. \A q \in Requests : op'[q] = NoOp => Untouched(q)'
    BY <1>1, <1>2, <2>2 DEF ReqSound
  <2>7. busy' # NoReq => answers'[busy'] = <<>> /\ busy' \notin parked' /\ op'[busy'] # NoOp
    BY <1>2, <1>3
  <2> QED BY <1>3, <2>1, <2>3, <2>4, <2>5, <2>6, <2>7 DEF ReqSound
<1>5. SlotsKept /\ Stored' = Stored
  BY <1>2 DEF SlotsKept, Stored, InTable
<1>6. FlushSound'
  <2>1. ~flush.on
    BY <1>1, <1>2 DEF FlushSound
  <2> QED BY <1>1, <1>2, <2>1, KeepFlush
<1>7. GetSound'
  <2>1. r \in had => /\ answers'[r] = <<>> /\ Started(r)' =>
                           \E c \in cnt'[r] .. maxTry : Holds(KeyOf(r), c)
                     /\ late = {} => answers'[r] \in {<<>>, <<"found">>}
    BY <1>1, <1>2, <1>3 DEF GetSound, Started
  <2> QED BY <1>1, <1>2, <1>5, <2>1, GetMoves
<1>8. OverflowIsFull'
  BY <1>2 DEF OverflowIsFull
<1> QED BY <1>1, <1>2, <1>4, <1>5, <1>6, <1>7, <1>8, KeepTable, KeepCache DEF KvInv, Advance

-----------------------------------------------------------------------------
(***************************************************************************)
(* A get.                                                                  *)
(***************************************************************************)
\* A step of the get that runs, which changes the request alone.
LEMMA GetAlone ==
    ASSUME KvAssumption, KvInv, NEW r \in Requests, Getting(r),
           UNCHANGED <<op, reqQ, had, table, maxTry, late, wb, flush, aborted>>,
           CacheSound', ReqSound', GetSound'
    PROVE  Advance
<1>1. ~flush.on
  BY DEF KvInv, FlushSound, Getting
<1>2. FlushSound'
  BY <1>1, KeepFlush DEF KvInv
<1>3. OverflowIsFull'
  BY DEF Getting, OverflowIsFull
<1>4. SlotsKept /\ Stored' = Stored
  BY DEF SlotsKept, Stored, InTable
<1> QED BY <1>2, <1>3, <1>4, KeepTable DEF KvInv, Advance

\* What a step of a get may rely on: who is served and that it has no answer yet.
LEMMA GetFound ==
    ASSUME KvAssumption, KvInv, NEW r \in Requests, Getting(r)
    PROVE  /\ busy = r /\ r # NoReq /\ answers[r] = <<>> /\ r \notin parked /\ op[r].type = "get"
           /\ KeyOf(r) \in Keys /\ cnt[r] \in Nat /\ jump[r] \in Jumps /\ SlotOf(r) \in Slots
           /\ TableSound /\ CacheSound /\ ReqSound /\ ReqTypes /\ GetSound
           /\ jump \in [Requests -> Jumps] /\ cnt \in [Requests -> Nat]
           /\ answers \in [Requests -> Answers] /\ maxTry \in Nat
<1>1. busy = r /\ r # NoReq /\ op[r].type = "get" /\ ReqSound /\ ReqTypes
  BY DEF Getting, KvInv, ReqSound, KvAssumption, NoReq
<1>2. answers[r] = <<>> /\ r \notin parked /\ op[r] # NoOp
  BY <1>1 DEF ReqSound
<1>3. KeyOf(r) \in Keys /\ cnt[r] \in Nat /\ jump[r] \in Jumps
  BY <1>1, <1>2 DEF ReqTypes, KeyOf
<1>4. SlotOf(r) \in Slots
  BY <1>3, ProbeSlot DEF SlotOf
<1> QED BY <1>1, <1>2, <1>3, <1>4 DEF KvInv, ReqTypes, TableSound

\* How many answers the two ways to answer a get leave.
LEMMA AnswerLengths ==
    /\ \A a : Append(<<>>, a) = <<a>> /\ Len(<<a>>) = 1 /\ <<a>> # <<>>
    /\ <<>> \o <<"notfound", "notfound">> = <<"notfound", "notfound">>
    /\ Len(<<"notfound", "notfound">>) = 2 /\ Len(<<>>) = 0
OBVIOUS

\* r is answered a: a stored key is not answered "notfound".
LEMMA GetAnswers ==
    ASSUME KvAssumption, KvInv, NEW r \in Requests, Getting(r), NEW a \in {"found", "notfound"},
           Answer(r, a), a = "notfound" => r \notin had,
           UNCHANGED <<op, reqQ, parked, jump, cnt, had, mapVars, wb, flush, aborted>>
    PROVE  Advance
<1>1. /\ busy = r /\ answers[r] = <<>> /\ r \notin parked
      /\ cnt[r] \in Nat /\ jump[r] \in Jumps
      /\ TableSound /\ CacheSound /\ ReqSound /\ ReqTypes /\ GetSound
      /\ jump \in [Requests -> Jumps] /\ cnt \in [Requests -> Nat]
      /\ answers \in [Requests -> Answers]
  BY GetFound
<1>2. /\ answers' = [answers EXCEPT ![r] = <<a>>] /\ busy' = NoReq
      /\ jump' = [jump EXCEPT ![r] = jump[r]] /\ cnt' = [cnt EXCEPT ![r] = cnt[r]]
      /\ op' = op /\ reqQ' = reqQ /\ had' = had /\ parked' = parked
      /\ table' = table /\ cache' = cache /\ maxTry' = maxTry /\ late' = late /\ wb' = wb
  BY <1>1, AnswerLengths DEF Answer, mapVars
<1>3. <<a>> \in Answers /\ Len(<<a>>) # 2
  BY AnswerLengths DEF Answers
<1>4. ReqSound'
  <2>1. PICK j, n, s : j = jump[r] /\ n = cnt[r] /\ s = <<a>>
    OBVIOUS
  <2>2. /\ jump' = [jump EXCEPT ![r] = j] /\ cnt' = [cnt EXCEPT ![r] = n]
        /\ answers' = [answers EXCEPT ![r] = s] /\ j \in Jumps /\ n \in Nat
        /\ s \in Answers /\ Len(s) # 2 /\ op' = op /\ reqQ' = reqQ /\ had' = had
    BY <1>1, <1>2, <1>3, <2>1
  <2>3. /\ busy' \in {r, NoReq} /\ parked' \in {parked, parked \cup {r}}
        /\ s # <<>> => busy' = NoReq
        /\ busy' = r => parked' = parked
        /\ r \in parked' /\ s # <<>> => Len(s) = 2 /\ j = "none"
        /\ Len(s) = 2 => r \in parked'
    BY <1>1, <1>2, <2>2
  <2>4. ReqSound /\ busy = r
    BY <1>1
  <2> QED BY <2>2, <2>3, <2>4, ReqMoves
<1>5. /\ answers'[r] = <<a>> /\ \A q \in Requests : q # r =>
            answers'[q] = answers[q] /\ jump'[q] = jump[q] /\ cnt'[q] = cnt[q]
  BY <1>1, <1>2
<1>6. Stored' = Stored
  BY <1>2 DEF Stored, InTable
<1>7. GetSound'
  <2>1. r \in had => answers'[r] # <<>> /\ answers'[r] \in {<<>>, <<"found">>}
    BY <1>5, AnswerLengths
  <2> QED BY <1>1, <1>2, <1>5, <1>6, <2>1, GetMoves
<1>8. CacheSound'
  BY <1>1, <1>2, KeepCache
<1> QED BY <1>2, <1>4, <1>7, <1>8, GetAlone DEF mapVars

\* r goes on, or is parked, with a new probe count and resume point.
LEMMA GetGoesOn ==
    ASSUME KvAssumption, KvInv, NEW r \in Requests, Getting(r), NEW j \in Jumps, NEW n \in Nat,
           r \in had => \E c \in n .. maxTry : Holds(KeyOf(r), c),
           jump' = [jump EXCEPT ![r] = j], cnt' = [cnt EXCEPT ![r] = n],
           \/ busy' = r /\ parked' = parked
           \/ busy' = NoReq /\ parked' = parked \cup {r},
           UNCHANGED <<op, reqQ, answers, had, table, maxTry, late, wb, flush, aborted>>,
           CacheSound'
    PROVE  Advance
<1>1. /\ busy = r /\ answers[r] = <<>> /\ r \notin parked
      /\ TableSound /\ CacheSound /\ ReqSound /\ ReqTypes /\ GetSound
      /\ jump \in [Requests -> Jumps] /\ cnt \in [Requests -> Nat]
      /\ answers \in [Requests -> Answers]
  BY GetFound
<1>2. /\ op' = op /\ reqQ' = reqQ /\ had' = had /\ table' = table /\ maxTry' = maxTry
      /\ late' = late /\ wb' = wb /\ answers' = answers
  OBVIOUS
<1>3. ReqSound'
  <2>1. PICK s : s = <<>>
    OBVIOUS
  <2>2. /\ answers' = [answers EXCEPT ![r] = s] /\ s \in Answers /\ Len(s) # 2 /\ s = <<>>
    BY <1>1, <1>2, <2>1, AnswerLengths DEF Answers
  <2>3. /\ busy' \in {r, NoReq} /\ parked' \in {parked, parked \cup {r}}
        /\ s # <<>> => busy' = NoReq
        /\ busy' = r => parked' = parked
        /\ r \in parked' /\ s # <<>> => Len(s) = 2 /\ j = "none"
        /\ Len(s) = 2 => r \in parked'
    BY <1>1, <2>2, AnswerLengths DEF KvAssumption, NoReq
  <2> QED BY <1>1, <1>2, <2>2, <2>3, ReqMoves
<1>4. cnt'[r] = n /\ \A q \in Requests : q # r =>
            answers'[q] = answers[q] /\ jump'[q] = jump[q] /\ cnt'[q] = cnt[q]
  BY <1>1, <1>2
<1>5. Stored' = Stored
  BY <1>2 DEF Stored, InTable
<1>6. GetSound'
  <2>1. r \in had => /\ answers'[r] = <<>> /\ Started(r)' =>
                           \E c \in cnt'[r] .. maxTry : Holds(KeyOf(r), c)
                     /\ late = {} => answers'[r] \in {<<>>, <<"found">>}
    BY <1>1, <1>2, <1>4
  <2> QED BY <1>1, <1>2, <1>4, <1>5, <2>1, GetMoves
<1> QED BY <1>3, <1>6, GetAlone

\* demand_get looks the key up in the write buffer and its mapping page in the cache.
LEMMA LookupStep ==
    ASSUME KvAssumption, KvInv, NEW r \in Requests, Lookup(r)
    PROVE  Advance
<1>1. Getting(r) /\ ~Exhausted(r) /\ jump[r] = "none" /\ (cnt[r] = 0 => KeyOf(r) \notin wb)
  BY DEF Lookup
<1>2. /\ busy = r /\ answers[r] = <<>> /\ r \notin parked
      /\ KeyOf(r) \in Keys /\ cnt[r] \in Nat /\ SlotOf(r) \in Slots
      /\ TableSound /\ CacheSound /\ ReqSound /\ ReqTypes /\ GetSound
      /\ jump \in [Requests -> Jumps] /\ cnt \in [Requests -> Nat]
      /\ answers \in [Requests -> Answers]
  BY <1>1, GetFound
<1>3. PICK p, n : p = PageOf(SlotOf(r)) /\ n = cnt[r]
  OBVIOUS
<1>4. r \in had => \E c \in n .. maxTry : Holds(KeyOf(r), c)
  BY <1>1, <1>2, <1>3, Ahead DEF Started
<1>5. /\ op' = op /\ reqQ' = reqQ /\ cnt' = cnt /\ had' = had
      /\ table' = table /\ cache' = cache /\ maxTry' = maxTry /\ late' = late
      /\ wb' = wb /\ flush' = flush /\ aborted' = aborted
  BY DEF Lookup, mapVars
<1>6. CacheSound' /\ n \in Nat /\ cnt' = [cnt EXCEPT ![r] = n]
  BY <1>2, <1>3, <1>5, KeepCache
<1>7. CASE p \in cache.cached
  <2>1. PICK j : j = "complete"
    OBVIOUS
  <2>2. jump' = [jump EXCEPT ![r] = j] /\ parked' = parked /\ busy' = r /\ answers' = answers
    BY <1>2, <1>3, <1>7, <2>1 DEF Lookup
  <2>3. j \in Jumps
    BY <2>1 DEF Jumps
  <2> QED BY <1>1, <1>4, <1>5, <1>6, <2>2, <2>3, GetGoesOn
<1>8. CASE p \notin cache.cached /\ p \in cache.copy
  <2>1. PICK j : j = "list"
    OBVIOUS
  <2>2. /\ jump' = [jump EXCEPT ![r] = j] /\ parked' = parked \cup {r} /\ busy' = NoReq
        /\ answers' = answers
    BY <1>2, <1>3, <1>8, <2>1 DEF Lookup, Park
  <2>3. j \in Jumps
    BY <2>1 DEF Jumps
  <2> QED BY <1>1, <1>4, <1>5, <1>6, <2>2, <2>3, GetGoesOn
<1>9. CASE p \notin cache.cached /\ p \notin cache.copy
  <2>1. PICK j, s : j = "none" /\ s = <<"notfound", "notfound">>
    OBVIOUS
  <2>2. /\ jump' = [jump EXCEPT ![r] = j] /\ parked' = parked \cup {r} /\ busy' = NoReq
        /\ answers' = [answers EXCEPT ![r] = s]
    BY <1>2, <1>3, <1>9, <2>1, AnswerLengths DEF Lookup, Park
  <2>3. j \in Jumps /\ s \in Answers /\ Len(s) = 2 /\ s # <<>> /\ j = "none"
    BY <2>1, AnswerLengths DEF Jumps, Answers
  <2>4. ReqSound'
    <3>1. /\ busy' \in {r, NoReq} /\ parked' \in {parked, parked \cup {r}}
          /\ busy' = NoReq /\ r # NoReq
          /\ op' = op /\ reqQ' = reqQ /\ had' = had /\ ReqSound /\ busy = r
      BY <1>2, <1>5, <2>2, GetFound DEF KvAssumption, NoReq
    <3> QED BY <1>6, <2>2, <2>3, <3>1, ReqMoves
  \* A stored key is probed in pages that can be found.
  <2>5. r \in had => late # {}
    <3> SUFFICES ASSUME r \in had PROVE late # {}
      OBVIOUS
    <3>1. PICK c \in n .. maxTry : Holds(KeyOf(r), c)
      BY <1>4
    <3>2. table[SlotOf(r)] # NoKey
      <4>1. n = c \/ n \in 0 .. c - 1
        BY <1>6
      <4> QED BY <1>2, <1>3, <3>1, <4>1 DEF Holds, Behind, SlotOf, KvAssumption, NoKey
    <3>3. p \in cache.dirty \cup cache.copy \cup late
      BY <1>2, <1>3, <3>2 DEF CacheSound
    <3> QED BY <1>2, <1>9, <3>3 DEF CacheSound
  <2>6. answers'[r] # <<>> /\ \A q \in Requests : q # r =>
            answers'[q] = answers[q] /\ jump'[q] = jump[q] /\ cnt'[q] = cnt[q]
    BY <1>2, <1>5, <2>2, <2>3
  <2>7. GetSound'
    <3>1. Stored' = Stored
      BY <1>5 DEF Stored, InTable
    <3>2. r \in had => /\ answers'[r] = <<>> /\ Started(r)' =>
                             \E c \in cnt'[r] .. maxTry : Holds(KeyOf(r), c)
                       /\ late = {} => answers'[r] \in {<<>>, <<"found">>}
      BY <2>5, <2>6
    <3> QED BY <1>2, <1>5, <2>6, <3>1, <3>2, GetMoves
  <2> QED BY <1>1, <1>5, <1>6, <2>4, <2>7, GetAlone
<1> QED BY <1>7, <1>8, <1>9

\* demand_get goes on after its mapping page was loaded.
LEMMA GetListUpStep ==
    ASSUME KvAssumption, KvInv, NEW r \in Requests, GetListUp(r)
    PROVE  Advance
<1>1. Getting(r) /\ jump[r] = "list"
  BY DEF GetListUp
<1>2. /\ busy = r /\ SlotOf(r) \in Slots /\ CacheSound /\ ReqSound /\ GetSound /\ TableSound
      /\ cnt[r] \in Nat /\ cnt \in [Requests -> Nat]
  BY <1>1, GetFound
<1>3. PICK n : n = cnt[r]
  OBVIOUS
<1>4. r \in had => \E c \in n .. maxTry : Holds(KeyOf(r), c)
  BY <1>1, <1>2, <1>3, Ahead DEF Started
<1>5. /\ UNCHANGED <<op, reqQ, answers, had, table, maxTry, late, wb, flush, aborted>>
      /\ cnt' = [cnt EXCEPT ![r] = n] /\ n \in Nat
  BY <1>2, <1>3 DEF GetListUp
<1>6. PICK wrote \in BOOLEAN :
         /\ ListUp(PageOf(SlotOf(r)), wrote)
         /\ IF wrote THEN Park(r, "complete")
            ELSE jump' = [jump EXCEPT ![r] = "complete"] /\ UNCHANGED <<parked, busy>>
  BY DEF GetListUp
<1>7. CacheSound'
  <2>1. PageOf(SlotOf(r)) \in Pages
    BY <1>2 DEF Pages, PageOf
  <2> QED BY <1>2, <1>5, <1>6, <2>1, ListUpKeeps
<1>8. PICK j : j = "complete"
  OBVIOUS
<1>9. /\ jump' = [jump EXCEPT ![r] = j] /\ j \in Jumps
      /\ \/ busy' = r /\ parked' = parked
         \/ busy' = NoReq /\ parked' = parked \cup {r}
  BY <1>2, <1>6, <1>8 DEF Park, Jumps
<1> QED BY <1>1, <1>4, <1>5, <1>7, <1>9, GetGoesOn

\* demand_get compares the fingerprint and the key it read.
LEMMA CheckStep ==
    ASSUME KvAssumption, KvInv, NEW r \in Requests, Check(r)
    PROVE  Advance
<1>1. Getting(r) /\ jump[r] = "complete"
  BY DEF Check
<1>2. /\ busy = r /\ SlotOf(r) \in Slots /\ CacheSound /\ ReqSound /\ GetSound /\ TableSound
      /\ cnt[r] \in Nat /\ cnt \in [Requests -> Nat] /\ KeyOf(r) \in Keys /\ maxTry \in Nat
      /\ op[r].type = "get"
  BY <1>1, GetFound
<1>3. PICK s, k : s = SlotOf(r) /\ k = KeyOf(r)
  OBVIOUS
<1>4. r \in had => \E c \in cnt[r] .. maxTry : Holds(k, c)
  BY <1>1, <1>2, <1>3, Ahead DEF Started
<1>5. UNCHANGED <<op, reqQ, had, mapVars, wb, flush, aborted>>
  BY DEF Check
<1>6. r \in had => table[s] # NoKey
  <2> SUFFICES ASSUME r \in had PROVE table[s] # NoKey
    OBVIOUS
  <2>1. PICK c \in cnt[r] .. maxTry : Holds(k, c)
    BY <1>4
  <2>2. cnt[r] = c \/ cnt[r] \in 0 .. c - 1
    BY <1>2
  <2> QED BY <1>2, <1>3, <2>1, <2>2 DEF Holds, Behind, SlotOf, KvAssumption, NoKey
<1>7. CASE Answer(r, "found") /\ UNCHANGED <<parked, jump, cnt>>
  BY <1>1, <1>5, <1>7, GetAnswers
<1>8. CASE Answer(r, "notfound") /\ table[s] = NoKey /\ UNCHANGED <<parked, jump, cnt>>
  BY <1>1, <1>5, <1>6, <1>8, GetAnswers
<1>9. CASE /\ NextProbe(r) /\ table[s] # k
           /\ UNCHANGED answers
           /\ \/ busy' = r /\ parked' = parked
              \/ busy' = NoReq /\ parked' = parked \cup {r}
  <2>1. PICK n, j : n = cnt[r] + 1 /\ j = "none"
    OBVIOUS
  <2>2. /\ cnt' = [cnt EXCEPT ![r] = n] /\ jump' = [jump EXCEPT ![r] = j]
        /\ n \in Nat /\ j \in Jumps
    BY <1>2, <1>9, <2>1 DEF NextProbe, Jumps
  <2>3. r \in had => \E c \in n .. maxTry : Holds(KeyOf(r), c)
    <3> SUFFICES ASSUME r \in had PROVE \E c \in n .. maxTry : Holds(k, c)
      BY <1>3
    <3>1. PICK c \in cnt[r] .. maxTry : Holds(k, c)
      BY <1>4
    <3>2. c # cnt[r]
      BY <1>3, <1>9, <3>1 DEF Holds, SlotOf
    <3>3. c \in n .. maxTry
      BY <1>2, <2>1, <3>1, <3>2
    <3> QED BY <3>1, <3>3
  <2>4. CacheSound'
    BY <1>2, <1>5, KeepCache DEF mapVars
  <2>5. UNCHANGED <<op, reqQ, answers, had, table, maxTry, late, wb, flush, aborted>>
    BY <1>5, <1>9 DEF mapVars
  <2> QED BY <1>1, <1>9, <2>2, <2>3, <2>4, <2>5, GetGoesOn
<1>10. CASE Fp[k] # FpOf(s) /\ NextProbe(r) /\ UNCHANGED <<parked, busy, answers>>
  <2>1. table[s] # k
    BY <1>2, <1>3, <1>10 DEF FpOf, KvAssumption, NoKey
  <2> QED BY <1>2, <1>9, <1>10, <2>1
<1>11. CASE /\ table[s] \notin {NoKey, k} /\ NextProbe(r)
            /\ parked' = parked \cup {r} /\ busy' = NoReq /\ UNCHANGED answers
  BY <1>9, <1>11
<1> QED BY <1>3, <1>7, <1>8, <1>10, <1>11 DEF Check

\* Each step of a get.
LEMMA GetStep ==
    ASSUME KvAssumption, KvInv, NEW r \in Requests, Get(r)
    PROVE  Advance
<1>1. CASE GiveUp(r)
  <2>1. Getting(r) /\ Exhausted(r) /\ Answer(r, "notfound")
        /\ UNCHANGED <<op, reqQ, parked, jump, cnt, had, mapVars, wb, flush, aborted>>
    BY <1>1 DEF GiveUp
  <2>2. r \notin had
    <3> SUFFICES ASSUME r \in had PROVE FALSE
      OBVIOUS
    <3>1. cnt[r] \in Nat /\ maxTry \in Nat /\ cnt[r] > maxTry /\ TableSound /\ ReqSound /\ GetSound
      BY <2>1, GetFound DEF Exhausted
    <3>2. \E c \in cnt[r] .. maxTry : Holds(KeyOf(r), c)
      BY <2>1, <3>1, Ahead DEF Started
    <3> QED BY <3>1, <3>2
  <2> QED BY <2>1, <2>2, GetAnswers
<1>2. CASE HitBuffer(r)
  BY <1>2, GetAnswers DEF HitBuffer
<1> QED BY <1>1, <1>2, LookupStep, GetListUpStep, CheckStep DEF Get

-----------------------------------------------------------------------------
(***************************************************************************)
(* A set, and the flush it runs when the buffer is full.                   *)
(***************************************************************************)
LEMMA SetFound ==
    ASSUME KvAssumption, KvInv, NEW r \in Requests, Setting(r)
    PROVE  /\ busy = r /\ r # NoReq /\ op[r].type = "set" /\ KeyOf(r) \in Keys
           /\ TableSound /\ CacheSound /\ FlushSound /\ ReqSound /\ ReqTypes /\ GetSound
           /\ r \notin had /\ ~aborted
           /\ wb \subseteq Keys /\ IsFiniteSet(wb) /\ Cardinality(wb) <= MaxWb
<1>1. /\ busy = r /\ r # NoReq /\ op[r].type = "set" /\ ReqSound /\ ReqTypes /\ ~aborted
      /\ TableSound /\ CacheSound /\ FlushSound /\ GetSound
  BY DEF Setting, KvInv, ReqSound, KvAssumption, NoReq
<1>2. op[r] # NoOp
  BY <1>1 DEF ReqSound
<1>3. KeyOf(r) \in Keys /\ r \notin had
  BY <1>1, <1>2 DEF ReqTypes, KeyOf, GetSound
<1> QED BY <1>1, <1>3 DEF FlushSound, FlushTypes

\* demand_set puts the pair into the write buffer.
LEMMA InsertStep ==
    ASSUME KvAssumption, KvInv, NEW r \in Requests, Insert(r)
    PROVE  Advance
<1>1. /\ busy = r /\ r # NoReq /\ KeyOf(r) \in Keys
      /\ TableSound /\ CacheSound /\ FlushSound /\ ReqSound /\ ReqTypes /\ GetSound
      /\ r \notin had /\ ~aborted
      /\ wb \subseteq Keys /\ IsFiniteSet(wb) /\ Cardinality(wb) <= MaxWb
  BY SetFound DEF Insert
<1>2. PICK k, s, j, n : k = KeyOf(r) /\ s = <<"stored">> /\ j = jump[r] /\ n = cnt[r]
  OBVIOUS
<1>3. /\ answers[r] = <<>> /\ r \notin parked
      /\ jump \in [Requests -> Jumps] /\ cnt \in [Requests -> Nat]
      /\ answers \in [Requests -> Answers] /\ j \in Jumps /\ n \in Nat
      /\ s \in Answers /\ Len(s) = 1 /\ s # <<>>
  BY <1>1, <1>2, AnswerLengths DEF ReqSound, ReqTypes, Answers
<1>4. /\ wb' = wb \cup {k} /\ busy' = NoReq /\ parked' = parked /\ reqQ' = reqQ
      /\ answers' = [answers EXCEPT ![r] = s] /\ Cardinality(wb) # MaxWb
      /\ op' = op /\ had' = had /\ jump' = jump /\ cnt' = cnt
      /\ table' = table /\ cache' = cache /\ maxTry' = maxTry /\ late' = late
      /\ flush' = flush /\ aborted' = aborted
  BY <1>2, <1>3, AnswerLengths DEF Insert, Answer, mapVars
<1>5. ReqSound'
  <2>1. /\ busy' \in {r, NoReq} /\ parked' \in {parked, parked \cup {r}}
        /\ jump' = [jump EXCEPT ![r] = j] /\ cnt' = [cnt EXCEPT ![r] = n]
    BY <1>2, <1>3, <1>4
  <2>2. /\ s # <<>> => busy' = NoReq
        /\ busy' = r => parked' = parked
        /\ r \in parked' /\ s # <<>> => Len(s) = 2 /\ j = "none"
        /\ Len(s) = 2 => r \in parked'
        /\ answers' = [answers EXCEPT ![r] = s]
        /\ op' = op /\ reqQ' = reqQ /\ had' = had
    BY <1>1, <1>3, <1>4
  <2>3. j \in Jumps /\ n \in Nat /\ s \in Answers /\ busy = r /\ ReqSound
    BY <1>1, <1>3
  <2> QED BY <2>1, <2>2, <2>3, ReqMoves
<1>6. ~flush.on /\ flush = NoFlush
  BY <1>1, <1>4 DEF FlushSound
<1>7. FlushSound'
  <2>1. /\ flush.fresh = {} /\ flush.master = {} /\ flush.parked = {} /\ flush.cur = NoKey
    BY <1>6 DEF NoFlush
  <2>2. Pending' = {}
    BY <1>4, <2>1 DEF Pending
  <2>3. IsFiniteSet(wb') /\ Cardinality(wb') <= MaxWb /\ wb' \subseteq Keys
    <3>1. CASE k \in wb
      <4>1. wb' = wb
        BY <1>4, <3>1
      <4> QED BY <1>1, <4>1
    <3>2. CASE k \notin wb
      <4>1. IsFiniteSet(wb') /\ Cardinality(wb') = Cardinality(wb) + 1
        BY <1>1, <1>4, <3>2, FS_AddElement
      <4>2. Cardinality(wb) \in Nat
        BY <1>1, FS_CardinalityType
      <4>3. Cardinality(wb') <= MaxWb
        BY <1>1, <1>4, <4>1, <4>2 DEF KvAssumption
      <4> QED BY <1>1, <1>2, <1>4, <4>1, <4>3
    <3> QED BY <3>1, <3>2
  <2>4. FlushTypes'
    BY <1>1, <1>4, <2>3 DEF FlushSound, FlushTypes
  <2> QED BY <1>4, <1>6, <2>1, <2>2, <2>4 DEF FlushSound, NoFlush
<1>8. SlotsKept /\ Stored \subseteq Stored'
  BY <1>4 DEF SlotsKept, Stored, InTable
<1>9. GetSound'
  <2>1. \A q \in Requests : q # r =>
            answers'[q] = answers[q] /\ jump'[q] = jump[q] /\ cnt'[q] = cnt[q]
    BY <1>3, <1>4
  <2> QED BY <1>1, <1>4, <1>8, <2>1, GetMoves
<1>10. OverflowIsFull'
  BY <1>1, <1>4 DEF OverflowIsFull
<1> QED BY <1>1, <1>4, <1>5, <1>7, <1>8, <1>9, <1>10, KeepTable, KeepCache DEF KvInv, Advance

\* A step of the flush that leaves the table alone: the requests do not move.
LEMMA FlushAlone ==
    ASSUME KvAssumption, KvInv, ~aborted, UNCHANGED <<reqVars, table, maxTry, late, aborted>>,
           CacheSound', FlushSound', Stored \subseteq Stored'
    PROVE  Advance
<1>1. /\ TableSound /\ ReqSound /\ GetSound /\ ReqTypes /\ maxTry \in Nat
      /\ table' = table /\ maxTry' = maxTry /\ late' = late
  BY DEF KvInv, ReqSound, TableSound
<1>2. SlotsKept
  BY <1>1 DEF SlotsKept
<1>3. TableSound'
  BY <1>1, KeepTable
<1>4. ReqSound'
  BY <1>1, KeepReq
<1>5. GetSound'
  BY <1>1, <1>2, KeepGet
<1>6. OverflowIsFull'
  BY DEF OverflowIsFull
<1> QED BY <1>2, <1>3, <1>4, <1>5, <1>6 DEF KvInv, Advance

\* demand_set starts a flush of the full write buffer.
LEMMA StartFlushStep ==
    ASSUME KvAssumption, KvInv, NEW r \in Requests, StartFlush(r)
    PROVE  Advance
<1>1. /\ busy = r /\ r # NoReq /\ op[r].type = "set"
      /\ TableSound /\ CacheSound /\ FlushSound /\ ~aborted
      /\ wb \subseteq Keys /\ IsFiniteSet(wb) /\ Cardinality(wb) = MaxWb /\ MaxWb \in Nat
  BY SetFound DEF StartFlush, KvAssumption
<1>2. /\ flush' = [NoFlush EXCEPT !.on = TRUE, !.master = wb]
      /\ UNCHANGED <<reqVars, mapVars, wb, aborted>>
  BY DEF StartFlush
<1>3. /\ IsFlush(flush') /\ flush'.on = TRUE /\ flush'.master = wb /\ flush'.parked = {}
      /\ flush'.cur = NoKey /\ flush'.fresh = {}
      /\ flush'.jump = [k \in Keys |-> "none"] /\ flush'.cnt = [k \in Keys |-> 0]
  BY <1>2 DEF NoFlush, IsFlush
<1>4. wb' = wb /\ busy' = busy /\ op' = op /\ table' = table
  BY <1>2 DEF reqVars, mapVars
<1>5. FlushSound'
  <2>1. flush'.jump \in [Keys -> Jumps] /\ flush'.cnt \in [Keys -> Nat]
    BY <1>3 DEF Jumps
  <2>2. FlushTypes'
    <3>1. flush' \in Flushes
      BY <1>1, <1>3, <2>1, FlushFields
    <3> QED BY <1>1, <1>4, <3>1 DEF FlushTypes
  <2>3. Pending' = wb /\ NoKey \notin wb
    BY <1>1, <1>3 DEF Pending, KvAssumption, NoKey
  <2>4. \A k \in Pending' : /\ Behind(k, flush.cnt[k])'
                            /\ flush'.jump[k] # "update"
    <3> SUFFICES ASSUME NEW k \in wb PROVE Behind(k, flush.cnt[k])' /\ flush'.jump[k] # "update"
      BY <2>3
    <3>1. flush'.cnt[k] = 0 /\ flush'.jump[k] = "none"
      BY <1>1, <1>3
    <3> QED BY <3>1 DEF Behind
  <2> QED BY <1>1, <1>3, <1>4, <2>2, <2>3, <2>4 DEF FlushSound
<1>6. Stored \subseteq Stored' /\ CacheSound'
  BY <1>1, <1>2, KeepCache DEF mapVars, Stored, InTable
<1> QED BY <1>1, <1>2, <1>5, <1>6, FlushAlone DEF mapVars

\* All keys of the buffer are in the table when it is emptied.
LEMMA EndFlushStep ==
    ASSUME KvAssumption, KvInv, NEW r \in Requests, EndFlush(r)
    PROVE  Advance
<1>1. /\ TableSound /\ CacheSound /\ FlushSound /\ ~aborted
  BY SetFound DEF EndFlush
<1>2. /\ flush' = NoFlush /\ wb' = {} /\ UNCHANGED <<reqVars, mapVars, aborted>>
  BY DEF EndFlush
<1>3. wb \subseteq InTable
  <2>1. Pending = {} /\ flush.on
    BY DEF EndFlush, Pending
  <2> QED BY <1>1, <2>1 DEF FlushSound
<1>4. FlushSound'
  <2>1. /\ IsFlush(flush') /\ flush'.on = FALSE /\ flush'.master = {} /\ flush'.parked = {}
        /\ flush'.cur = NoKey /\ flush'.fresh = {}
        /\ flush'.jump = [k \in Keys |-> "none"] /\ flush'.cnt = [k \in Keys |-> 0]
    BY <1>2 DEF NoFlush, IsFlush
  <2>2. flush' \in Flushes
    <3>1. flush'.jump \in [Keys -> Jumps] /\ flush'.cnt \in [Keys -> Nat]
      BY <2>1 DEF Jumps
    <3> QED BY <2>1, <3>1, FlushFields
  <2>3. IsFiniteSet({}) /\ Cardinality({}) = 0
    BY FS_EmptySet
  <2>4. Pending' = {}
    BY <2>1 DEF Pending
  <2> QED BY <1>2, <2>1, <2>2, <2>3, <2>4 DEF FlushSound, FlushTypes, KvAssumption
<1>5. Stored \subseteq Stored' /\ CacheSound'
  BY <1>1, <1>2, <1>3, KeepCache DEF mapVars, Stored, InTable
<1> QED BY <1>1, <1>2, <1>4, <1>5, FlushAlone DEF mapVars

-----------------------------------------------------------------------------
(***************************************************************************)
(* An entry of the flush.                                                  *)
(***************************************************************************)
LEMMA NextEntryStep ==
    ASSUME KvAssumption, KvInv, NEW k \in Keys, NextEntry(k)
    PROVE  Advance
<1>1. /\ TableSound /\ CacheSound /\ FlushSound /\ ~aborted /\ flush \in Flushes
      /\ flush.on /\ flush.cur = NoKey /\ k # NoKey
  BY DEF NextEntry, KvInv, FlushSound, FlushTypes, KvAssumption, NoKey
<1>2. UNCHANGED <<reqVars, mapVars, wb, aborted>>
  BY DEF NextEntry
<1>3. wb' = wb /\ busy' = busy /\ op' = op /\ table' = table
  BY <1>2 DEF reqVars, mapVars
<1>4. /\ IsFlush(flush) /\ flush.master \subseteq Keys /\ flush.parked \subseteq Keys
      /\ flush.jump \in [Keys -> Jumps] /\ flush.cnt \in [Keys -> Nat]
      /\ flush.fresh \subseteq Slots
  BY <1>1, FlushFields
<1>5. /\ IsFlush(flush') /\ flush'.on = TRUE /\ flush'.cur = k /\ flush'.fresh = flush.fresh
      /\ flush'.jump = flush.jump /\ flush'.cnt = flush.cnt
      /\ \/ k \in flush.parked /\ flush'.parked = flush.parked \ {k} /\ flush'.master = flush.master
         \/ k \in flush.master /\ flush'.parked = flush.parked /\ flush'.master = flush.master \ {k}
  BY <1>1, <1>4 DEF NextEntry, IsFlush
<1>6. FlushSound'
  <2>1. flush' \in Flushes
    <3>1. flush'.parked \subseteq Keys /\ flush'.master \subseteq Keys
      BY <1>4, <1>5
    <3> QED BY <1>4, <1>5, <3>1, FlushFields
  <2>2. FlushTypes'
    BY <1>1, <1>3, <2>1 DEF FlushSound, FlushTypes
  <2>3. Pending' = Pending /\ InTable' = InTable
    BY <1>1, <1>3, <1>4, <1>5 DEF Pending, InTable, KvAssumption, NoKey
  <2>4. flush'.master \cap flush'.parked = {} /\ flush'.cur \notin flush'.master \cup flush'.parked
    BY <1>1, <1>5 DEF FlushSound
  <2>5. ASSUME NEW i \in Pending
        PROVE  /\ Behind(i, flush.cnt[i])'
               /\ flush'.jump[i] = "update" => table'[EntrySlot(i)'] = i
    BY <1>1, <1>3, <1>5 DEF FlushSound, Behind, EntrySlot
  <2> QED BY <1>1, <1>3, <1>5, <2>2, <2>3, <2>4, <2>5 DEF FlushSound
<1>7. Stored \subseteq Stored' /\ CacheSound'
  BY <1>1, <1>2, KeepCache DEF mapVars, Stored, InTable
<1> QED BY <1>1, <1>2, <1>6, <1>7, FlushAlone DEF mapVars

\* The entry that runs keeps its probes behind it and goes on, or is parked.
LEMMA EntryGoesOn ==
    ASSUME KvAssumption, KvInv, NEW k \in Keys, Mapping(k), NEW j \in Jumps, NEW n \in Nat,
           Behind(k, n), j = "update" => table[Probe(k, n)] = k,
           UNCHANGED <<reqVars, table, maxTry, late, wb, aborted>>, CacheSound',
           IsFlush(flush'), flush'.on = TRUE, flush'.master = flush.master,
           flush'.fresh = flush.fresh,
           flush'.jump = [flush.jump EXCEPT ![k] = j],
           flush'.cnt = [flush.cnt EXCEPT ![k] = n],
           \/ flush'.cur = k /\ flush'.parked = flush.parked
           \/ flush'.cur = NoKey /\ flush'.parked = flush.parked \cup {k}
    PROVE  Advance
<1>1. flush.on /\ flush.cur = k /\ ~aborted /\ FlushSound
  BY EntryFound DEF KvInv
<1>2. table' = table /\ wb' = wb /\ op' = op /\ busy' = busy
  BY DEF reqVars
<1>3. FlushSound'
  BY <1>1, <1>2, EntryMoves
<1>4. Stored \subseteq Stored'
  BY <1>2 DEF Stored, InTable
<1> QED BY <1>1, <1>3, <1>4, FlushAlone

\* Entry k resumes at j, at once or from wb_retry_q.
LEMMA EntryResumes ==
    ASSUME KvAssumption, KvInv, NEW k \in Keys, Mapping(k), NEW j \in Jumps,
           j = "update" => table[EntrySlot(k)] = k,
           UNCHANGED <<reqVars, table, maxTry, late, wb, aborted>>, CacheSound',
           GoOn(k, j) \/ ParkEntry(k, j)
    PROVE  Advance
<1>1. /\ flush.cur = k /\ flush.on /\ IsFlush(flush) /\ Behind(k, flush.cnt[k])
      /\ flush.jump \in [Keys -> Jumps] /\ flush.cnt \in [Keys -> Nat]
  BY EntryFound
<1>2. PICK n : n = flush.cnt[k]
  OBVIOUS
<1>3. /\ IsFlush(flush') /\ flush'.on = TRUE /\ flush'.master = flush.master
      /\ flush'.fresh = flush.fresh
      /\ flush'.jump = [flush.jump EXCEPT ![k] = j] /\ flush'.cnt = flush.cnt
      /\ \/ flush'.cur = k /\ flush'.parked = flush.parked
         \/ flush'.cur = NoKey /\ flush'.parked = flush.parked \cup {k}
  BY <1>1 DEF GoOn, ParkEntry, IsFlush
<1>4. /\ flush'.cnt = [flush.cnt EXCEPT ![k] = n] /\ n \in Nat /\ Behind(k, n)
      /\ j = "update" => table[Probe(k, n)] = k
  BY <1>1, <1>2, <1>3 DEF EntrySlot
<1> QED BY <1>3, <1>4, EntryGoesOn

\* The flush compares the key of the entry a pair hashes to.
LEMMA EntryCheckStep ==
    ASSUME KvAssumption, KvInv, NEW k \in Keys, EntryCheck(k)
    PROVE  Advance
<1>1. Mapping(k) /\ ~Overflow(k) /\ UNCHANGED <<reqVars, wb, aborted>>
  BY DEF EntryCheck
<1>2. /\ flush.cur = k /\ flush.on /\ k # NoKey /\ k \in Pending
      /\ IsFlush(flush) /\ Behind(k, flush.cnt[k])
      /\ flush.jump \in [Keys -> Jumps] /\ flush.cnt \in [Keys -> Nat] /\ flush.cnt[k] \in Nat
      /\ EntrySlot(k) \in Slots
  BY <1>1, EntryFound
<1>3. PICK s, n : s = EntrySlot(k) /\ n = flush.cnt[k] + 1
  OBVIOUS
<1>4. CASE table[s] = NoKey /\ Update(k)
  BY <1>1, <1>3, <1>4, UpdateKeeps DEF Advance
<1>5. CASE table[s] = k /\ ~Passed(k, s) /\ ParkEntry(k, "update") /\ UNCHANGED mapVars
  <2>1. CacheSound' /\ UNCHANGED <<table, maxTry, late>>
    BY <1>5, KeepCache DEF KvInv, mapVars
  <2>2. "update" \in Jumps
    BY DEF Jumps
  <2> QED BY <1>1, <1>3, <1>5, <2>1, <2>2, EntryResumes
<1>6. CASE /\ table[s] # NoKey /\ table[s] # k /\ UNCHANGED mapVars
           /\ \/ flush' = [flush EXCEPT !.cnt[k] = @ + 1, !.jump[k] = "none"]
              \/ flush' = [flush EXCEPT !.cnt[k] = @ + 1, !.jump[k] = "none", !.cur = NoKey,
                                        !.parked = @ \cup {k}]
  <2>1. Behind(k, n)
    <3> SUFFICES ASSUME NEW b \in 0 .. n - 1 PROVE table[Probe(k, b)] \notin {NoKey, k}
      BY DEF Behind
    <3>1. b = flush.cnt[k] \/ b \in 0 .. flush.cnt[k] - 1
      BY <1>2, <1>3
    <3> QED BY <1>2, <1>3, <1>6, <3>1 DEF Behind, EntrySlot
  <2>2. PICK j : j = "none"
    OBVIOUS
  <2>3. /\ IsFlush(flush') /\ flush'.on = TRUE /\ flush'.master = flush.master
        /\ flush'.fresh = flush.fresh
        /\ flush'.jump = [flush.jump EXCEPT ![k] = j]
        /\ flush'.cnt = [flush.cnt EXCEPT ![k] = n]
        /\ \/ flush'.cur = k /\ flush'.parked = flush.parked
           \/ flush'.cur = NoKey /\ flush'.parked = flush.parked \cup {k}
    BY <1>2, <1>3, <1>6, <2>2 DEF IsFlush
  <2>4. CacheSound' /\ UNCHANGED <<table, maxTry, late>>
    BY <1>6, KeepCache DEF KvInv, mapVars
  <2>5. j \in Jumps /\ n \in Nat /\ j # "update"
    BY <1>2, <1>3, <2>2 DEF Jumps
  <2> QED BY <1>1, <2>1, <2>3, <2>4, <2>5, EntryGoesOn

\* A slot that another entry took, or with another fingerprint, is not the entry's own.
<1>7. Passed(k, s) /\ table[s] # NoKey => table[s] # k
  <2>1. s \in flush.fresh => table[s] # k
    BY <1>2 DEF KvInv, FlushSound
  <2>2. Fp[k] # FpOf(s) /\ table[s] # NoKey => table[s] # k
    BY DEF FpOf
  <2> QED BY <2>1, <2>2 DEF Passed
<1> QED BY <1>3, <1>4, <1>5, <1>6, <1>7 DEF EntryCheck

\* Each step of the flush of one pair.
LEMMA EntryStep ==
    ASSUME KvAssumption, KvInv, NEW k \in Keys, Entry(k)
    PROVE  Advance
<1>1. CASE CollisionOverflow(k)
  <2>1. /\ Mapping(k) /\ Overflow(k) /\ aborted' = TRUE
        /\ UNCHANGED <<reqVars, mapVars, wb, flush>>
    BY <1>1 DEF CollisionOverflow
  <2>2. /\ TableSound /\ CacheSound /\ FlushSound /\ ReqSound /\ GetSound /\ ReqTypes
        /\ flush.cur = k /\ Behind(k, flush.cnt[k]) /\ flush.cnt[k] \in Nat /\ maxTry \in Nat
        /\ flush.cnt[k] > MaxCollision /\ MaxCollision \in Nat
    BY <2>1, EntryFound DEF KvInv, Overflow, ReqSound, TableSound, KvAssumption
  <2>3. OverflowIsFull'
    <3>1. \A c \in 0 .. MaxCollision : c \in 0 .. flush.cnt[k] - 1
      BY <2>2
    <3> QED BY <2>1, <2>2, <3>1 DEF Behind, OverflowIsFull, mapVars
  <2>4. SlotsKept /\ Stored' = Stored
    BY <2>1 DEF SlotsKept, Stored, InTable, mapVars
  <2>5. TableSound' /\ CacheSound' /\ ReqSound'
    BY <2>1, <2>2, KeepTable, KeepCache, KeepReq DEF mapVars
  <2>6. FlushSound'
    BY <2>1, <2>2, KeepFlush DEF reqVars, mapVars
  <2>7. GetSound'
    BY <2>1, <2>2, <2>4, KeepGet DEF mapVars
  <2> QED BY <2>3, <2>4, <2>5, <2>6, <2>7 DEF KvInv, Advance
<1>2. CASE EntryLookup(k)
  <2>1. Mapping(k) /\ UNCHANGED <<reqVars, mapVars, wb, aborted>>
    BY <1>2 DEF EntryLookup
  <2>2. PICK j \in {"complete", "list"} : GoOn(k, j) \/ ParkEntry(k, j)
    BY <1>2 DEF EntryLookup
  <2>3. j \in Jumps /\ j # "update" /\ CacheSound' /\ UNCHANGED <<table, maxTry, late>>
    BY <2>1, KeepCache DEF Jumps, KvInv, mapVars
  <2> QED BY <2>1, <2>2, <2>3, EntryResumes
<1>3. CASE EntryListUp(k)
  <2>1. Mapping(k) /\ UNCHANGED <<reqVars, table, maxTry, late, wb, aborted>>
    BY <1>3 DEF EntryListUp
  <2>2. PICK wrote \in BOOLEAN :
           /\ ListUp(PageOf(EntrySlot(k)), wrote)
           /\ GoOn(k, "complete") \/ ParkEntry(k, "complete")
    BY <1>3 DEF EntryListUp
  <2>3. PageOf(EntrySlot(k)) \in Pages
    BY <2>1, EntryFound DEF Pages, PageOf
  <2>4. CacheSound'
    BY <2>1, <2>2, <2>3, ListUpKeeps DEF KvInv
  <2>5. "complete" \in Jumps
    BY DEF Jumps
  <2> QED BY <2>1, <2>2, <2>4, <2>5, EntryResumes
<1>4. CASE EntryUpdate(k)
  <2>1. /\ Mapping(k) /\ ~Overflow(k) /\ flush.jump[k] = "update" /\ Update(k)
        /\ UNCHANGED <<reqVars, wb, aborted>>
    BY <1>4 DEF EntryUpdate
  <2>2. table[EntrySlot(k)] = k
    BY <2>1, EntryFound DEF KvInv, FlushSound
  <2> QED BY <2>1, <2>2, UpdateKeeps DEF Advance
<1> QED BY <1>1, <1>2, <1>3, <1>4, NextEntryStep, EntryCheckStep DEF Entry

-----------------------------------------------------------------------------
(***************************************************************************)
(* Every step, and what the invariant says.                                *)
(***************************************************************************)
LEMMA KvInit == KvAssumption /\ Init => KvInv
<1> SUFFICES ASSUME KvAssumption, Init PROVE KvInv
  OBVIOUS
<1>1. /\ op = [r \in Requests |-> NoOp] /\ reqQ = <<>> /\ parked = {} /\ busy = NoReq
      /\ jump = [r \in Requests |-> "none"] /\ cnt = [r \in Requests |-> 0]
      /\ answers = [r \in Requests |-> <<>>]
      /\ table = [s \in Slots |-> NoKey] /\ maxTry = 0 /\ wb = {} /\ flush = NoFlush
      /\ aborted = FALSE /\ had = {} /\ late = {}
      /\ cache = [cached |-> {}, dirty |-> {}, copy |-> {}, nr |-> 0]
  BY DEF Init
<1>2. TableSound
  BY <1>1 DEF TableSound, KvAssumption
<1>3. CacheSound
  <2>1. cache.cached = {} /\ cache.dirty = {} /\ cache.copy = {} /\ cache.nr = 0 /\ IsKvCache(cache)
    BY <1>1 DEF IsKvCache
  <2> QED BY <1>1, <2>1, CacheFields DEF CacheSound
<1>4. FlushSound
  <2>1. /\ IsFlush(flush) /\ flush.on = FALSE /\ flush.master = {} /\ flush.parked = {}
        /\ flush.cur = NoKey /\ flush.fresh = {}
        /\ flush.jump = [k \in Keys |-> "none"] /\ flush.cnt = [k \in Keys |-> 0]
    BY <1>1 DEF NoFlush, IsFlush
  <2>2. flush \in Flushes
    <3>1. flush.jump \in [Keys -> Jumps] /\ flush.cnt \in [Keys -> Nat]
      BY <2>1 DEF Jumps
    <3> QED BY <2>1, <3>1, FlushFields
  <2>3. IsFiniteSet(wb) /\ Cardinality(wb) = 0
    BY <1>1, FS_EmptySet
  <2> QED BY <1>1, <2>1, <2>2, <2>3 DEF FlushSound, FlushTypes, Pending, KvAssumption
<1>5. ReqSound
  <2>1. NoOp \in Ops
    BY DEF NoOp, Ops
  <2>2. Len(reqQ) = 0 /\ reqQ \in Seq(Requests)
    BY <1>1
  <2> QED BY <1>1, <2>1, <2>2, AnswerLengths
          DEF ReqSound, ReqTypes, Untouched, Answers, Jumps
<1>6. GetSound
  BY <1>1 DEF GetSound, NotFoundIsAbsent
<1> QED BY <1>1, <1>2, <1>3, <1>4, <1>5, <1>6 DEF KvInv, OverflowIsFull

\* Each step keeps the invariant and no stored key is lost by it.
LEMMA KvStep ==
    ASSUME KvAssumption, KvInv, [Next]_vars
    PROVE  Advance
<1>1. CASE Next
  <2>1. ASSUME NEW r \in Requests, NEW type \in {"get", "set"}, NEW k \in Keys,
               Submit(r, type, k)
        PROVE  Advance
    BY <2>1, SubmitStep
  <2>2. ASSUME NEW r \in Requests, Serve(r) \/ Get(r) \/ Set(r)
        PROVE  Advance
    BY <2>2, ServeStep, GetStep, InsertStep, StartFlushStep, EndFlushStep DEF Set
  <2>3. ASSUME NEW k \in Keys, Entry(k)
        PROVE  Advance
    BY <2>3, EntryStep
  <2> QED BY <1>1, <2>1, <2>2, <2>3 DEF Next, algo_thread
<1>2. CASE UNCHANGED vars
  <2>1. UNCHANGED <<reqVars, mapVars, wb, flush, aborted>>
    BY <1>2 DEF vars
  <2>2. /\ TableSound /\ CacheSound /\ FlushSound /\ ReqSound /\ ReqTypes /\ GetSound
        /\ maxTry \in Nat
    BY DEF KvInv, ReqSound, TableSound
  <2>3. SlotsKept /\ Stored' = Stored
    BY <2>1 DEF SlotsKept, Stored, InTable, mapVars
  <2>4. TableSound' /\ CacheSound' /\ ReqSound' /\ FlushSound'
    BY <2>1, <2>2, KeepTable, KeepCache, KeepReq, KeepFlush DEF mapVars, reqVars
  <2>5. GetSound'
    BY <2>1, <2>2, <2>3, KeepGet DEF mapVars
  <2>6. OverflowIsFull'
    BY <2>1 DEF KvInv, OverflowIsFull, mapVars
  <2> QED BY <2>3, <2>4, <2>5, <2>6 DEF KvInv, Advance
<1> QED BY <1>1, <1>2

\* The invariant says how many answers a request has.
LEMMA InvAnswered == KvAssumption /\ KvInv => AnsweredOnce
<1> SUFFICES ASSUME KvAssumption, KvInv, NEW r \in Requests
             PROVE  /\ Len(answers[r]) = 2 => r \in parked /\ jump[r] = "none"
                    /\ Len(answers[r]) = 1 => r \notin parked /\ busy # r
                    /\ Len(answers[r]) <= 2
  BY DEF AnsweredOnce
<1>1. ReqSound /\ answers[r] \in Answers
  BY DEF KvInv, ReqSound, ReqTypes
<1>2. Len(answers[r]) \in 0 .. 2 /\ (answers[r] = <<>> => Len(answers[r]) = 0)
  BY <1>1, AnswerLengths DEF Answers
<1>3. Len(answers[r]) = 2 => r \in parked /\ jump[r] = "none"
  BY <1>1, <1>2 DEF ReqSound
<1>4. Len(answers[r]) = 1 => r \notin parked
  BY <1>1, <1>2 DEF ReqSound
<1>5. Len(answers[r]) = 1 => busy # r
  BY <1>1, <1>2 DEF ReqSound, KvAssumption, NoReq
<1>6. Len(answers[r]) <= 2
  <2>1. PICK n : n = Len(answers[r])
    OBVIOUS
  <2>2. n \in 0 .. 2
    BY <1>2, <2>1
  <2>3. n <= 2
    BY <2>2
  <2> QED BY <2>1, <2>3
<1> QED BY <1>3, <1>4, <1>5, <1>6

\* The invariant says where the stored keys are.
LEMMA InvReachable == KvAssumption /\ KvInv => StoredReachable
<1> SUFFICES ASSUME KvAssumption, KvInv, NEW k \in InTable
             PROVE  /\ \A s, t \in Slots : table[s] = k /\ table[t] = k => s = t
                    /\ \E c \in 0 .. maxTry : table[Probe(k, c)] = k
                    /\ \A b \in 0 .. FirstHit(k) - 1 : table[Probe(k, b)] # NoKey
  BY DEF StoredReachable
<1>1. TableSound /\ maxTry \in 0 .. MaxCollision /\ MaxCollision \in Nat
  BY DEF KvInv, TableSound, KvAssumption
<1>2. PICK c \in 0 .. maxTry : Holds(k, c) /\ \A s \in Slots : table[s] = k => s = Probe(k, c)
  BY <1>1, HeldOnce
<1>3. \E d \in 0 .. MaxCollision : table[Probe(k, d)] = k
                                  /\ \A b \in 0 .. d - 1 : table[Probe(k, b)] # k
  <2>1. c \in 0 .. MaxCollision
    BY <1>1
  <2> QED BY <1>2, <2>1 DEF Holds, Behind
<1>4. PICK f : f = FirstHit(k)
  OBVIOUS
<1>5. /\ f \in 0 .. MaxCollision /\ table[Probe(k, f)] = k
      /\ \A b \in 0 .. f - 1 : table[Probe(k, b)] # k
  BY <1>3, <1>4 DEF FirstHit
<1>6. f <= c
  BY <1>1, <1>2, <1>5 DEF Holds
<1>7. \A b \in 0 .. f - 1 : b \in 0 .. c - 1
  BY <1>1, <1>5, <1>6
<1> QED BY <1>2, <1>4, <1>7 DEF Holds, Behind

\* The invariant says the types.
LEMMA InvTypes == KvAssumption /\ KvInv => TypeOK
<1> SUFFICES ASSUME KvAssumption, KvInv PROVE TypeOK
  OBVIOUS
<1>1. /\ table \in [Slots -> Keys \cup {NoKey}] /\ maxTry \in 0 .. MaxCollision
      /\ busy \in Requests \cup {NoReq} /\ parked \subseteq Requests
      /\ FlushSound /\ FlushTypes /\ CacheSound
  BY DEF KvInv, TableSound, ReqSound, ReqTypes, FlushSound
<1>2. /\ cache.cached \subseteq Pages /\ cache.dirty \subseteq cache.cached
      /\ cache.copy \subseteq Pages /\ cache.nr \in Nat
  BY <1>1, CacheFields DEF CacheSound
<1> QED BY <1>1, <1>2 DEF TypeOK, FlushSound, FlushTypes

(***************************************************************************)
(* The state has the shape the handlers rely on: one runs at a time, and   *)
(* an entry of a flush is in one of its queues.                            *)
(***************************************************************************)
THEOREM KvTypes == ASSUME KvAssumption PROVE Spec => []TypeOK
<1>1. KvInv /\ [Next]_vars => KvInv'
  BY KvStep DEF Advance
<1>2. (Init => KvInv) /\ (KvInv => TypeOK)
  BY KvInit, InvTypes
<1> QED BY <1>1, <1>2, PTL DEF Spec

(***************************************************************************)
(* A request is put on finish_q once and is in no queue of algo_thread     *)
(* then, except the get whose mapping page is nowhere (demand_get).        *)
(***************************************************************************)
THEOREM OneAnswer == ASSUME KvAssumption PROVE Spec => []AnsweredOnce
<1>1. KvInv /\ [Next]_vars => KvInv'
  BY KvStep DEF Advance
<1>2. (Init => KvInv) /\ (KvInv => AnsweredOnce)
  BY KvInit, InvAnswered
<1> QED BY <1>1, <1>2, PTL DEF Spec

(***************************************************************************)
(* A stored key is in one entry, no further than max_try lets a get look,  *)
(* behind entries that are all taken: whatever the hash, the collisions    *)
(* and the order in which the entries of a flush are mapped.               *)
(***************************************************************************)
THEOREM Reachable == ASSUME KvAssumption PROVE Spec => []StoredReachable
<1>1. KvInv /\ [Next]_vars => KvInv'
  BY KvStep DEF Advance
<1>2. (Init => KvInv) /\ (KvInv => StoredReachable)
  BY KvInit, InvReachable
<1> QED BY <1>1, <1>2, PTL DEF Spec

(***************************************************************************)
(* No step loses a stored key or gives its entry to another: neither the   *)
(* entries of one flush nor the end of the flush, which empties the buffer *)
(* (_do_wb_mapping_update).                                                *)
(***************************************************************************)
THEOREM NoKeyLost == ASSUME KvAssumption PROVE Spec => NothingLost
<1>1. KvInv /\ [Next]_vars => KvInv'
  BY KvStep DEF Advance
<1>2. KvInv /\ [Next]_vars => [NothingLostStep]_vars
  BY KvStep DEF Advance, SlotsKept, NothingLostStep
<1>3. Init => KvInv
  BY KvInit
<1> QED BY <1>1, <1>2, <1>3, PTL DEF Spec, NothingLost

(***************************************************************************)
(* A get answers "not found" only for a key that was not stored when it    *)
(* was submitted, unless some page was updated behind the cache.           *)
(***************************************************************************)
THEOREM GetMissesNothing == ASSUME KvAssumption PROVE Spec => []NotFoundIsAbsent
<1>1. KvInv /\ [Next]_vars => KvInv'
  BY KvStep DEF Advance
<1>2. (Init => KvInv) /\ (KvInv => NotFoundIsAbsent)
  BY KvInit DEF KvInv, GetSound
<1> QED BY <1>1, <1>2, PTL DEF Spec

(***************************************************************************)
(* The program gives up with "hash collision overflow" only when all the   *)
(* probes of the key are taken.                                            *)
(***************************************************************************)
THEOREM OverflowTaken == ASSUME KvAssumption PROVE Spec => []OverflowIsFull
<1>1. KvInv /\ [Next]_vars => KvInv'
  BY KvStep DEF Advance
<1>2. (Init => KvInv) /\ (KvInv => OverflowIsFull)
  BY KvInit DEF KvInv
<1> QED BY <1>1, <1>2, PTL DEF Spec

-----------------------------------------------------------------------------
(***************************************************************************)
(* A get that was answered "found" saw its key in the buffer or in an      *)
(* entry of the table, and what is stored stays so.                        *)
(***************************************************************************)
LEMMA FoundStep ==
    ASSUME KvAssumption, KvInv, FoundIsStored, [Next]_vars
    PROVE  FoundIsStored'
<1> SUFFICES ASSUME NEW q \in Requests, op'[q].type = "get", answers'[q] = <<"found">>
             PROVE  KeyOf(q)' \in Stored'
  BY DEF FoundIsStored
<1>1. Stored \subseteq Stored' /\ ReqSound /\ ReqTypes
  BY KvStep DEF Advance, KvInv, ReqSound
<1>2. CASE op'[q] = op[q] /\ answers'[q] = answers[q]
  BY <1>1, <1>2 DEF FoundIsStored, KeyOf
<1>3. ASSUME NEW r \in Requests, NEW type \in {"get", "set"}, NEW k \in Keys, Submit(r, type, k)
      PROVE  KeyOf(q)' \in Stored'
  <2>1. op' = [op EXCEPT ![r] = [type |-> type, key |-> k]] /\ answers' = answers
    BY <1>3 DEF Submit
  <2>2. op[r] = NoOp
    <3>1. {p \in Requests : op[p] = NoOp} \in SUBSET Nat
      BY DEF KvAssumption
    <3> QED BY <1>3, <3>1, NatHasMin DEF Submit, Min
  <2>3. q # r
    BY <1>1, <2>1, <2>2, AnswerLengths DEF ReqSound, Untouched
  <2> QED BY <1>1, <1>2, <2>1, <2>3 DEF ReqTypes
<1>4. ASSUME NEW r \in Requests, HitBuffer(r) \/ Check(r) PROVE KeyOf(q)' \in Stored'
  <2>1. Getting(r) /\ op' = op
    BY <1>4 DEF HitBuffer, Check
  <2>2. answers[r] = <<>> /\ answers \in [Requests -> Answers] /\ SlotOf(r) \in Slots
        /\ KeyOf(r) \in Keys
    BY <2>1, GetFound
  <2>3. CASE q # r
    <3>1. answers'[q] = answers[q]
      BY <1>4, <2>2, <2>3 DEF HitBuffer, Check, Answer
    <3> QED BY <1>2, <2>1, <3>1
  <2>4. CASE q = r
    <3>1. CASE HitBuffer(r)
      BY <1>1, <2>1, <2>4, <3>1 DEF HitBuffer, Stored, KeyOf
    <3>2. CASE Check(r)
      <4>1. table[SlotOf(r)] = KeyOf(r)
        <5>1. answers' # answers
          BY <2>2, <2>4, AnswerLengths
        <5>2. CASE Answer(r, "notfound")
          <6>1. answers'[r] = <<"notfound">>
            BY <2>2, <5>2, AnswerLengths DEF Answer
          <6>2. <<"notfound">>[1] = "notfound" /\ <<"found">>[1] = "found"
            OBVIOUS
          <6> QED BY <2>4, <6>1, <6>2
        <5> QED BY <3>2, <5>1, <5>2 DEF Check
      <4>2. KeyOf(r) \in InTable
        BY <2>2, <4>1 DEF InTable, KvAssumption, NoKey
      <4> QED BY <1>1, <2>1, <2>4, <4>2 DEF Stored, KeyOf
    <3> QED BY <1>4, <3>1, <3>2
  <2> QED BY <2>3, <2>4

\* The other answers are not "found", or not to a get.
<1>5. ASSUME NEW r \in Requests, GiveUp(r) \/ Lookup(r) PROVE KeyOf(q)' \in Stored'
  <2>1. Getting(r) /\ op' = op
    BY <1>5 DEF GiveUp, Lookup
  <2>2. answers[r] = <<>> /\ answers \in [Requests -> Answers]
    BY <2>1, GetFound
  <2>3. PICK s \in {<<"notfound">>, <<"notfound", "notfound">>, <<>>} :
           answers' = [answers EXCEPT ![r] = s]
    BY <1>5, <2>2, AnswerLengths DEF GiveUp, Lookup, Answer
  <2>4. s # <<"found">>
    <3>1. /\ <<"found">>[1] = "found" /\ <<"notfound">>[1] = "notfound"
          /\ <<"notfound", "notfound">>[1] = "notfound" /\ Len(<<"found">>) = 1 /\ Len(<<>>) = 0
      OBVIOUS
    <3> QED BY <3>1
  <2>5. q # r
    BY <2>2, <2>3, <2>4
  <2> QED BY <1>2, <2>1, <2>2, <2>3, <2>5
<1>6. ASSUME NEW r \in Requests, Insert(r) PROVE KeyOf(q)' \in Stored'
  <2>1. op[r].type = "set" /\ op' = op /\ answers' = [answers EXCEPT ![r] = Append(@, "stored")]
    BY <1>6, SetFound DEF Insert, Answer
  <2> QED BY <1>1, <1>2, <2>1 DEF ReqTypes
<1>7. ASSUME op' = op, answers' = answers PROVE KeyOf(q)' \in Stored'
  BY <1>2, <1>7
<1>8. ASSUME NEW r \in Requests, Serve(r) \/ Get(r) \/ Set(r) PROVE KeyOf(q)' \in Stored'
  <2>1. CASE Serve(r) \/ GetListUp(r) \/ StartFlush(r) \/ EndFlush(r)
    BY <1>7, <2>1 DEF Serve, GetListUp, StartFlush, EndFlush, reqVars
  <2> QED BY <1>4, <1>5, <1>6, <1>8, <2>1 DEF Get, Set
<1>9. ASSUME NEW k \in Keys, Entry(k) PROVE KeyOf(q)' \in Stored'
  BY <1>7, <1>9 DEF Entry, NextEntry, CollisionOverflow, EntryLookup, EntryListUp, EntryCheck,
                    EntryUpdate, reqVars
<1>10. CASE UNCHANGED vars
  BY <1>7, <1>10 DEF vars, reqVars
<1> QED BY <1>3, <1>8, <1>9, <1>10 DEF Next, algo_thread

(***************************************************************************)
(* A get finds only a key that some set has stored (__demand_get).         *)
(***************************************************************************)
THEOREM GetFindsStored == ASSUME KvAssumption PROVE Spec => []FoundIsStored
<1>1. KvInv /\ FoundIsStored /\ [Next]_vars => (KvInv /\ FoundIsStored)'
  BY KvStep, FoundStep DEF Advance
<1>2. Init => KvInv /\ FoundIsStored
  <2>1. Init => FoundIsStored
    BY DEF Init, FoundIsStored, NoOp
  <2> QED BY <2>1, KvInit
<1> QED BY <1>1, <1>2, PTL DEF Spec

-----------------------------------------------------------------------------
(***************************************************************************)
(* The pools of superblocks of Streams, proved for every number of streams *)
(* and superblocks, every size of a page and of the write buffer: through  *)
(* every switch of a stream to another superblock and every GC, each       *)
(* stream owns the superblock it writes to, the reserve keeps one for each *)
(* stream, and free_sblk_cnt, which decides about GC, is exact.            *)
(***************************************************************************)
Fates == {"runs", "full", "failed"}
PageSet == Int \X Int
GrainSet == Int \X Int \X Int
Oobs == UNION { [S -> Lpas] : S \in SUBSET GrainSet }

Fields == {"wp", "free", "next", "owned", "rsv", "nrRsv", "of", "active", "page", "remain",
           "fl", "ppa", "oob", "dev", "table", "fate", "early", "stray", "unwritten"}

\* The records data may be, and the types of their fields.
Data == [wp : [Sblks -> 0 .. PagesPerSblk], free : Int, next : Sblks \cup {NoSblk},
         owned : SUBSET Sblks, rsv : SUBSET Sblks, nrRsv : Int,
         of : [Sblks -> AllStreams \cup {-1}], active : [AllStreams -> Sblks \cup {NoSblk}],
         page : [AllStreams -> PageSet], remain : [AllStreams -> Int],
         fl : [AllStreams -> Seq(PageSet)], ppa : PageSet, oob : Oobs, dev : [Sblks -> Int],
         table : [Lpas -> GrainSet], fate : Fates, early : BOOLEAN, stray : BOOLEAN,
         unwritten : SUBSET GrainSet]

IsRec(d) == d = [f \in Fields |-> d[f]]

Types(d) ==
    /\ d.wp \in [Sblks -> 0 .. PagesPerSblk] /\ d.free \in Int /\ d.next \in Sblks \cup {NoSblk}
    /\ d.owned \in SUBSET Sblks /\ d.rsv \in SUBSET Sblks /\ d.nrRsv \in Int
    /\ d.of \in [Sblks -> AllStreams \cup {-1}]
    /\ d.active \in [AllStreams -> Sblks \cup {NoSblk}]
    /\ d.page \in [AllStreams -> PageSet] /\ d.remain \in [AllStreams -> Int]
    /\ d.fl \in [AllStreams -> Seq(PageSet)] /\ d.ppa \in PageSet /\ d.oob \in Oobs
    /\ d.dev \in [Sblks -> Int] /\ d.table \in [Lpas -> GrainSet] /\ d.fate \in Fates
    /\ d.early \in BOOLEAN /\ d.stray \in BOOLEAN /\ d.unwritten \in SUBSET GrainSet

\* e is d but for the fields F.
SameBut(d, e, F) == IsRec(e) /\ \A f \in Fields \ F : e[f] = d[f]

Rest(d) == Sblks \ (d.owned \cup d.rsv)
Erased(d) == { i \in Rest(d) : d.wp[i] = 0 }

\* Valid grains lie on pages that were handed out.
HandedOut(d) == \A g \in DOMAIN d.oob : g[1] \in Sblks => g[2] < d.wp[g[1]]

\* PoolsSound, and what it rests on: a superblock in no pool that is not erased has the
\* stream that filled it, and a page with grains left is one of the active superblock.
Pool(d) ==
    /\ \A k \in AllStreams : d.active[k] \in d.owned /\ d.of[d.active[k]] = k
    /\ Cardinality(d.owned) = NrStreams
    /\ d.owned \cap d.rsv = {}
    /\ Cardinality(d.rsv) = NrStreams /\ d.nrRsv = NrStreams
    /\ \A i \in Rest(d) : d.wp[i] \in {0, PagesPerSblk} /\ (d.wp[i] > 0 => d.of[i] \in AllStreams)
    /\ d.free = Cardinality(Erased(d))
    /\ HandedOut(d)
    /\ \A k \in AllStreams :
          d.remain[k] > 0 => /\ d.page[k][1] = d.active[k]
                             /\ d.page[k][2] < d.wp[d.active[k]]

Sound(d) == IsRec(d) /\ Types(d) /\ (d.fate = "runs" => Pool(d))

EntryStates == {"out", "buffer", "placed", "mapped"}

SegInv == Sound(data) /\ entry \in [Lpas -> [at : EntryStates, grain : GrainSet]]

-----------------------------------------------------------------------------
(***************************************************************************)
(* Numbers and loops.                                                      *)
(***************************************************************************)
\* Every non-empty set of naturals has a least element.
LEMMA LeastOne ==
    ASSUME NEW T \in SUBSET Nat, T # {} PROVE \E x \in T : \A y \in T : x <= y
<1>1. PICK x \in T : \A y \in T : ~(<<y, x>> \in OpToRel(<, Nat))
  BY NatLessThanWellFounded, WFMin
<1>2. \A y \in T : ~(y < x)
  BY <1>1 DEF OpToRel
<1> QED BY <1>2

\* Min of a non-empty set of naturals is one of them.
LEMMA MinIsIn == ASSUME NEW T \in SUBSET Nat, T # {} PROVE Min(T) \in T
BY LeastOne DEF Min

\* What holds at 0 and goes on to the next number holds up to n.
LEMMA CountUp ==
    ASSUME NEW n \in Nat, NEW T, 0 \in T, \A i \in 1 .. n : i - 1 \in T => i \in T
    PROVE  \A i \in 0 .. n : i \in T
<1> DEFINE Bad == { i \in 0 .. n : i \notin T }
<1> SUFFICES ASSUME Bad # {} PROVE FALSE
  OBVIOUS
<1>1. Bad \in SUBSET Nat
  OBVIOUS
<1>2. PICK m \in Bad : \A y \in Bad : m <= y
  BY <1>1, LeastOne
<1>3. m \in 0 .. n /\ m \notin T
  OBVIOUS
<1>4. m # 0
  BY <1>3
<1>5. m \in 1 .. n /\ m - 1 \in 0 .. n /\ ~(m <= m - 1)
  BY <1>3, <1>4
<1>6. m - 1 \notin Bad
  <2> HIDE DEF Bad
  <2> QED BY <1>2, <1>5
<1> QED BY <1>3, <1>5, <1>6

\* The step of a loop of n turns that stays within S: from a state and the number of the
\* turn to the next state.
IsStep(F, S, n) == F \in [S \X (1 .. n) -> S]

\* g gives the state after each turn.
Follows(g, F, S, n, first) ==
    /\ g \in [0 .. n -> S] /\ g[0] = first
    /\ \A i \in 1 .. n : g[i] = F[<<g[i - 1], i>>]

\* Each such loop has such a function.
LEMMA LoopExists ==
    ASSUME NEW S, NEW n \in Nat, NEW first \in S, NEW F, IsStep(F, S, n)
    PROVE  \E g : Follows(g, F, S, n, first)
<1>0. F \in [S \X (1 .. n) -> S]
  BY DEF IsStep
<1> DEFINE Goes(g, m) == /\ g \in [0 .. m -> S] /\ g[0] = first
                         /\ \A i \in 1 .. m : g[i] = F[<<g[i - 1], i>>]
           T == { m \in 0 .. n : \E g : Goes(g, m) }
<1>1. 0 \in T
  <2> DEFINE g == [i \in 0 .. 0 |-> first]
  <2>1. Goes(g, 0)
    OBVIOUS
  <2>2. \E f : Goes(f, 0)
    <3> HIDE DEF Goes, g
    <3> QED BY <2>1
  <2> HIDE DEF Goes
  <2> QED BY <2>2
<1>2. ASSUME NEW m \in 1 .. n, m - 1 \in T PROVE m \in T
  <2>1. PICK f : Goes(f, m - 1)
    BY <1>2
  <2>2. m \in Nat /\ m > 0
    OBVIOUS
  <2> DEFINE g == [i \in 0 .. m |-> IF i = m THEN F[<<f[m - 1], m>>] ELSE f[i]]
  <2>3. f[m - 1] \in S /\ F[<<f[m - 1], m>>] \in S
    BY <1>0, <2>1, <2>2
  <2>4. g \in [0 .. m -> S]
    BY <2>1, <2>2, <2>3
  <2>5. g[0] = first
    BY <2>1, <2>2
  <2>6. ASSUME NEW i \in 1 .. m PROVE g[i] = F[<<g[i - 1], i>>]
    <3>1. i \in 0 .. m /\ i - 1 \in 0 .. m /\ i - 1 # m
      BY <2>2
    <3>2. g[i - 1] = f[i - 1]
      BY <3>1
    <3>3. CASE i = m
      BY <3>1, <3>2, <3>3
    <3>4. CASE i # m
      <4>1. i \in 1 .. m - 1
        BY <2>2, <3>4
      <4>2. f[i] = F[<<f[i - 1], i>>]
        BY <2>1, <4>1
      <4> QED BY <3>1, <3>2, <3>4, <4>2
    <3> QED BY <3>3, <3>4
  <2>7. Goes(g, m)
    BY <2>4, <2>5, <2>6
  <2>8. \E e : Goes(e, m)
    <3> HIDE DEF Goes, g
    <3> QED BY <2>7
  <2> HIDE DEF Goes
  <2> QED BY <2>8
<1>3. n \in T
  <2> HIDE DEF T
  <2>1. \A i \in 0 .. n : i \in T
    BY <1>1, <1>2, CountUp
  <2> QED BY <2>1
<1> QED BY <1>3 DEF Follows

\* A function that follows the loop stays within S.
LEMMA LoopStays ==
    ASSUME NEW S, NEW n \in Nat, NEW F, IsStep(F, S, n), NEW f, f[0] \in S,
           \A i \in 1 .. n : f[i - 1] \in S => f[i] = F[<<f[i - 1], i>>]
    PROVE  \A i \in 0 .. n : f[i] \in S
<1>0. F \in [S \X (1 .. n) -> S]
  BY DEF IsStep
<1> DEFINE T == { i \in 0 .. n : f[i] \in S }
<1>1. 0 \in T
  OBVIOUS
<1>2. \A i \in 1 .. n : i - 1 \in T => i \in T
  <2> SUFFICES ASSUME NEW i \in 1 .. n, i - 1 \in T PROVE i \in T
    OBVIOUS
  <2>1. f[i - 1] \in S /\ f[i] = F[<<f[i - 1], i>>] /\ i \in 0 .. n
    OBVIOUS
  <2>2. F[<<f[i - 1], i>>] \in S
    BY <1>0, <2>1
  <2> QED BY <2>1, <2>2
<1>3. \A i \in 0 .. n : i \in T
  <2> HIDE DEF T
  <2> QED BY <1>1, <1>2, CountUp
<1> QED BY <1>3

-----------------------------------------------------------------------------
(***************************************************************************)
(* The record.                                                             *)
(***************************************************************************)
\* The constants as the proofs use them.
LEMMA Sizes ==
    ASSUME StreamsAssumption
    PROVE  /\ NrStreams \in Nat /\ NrStreams > 0 /\ SSblk \in Nat /\ SSblk > 0 /\ ESblk \in Nat
           /\ ESblk - SSblk >= 2 * NrStreams + 1
           /\ PagesPerSblk \in Nat /\ PagesPerSblk > 0
           /\ GrainsPerPage \in Nat /\ GrainsPerPage > 0
           /\ Sblks \subseteq Nat /\ 0 \notin Sblks /\ NoSblk \notin Sblks
           /\ IsFiniteSet(Sblks) /\ Cardinality(Sblks) = ESblk - SSblk + 1
           /\ \A k \in AllStreams : k \in Nat /\ k < NrStreams
<1>1. /\ NrStreams \in Nat /\ NrStreams > 0 /\ SSblk \in Nat /\ SSblk > 0 /\ ESblk \in Nat
      /\ ESblk - SSblk >= 2 * NrStreams + 1
      /\ PagesPerSblk \in Nat /\ PagesPerSblk > 0
      /\ GrainsPerPage \in Nat /\ GrainsPerPage > 0
  BY DEF StreamsAssumption
<1>2. Sblks \subseteq Nat /\ 0 \notin Sblks /\ NoSblk \notin Sblks
  BY <1>1 DEF Sblks, NoSblk
<1>3. IsFiniteSet(Sblks) /\ Cardinality(Sblks) = ESblk - SSblk + 1
  BY <1>1, FS_Interval DEF Sblks
<1>4. \A k \in AllStreams : k \in Nat /\ k < NrStreams
  BY <1>1 DEF AllStreams
<1> QED BY <1>1, <1>2, <1>3, <1>4

\* The records are those with the fields, of their types.
LEMMA DataIs == ASSUME NEW d PROVE d \in Data <=> IsRec(d) /\ Types(d)
<1>1. ASSUME IsRec(d), Types(d) PROVE d \in Data
  BY <1>1 DEF IsRec, Fields, Data, Types
<1>2. ASSUME d \in Data PROVE IsRec(d)
  BY <1>2 DEF IsRec, Fields, Data
<1>3. ASSUME d \in Data PROVE Types(d)
  BY <1>3 DEF Types, Data
<1> QED BY <1>1, <1>2, <1>3

\* A function with another value of its range.
LEMMA UpdateIs ==
    ASSUME NEW A, NEW B, NEW f \in [A -> B], NEW x, NEW y \in B
    PROVE  [f EXCEPT ![x] = y] \in [A -> B]
<1>1. \A a \in A : [f EXCEPT ![x] = y][a] \in B
  OBVIOUS
<1> QED BY <1>1

\* What an oob is.
LEMMA OobIs ==
    ASSUME NEW o
    PROVE  o \in Oobs <=> /\ o = [g \in DOMAIN o |-> o[g]]
                          /\ DOMAIN o \subseteq GrainSet
                          /\ \A g \in DOMAIN o : o[g] \in Lpas
<1>1. ASSUME o \in Oobs PROVE /\ o = [g \in DOMAIN o |-> o[g]]
                              /\ DOMAIN o \subseteq GrainSet
                              /\ \A g \in DOMAIN o : o[g] \in Lpas
  <2>1. PICK S \in SUBSET GrainSet : o \in [S -> Lpas]
    BY <1>1 DEF Oobs
  <2> QED BY <2>1
<1>2. ASSUME /\ o = [g \in DOMAIN o |-> o[g]]
             /\ DOMAIN o \subseteq GrainSet
             /\ \A g \in DOMAIN o : o[g] \in Lpas
      PROVE  o \in Oobs
  <2>1. o \in [DOMAIN o -> Lpas]
    BY <1>2
  <2> QED BY <1>2, <2>1 DEF Oobs
<1> QED BY <1>1, <1>2

-----------------------------------------------------------------------------
(***************************************************************************)
(* Superblocks of streams.                                                 *)
(***************************************************************************)
\* The result of a search: a superblock of those to choose from, or a failure.
LEMMA FoundIs ==
    ASSUME StreamsAssumption, NEW d, IsRec(d), Types(d), NEW choice \in SUBSET Sblks,
           NEW e, e = Found(d, choice)
    PROVE  /\ IsRec(e) /\ Types(e)
           /\ choice = {} => e.fate = "failed"
           /\ choice # {} =>
                 \E i \in choice : /\ e.next = i
                                   /\ e.free = IF d.wp[i] = 0 THEN d.free - 1 ELSE d.free
                                   /\ SameBut(d, e, {"next", "free"})
<1>1. CASE choice = {}
  <2>1. e = [d EXCEPT !.next = NoSblk, !.fate = "failed"]
    BY <1>1 DEF Found
  <2>2. SameBut(d, e, {"next", "fate"}) /\ e.next = NoSblk /\ e.fate = "failed"
    BY <2>1 DEF SameBut, IsRec, Fields
  <2>3. e.next \in Sblks \cup {NoSblk} /\ e.fate \in Fates
    BY <2>2 DEF Fates
  <2>4. Types(e)
    BY <2>2, <2>3 DEF SameBut, Types, Fields
  <2> QED BY <1>1, <2>2, <2>4 DEF SameBut
<1>2. CASE choice # {}
  <2>1. PICK i \in choice : i = Min(choice)
    BY <1>2, Sizes, MinIsIn
  <2>2. e = [d EXCEPT !.next = i, !.free = IF d.wp[i] = 0 THEN @ - 1 ELSE @]
    BY <1>2, <2>1 DEF Found
  <2>3. /\ SameBut(d, e, {"next", "free"}) /\ e.next = i
        /\ e.free = IF d.wp[i] = 0 THEN d.free - 1 ELSE d.free
    BY <2>2 DEF SameBut, IsRec, Fields
  <2>4. e.free \in Int /\ e.next \in Sblks
    BY <2>3 DEF Types
  <2>5. Types(e)
    BY <2>3, <2>4 DEF SameBut, Types, Fields
  <2> QED BY <1>2, <2>3, <2>5 DEF SameBut
<1> QED BY <1>1, <1>2

\* get_active_superblock finds a superblock of no pool that is not full.
LEMMA SearchIs ==
    ASSUME StreamsAssumption, NEW d, IsRec(d), Types(d), NEW e, e = get_active_superblock(d)
    PROVE  /\ IsRec(e) /\ Types(e)
           /\ e.fate # "failed" =>
                 \E i \in Unused(d) : /\ e.next = i
                                      /\ e.free = IF d.wp[i] = 0 THEN d.free - 1 ELSE d.free
                                      /\ SameBut(d, e, {"next", "free"})
<1>1. PICK c : c = AfterElseBefore(SearchStart(d), Unused(d))
  OBVIOUS
<1>2. c \subseteq Unused(d)
  BY <1>1 DEF AfterElseBefore
<1>3. c \in SUBSET Sblks
  BY <1>2 DEF Unused
<1>4. e = Found(d, c)
  BY <1>1 DEF get_active_superblock
<1> QED BY <1>2, <1>3, <1>4, FoundIs

\* A stream goes from a full superblock a to an erased one.
LEMMA OwnSound ==
    ASSUME StreamsAssumption, NEW d, IsRec(d), Types(d), Pool(d), NEW k \in AllStreams,
           d.wp[d.active[k]] = PagesPerSblk, NEW i \in Rest(d), d.wp[i] = 0,
           NEW e, SameBut(d, e, {"next", "free", "owned", "of", "active", "page", "remain"}),
           e.next \in Sblks \cup {NoSblk}, e.free = d.free - 1,
           e.owned = (d.owned \ {d.active[k]}) \cup {i},
           e.of = [d.of EXCEPT ![i] = k], e.active = [d.active EXCEPT ![k] = i],
           e.page = [d.page EXCEPT ![k] = <<i, 0>>], e.remain = [d.remain EXCEPT ![k] = 0]
    PROVE  Types(e) /\ Pool(e)
<1> DEFINE a == d.active[k]
<1>1. /\ a \in d.owned /\ d.of[a] = k /\ a \in Sblks
      /\ d.owned \subseteq Sblks /\ d.rsv \subseteq Sblks
  BY DEF Pool, Types
<1>2. i \in Sblks /\ i \notin d.owned /\ i \notin d.rsv /\ i # a
  BY <1>1 DEF Rest
<1>3. /\ e.wp = d.wp /\ e.rsv = d.rsv /\ e.nrRsv = d.nrRsv /\ e.fl = d.fl /\ e.ppa = d.ppa
      /\ e.oob = d.oob /\ e.dev = d.dev /\ e.table = d.table /\ e.fate = d.fate
      /\ e.early = d.early /\ e.stray = d.stray /\ e.unwritten = d.unwritten
  BY DEF SameBut, Fields
<1>4. Types(e)
  <2>1. e.owned \in SUBSET Sblks /\ e.free \in Int /\ e.next \in Sblks \cup {NoSblk}
    BY <1>1, <1>2 DEF Types
  <2>2. e.of \in [Sblks -> AllStreams \cup {-1}]
    <3>1. d.of \in [Sblks -> AllStreams \cup {-1}]
      BY DEF Types
    <3>2. k \in AllStreams \cup {-1}
      OBVIOUS
    <3> QED BY <3>1, <3>2, UpdateIs
  <2>3. e.active \in [AllStreams -> Sblks \cup {NoSblk}]
    <3>1. d.active \in [AllStreams -> Sblks \cup {NoSblk}]
      BY DEF Types
    <3>2. i \in Sblks \cup {NoSblk}
      BY <1>2
    <3> QED BY <3>1, <3>2, UpdateIs
  <2>4. e.page \in [AllStreams -> PageSet]
    <3>1. d.page \in [AllStreams -> PageSet]
      BY DEF Types
    <3>2. <<i, 0>> \in PageSet
      BY <1>2, Sizes DEF PageSet
    <3> QED BY <3>1, <3>2, UpdateIs
  <2>5. e.remain \in [AllStreams -> Int]
    <3>1. d.remain \in [AllStreams -> Int] /\ 0 \in Int
      BY DEF Types
    <3> QED BY <3>1, UpdateIs
  <2> QED BY <1>3, <2>1, <2>2, <2>3, <2>4, <2>5 DEF Types
<1>5. \A j \in AllStreams : e.active[j] \in e.owned /\ e.of[e.active[j]] = j
  <2> SUFFICES ASSUME NEW j \in AllStreams
               PROVE  e.active[j] \in e.owned /\ e.of[e.active[j]] = j
    OBVIOUS
  <2>1. CASE j = k
    BY <1>2, <2>1 DEF Types
  <2>2. CASE j # k
    <3>1. d.active[j] \in d.owned /\ d.of[d.active[j]] = j
      BY DEF Pool
    <3>2. d.active[j] # a /\ d.active[j] # i
      BY <1>1, <1>2, <2>2, <3>1
    <3>3. e.active[j] = d.active[j]
      BY <2>2 DEF Types
    <3>4. e.of[d.active[j]] = d.of[d.active[j]]
      BY <1>1, <3>1, <3>2 DEF Types
    <3> QED BY <3>1, <3>2, <3>3, <3>4
  <2> QED BY <2>1, <2>2
<1>6. IsFiniteSet(d.owned) /\ IsFiniteSet(Rest(d)) /\ IsFiniteSet(Erased(d))
  <2>1. Rest(d) \subseteq Sblks /\ Erased(d) \subseteq Sblks
    BY DEF Rest, Erased
  <2> QED BY <1>1, <2>1, Sizes, FS_Subset
<1>7. Cardinality(e.owned) = NrStreams
  <2>1. PICK S : S = d.owned
    OBVIOUS
  <2>2. IsFiniteSet(S) /\ a \in S /\ Cardinality(S) = NrStreams
    BY <1>1, <1>6, <2>1 DEF Pool
  <2>3. PICK R : R = S \ {a}
    OBVIOUS
  <2>4. IsFiniteSet(R) /\ Cardinality(R) = NrStreams - 1
    BY <2>2, <2>3, FS_RemoveElement
  <2>5. i \notin R
    BY <1>2, <2>1, <2>3
  <2>6. Cardinality(R \cup {i}) = Cardinality(R) + 1
    BY <2>4, <2>5, FS_AddElement
  <2>7. Cardinality(R \cup {i}) = NrStreams
    BY <2>4, <2>6, Sizes
  <2> QED BY <2>1, <2>3, <2>7
<1>8. e.owned \cap e.rsv = {} /\ Cardinality(e.rsv) = NrStreams /\ e.nrRsv = NrStreams
  BY <1>2, <1>3 DEF Pool
<1>9. Rest(e) = (Rest(d) \ {i}) \cup {a}
  <2>1. a \notin d.rsv
    BY <1>1 DEF Pool
  <2> QED BY <1>1, <1>2, <1>3, <2>1 DEF Rest
<1>10. \A x \in Rest(e) : e.wp[x] \in {0, PagesPerSblk} /\ (e.wp[x] > 0 => e.of[x] \in AllStreams)
  <2> SUFFICES ASSUME NEW x \in Rest(e)
               PROVE  e.wp[x] \in {0, PagesPerSblk} /\ (e.wp[x] > 0 => e.of[x] \in AllStreams)
    OBVIOUS
  <2>1. x \in Sblks /\ x # i /\ e.of[x] = d.of[x]
    BY <1>1, <1>2, <1>9 DEF Types, Rest
  <2>2. CASE x = a
    BY <1>1, <1>3, <2>1, <2>2
  <2>3. CASE x # a
    BY <1>3, <1>9, <2>1, <2>3 DEF Pool
  <2> QED BY <2>2, <2>3
<1>11. e.free = Cardinality(Erased(e))
  <2>1. Erased(e) = Erased(d) \ {i}
    <3>1. d.wp[a] # 0
      BY Sizes
    <3> QED BY <1>3, <1>9, <3>1 DEF Erased
  <2>2. i \in Erased(d)
    BY DEF Erased
  <2>3. Cardinality(Erased(e)) = Cardinality(Erased(d)) - 1
    BY <1>6, <2>1, <2>2, FS_RemoveElement
  <2> QED BY <2>3 DEF Pool
<1>12. HandedOut(e)
  BY <1>3 DEF HandedOut, Pool
<1>13. \A j \in AllStreams : e.remain[j] > 0 => /\ e.page[j][1] = e.active[j]
                                               /\ e.page[j][2] < e.wp[e.active[j]]
  <2> SUFFICES ASSUME NEW j \in AllStreams, e.remain[j] > 0
               PROVE  e.page[j][1] = e.active[j] /\ e.page[j][2] < e.wp[e.active[j]]
    OBVIOUS
  <2>1. j # k
    BY DEF Types
  <2>2. e.remain[j] = d.remain[j] /\ e.page[j] = d.page[j] /\ e.active[j] = d.active[j]
    BY <2>1 DEF Types
  <2> QED BY <1>3, <2>2 DEF Pool
<1> QED BY <1>4, <1>5, <1>7, <1>8, <1>10, <1>11, <1>12, <1>13 DEF Pool

\* get_stream_superblock: afterwards the stream has room, and no full superblock was taken.
LEMMA SwitchIs ==
    ASSUME StreamsAssumption, NEW d, IsRec(d), Types(d), Pool(d), d.fate = "runs",
           NEW k \in AllStreams, NEW e, e = get_stream_superblock(d, k)
    PROVE  /\ Sound(e)
           /\ e.fate = "runs" =>
                 /\ SameBut(d, e, {"next", "free", "owned", "of", "active", "page", "remain"})
                 /\ e.wp[e.active[k]] < PagesPerSblk
                 /\ \A v \in Rest(d) : d.wp[v] = PagesPerSblk => v \in Rest(e)
<1>0. d.active[k] \in d.owned /\ d.of[d.active[k]] = k /\ d.active[k] \in Sblks
  BY DEF Pool, Types
<1>1. PICK a : a = d.active[k]
  OBVIOUS
<1>2. d.wp[a] \in 0 .. PagesPerSblk
  BY <1>0, <1>1 DEF Types
<1>3. CASE ~Switches(d, k)
  <2>1. e = d
    BY <1>3 DEF get_stream_superblock
  <2>2. d.wp[a] < PagesPerSblk
    BY <1>1, <1>2, <1>3, Sizes DEF Switches, check_full
  <2> QED BY <1>1, <2>1, <2>2 DEF SameBut, Sound
<1>4. CASE Switches(d, k)
  <2>1. d.wp[a] = PagesPerSblk
    BY <1>0, <1>1, <1>2, <1>4, Sizes DEF Switches, check_full
  <2>2. PICK o : o = d.owned \ {a}
    OBVIOUS
  <2>3. PICK c : c = [d EXCEPT !.owned = o]
    OBVIOUS
  <2>4. PICK f : f = get_active_superblock(c)
    OBVIOUS
  <2>5. e = Own(f, k)
    <3>1. c = [d EXCEPT !.owned = @ \ {d.active[k]}]
      BY <1>1, <2>2, <2>3
    <3> QED BY <1>4, <2>4, <3>1 DEF get_stream_superblock
  <2>6. SameBut(d, c, {"owned"}) /\ c.owned = o
    BY <2>3 DEF SameBut, IsRec, Fields
  <2>7. IsRec(c) /\ Types(c)
    <3>1. o \in SUBSET Sblks
      BY <2>2 DEF Types
    <3> QED BY <2>6, <3>1 DEF SameBut, Types, Fields
  <2>8. /\ IsRec(f) /\ Types(f)
        /\ f.fate # "failed" =>
              \E i \in Unused(c) : /\ f.next = i
                                   /\ f.free = IF c.wp[i] = 0 THEN c.free - 1 ELSE c.free
                                   /\ SameBut(c, f, {"next", "free"})
    BY <2>4, <2>7, SearchIs
  <2>9. CASE f.fate # "runs"
    BY <2>5, <2>8, <2>9 DEF Own, Sound
  <2>10. CASE f.fate = "runs"
    <3>1. PICK i \in Unused(c) : /\ f.next = i
                                 /\ f.free = IF c.wp[i] = 0 THEN c.free - 1 ELSE c.free
                                 /\ SameBut(c, f, {"next", "free"})
      BY <2>8, <2>10
    <3>2. c.wp = d.wp /\ c.rsv = d.rsv /\ c.free = d.free
      BY <2>6 DEF SameBut, Fields
    <3>3. i \in Rest(d) /\ d.wp[i] = 0
      <4>1. i \in Sblks /\ i \notin o /\ i \notin d.rsv /\ ~(d.wp[i] >= PagesPerSblk)
        BY <2>6, <3>2 DEF Unused, check_full
      <4>2. i # a
        BY <2>1, <4>1, Sizes
      <4>3. i \in Rest(d)
        BY <2>2, <4>1, <4>2 DEF Rest
      <4>4. d.wp[i] \in {0, PagesPerSblk}
        BY <4>3 DEF Pool
      <4> QED BY <4>1, <4>3, <4>4, Sizes
    <3>4. f.wp = d.wp /\ f.owned = o /\ f.of = d.of /\ f.active = d.active /\ f.page = d.page
          /\ f.remain = d.remain
      BY <2>6, <3>1 DEF SameBut, Fields
    <3>5. e = [f EXCEPT !.owned = @ \cup {i}, !.of[i] = k, !.active[k] = i,
                        !.page[k] = <<i, f.wp[i]>>, !.remain[k] = 0]
      BY <2>5, <2>10, <3>1 DEF Own
    <3>6. /\ SameBut(f, e, {"owned", "of", "active", "page", "remain"})
          /\ e.owned = f.owned \cup {i} /\ e.of = [f.of EXCEPT ![i] = k]
          /\ e.active = [f.active EXCEPT ![k] = i]
          /\ e.page = [f.page EXCEPT ![k] = <<i, f.wp[i]>>]
          /\ e.remain = [f.remain EXCEPT ![k] = 0]
      BY <2>8, <3>5 DEF SameBut, IsRec, Fields
    <3>7. SameBut(d, e, {"next", "free", "owned", "of", "active", "page", "remain"})
      BY <2>6, <3>1, <3>6 DEF SameBut, Fields
    <3>8. e.next = i /\ e.free = d.free - 1
      <4>1. e.next = f.next /\ e.free = f.free
        BY <3>6 DEF SameBut, Fields
      <4> QED BY <3>1, <3>2, <3>3, <4>1
    <3>9. Types(e) /\ Pool(e)
      <4>1. i \in Sblks
        BY <3>3 DEF Rest
      <4>2. e.page = [d.page EXCEPT ![k] = <<i, 0>>]
        BY <3>3, <3>4, <3>6
      <4>3. /\ e.owned = (d.owned \ {d.active[k]}) \cup {i} /\ e.of = [d.of EXCEPT ![i] = k]
            /\ e.active = [d.active EXCEPT ![k] = i] /\ e.remain = [d.remain EXCEPT ![k] = 0]
        BY <1>1, <2>2, <3>4, <3>6
      <4> QED BY <1>1, <2>1, <3>3, <3>7, <3>8, <4>1, <4>2, <4>3, OwnSound
    <3>10. e.active[k] = i /\ e.wp = d.wp /\ e.rsv = d.rsv
      BY <3>4, <3>6, <3>7 DEF SameBut, Fields, Types
    <3>11. ASSUME NEW v \in Rest(d), d.wp[v] = PagesPerSblk PROVE v \in Rest(e)
      <4>1. v # i
        BY <3>3, <3>11, Sizes
      <4>2. v \in Sblks /\ v \notin d.owned /\ v \notin d.rsv
        BY DEF Rest
      <4> QED BY <2>2, <3>4, <3>6, <3>10, <4>1, <4>2 DEF Rest
    <3> QED BY <3>3, <3>6, <3>7, <3>9, <3>10, <3>11, Sizes DEF Sound, SameBut
  <2> QED BY <2>9, <2>10
<1> QED BY <1>3, <1>4

\* get_page_num: a page of the stream's superblock.
LEMMA TakeIs ==
    ASSUME StreamsAssumption, NEW d, IsRec(d), Types(d), Pool(d), d.fate = "runs",
           NEW k \in AllStreams, d.wp[d.active[k]] < PagesPerSblk, NEW e, e = TakePage(d, k)
    PROVE  /\ Sound(e) /\ e.fate = "runs"
           /\ SameBut(d, e, {"page", "wp", "remain"})
           /\ e.remain[k] > 0 /\ e.page[k][1] = d.active[k]
           /\ e.page[k][2] < e.wp[d.active[k]] /\ e.page[k] \in PageSet
           /\ Rest(e) = Rest(d) /\ \A v \in Rest(d) : e.wp[v] = d.wp[v]
           /\ \A x \in Sblks : d.wp[x] <= e.wp[x]
<1>1. PICK a : a = d.active[k]
  OBVIOUS
<1>2. a \in d.owned /\ a \in Sblks /\ d.wp[a] \in 0 .. PagesPerSblk /\ d.wp[a] < PagesPerSblk
  BY <1>1 DEF Pool, Types
<1>3. PICK w : w = d.wp[a]
  OBVIOUS
<1>4. w \in Nat /\ w + 1 \in 0 .. PagesPerSblk
  BY <1>2, <1>3, Sizes
<1>5. e = [d EXCEPT !.page[k] = <<a, w>>, !.wp[a] = w + 1, !.remain[k] = GrainsPerPage]
  <2>1. e = [d EXCEPT !.page[k] = <<a, w>>, !.wp[a] = @ + 1, !.remain[k] = GrainsPerPage]
    BY <1>1, <1>3 DEF TakePage
  <2> QED BY <1>3, <2>1 DEF IsRec, Fields
<1>6. /\ SameBut(d, e, {"page", "wp", "remain"}) /\ e.page = [d.page EXCEPT ![k] = <<a, w>>]
      /\ e.wp = [d.wp EXCEPT ![a] = w + 1] /\ e.remain = [d.remain EXCEPT ![k] = GrainsPerPage]
  BY <1>5 DEF SameBut, IsRec, Fields
<1>7. /\ e.free = d.free /\ e.next = d.next /\ e.owned = d.owned /\ e.rsv = d.rsv
      /\ e.nrRsv = d.nrRsv /\ e.of = d.of /\ e.active = d.active /\ e.fl = d.fl /\ e.ppa = d.ppa
      /\ e.oob = d.oob /\ e.dev = d.dev /\ e.table = d.table /\ e.fate = d.fate
      /\ e.early = d.early /\ e.stray = d.stray /\ e.unwritten = d.unwritten
  BY <1>6 DEF SameBut, Fields
<1>8. <<a, w>> \in PageSet
  BY <1>2, <1>4, Sizes DEF PageSet
<1>9. Types(e)
  <2>0. /\ d.wp \in [Sblks -> 0 .. PagesPerSblk] /\ d.page \in [AllStreams -> PageSet]
        /\ d.remain \in [AllStreams -> Int]
    BY DEF Types
  <2>1. e.wp \in [Sblks -> 0 .. PagesPerSblk]
    BY <1>4, <1>6, <2>0, UpdateIs
  <2>2. e.page \in [AllStreams -> PageSet]
    BY <1>6, <1>8, <2>0, UpdateIs
  <2>3. e.remain \in [AllStreams -> Int]
    <3>1. GrainsPerPage \in Int
      BY Sizes
    <3> QED BY <1>6, <2>0, <3>1, UpdateIs
  <2> QED BY <1>7, <2>1, <2>2, <2>3 DEF Types
<1>10. e.remain[k] = GrainsPerPage /\ e.page[k] = <<a, w>> /\ e.wp[a] = w + 1
  BY <1>2, <1>6 DEF Types
<1>11. Rest(e) = Rest(d) /\ \A v \in Rest(d) : e.wp[v] = d.wp[v]
  <2>1. a \notin Rest(d) /\ Rest(d) \subseteq Sblks
    BY <1>2 DEF Rest
  <2>2. \A v \in Rest(d) : e.wp[v] = d.wp[v]
    BY <1>6, <2>1 DEF Types
  <2> QED BY <1>7, <2>2 DEF Rest
<1>12. \A x \in Sblks : d.wp[x] <= e.wp[x] /\ d.wp[x] \in Int /\ e.wp[x] \in Int
  <2> SUFFICES ASSUME NEW x \in Sblks
               PROVE  d.wp[x] <= e.wp[x] /\ d.wp[x] \in Int /\ e.wp[x] \in Int
    OBVIOUS
  <2>1. d.wp[x] \in Int
    BY DEF Types
  <2>2. CASE x = a
    BY <1>3, <1>4, <1>10, <2>1, <2>2
  <2>3. CASE x # a
    BY <1>6, <2>1, <2>3 DEF Types
  <2> QED BY <2>2, <2>3
<1>13. HandedOut(e)
  <2> SUFFICES ASSUME NEW g \in DOMAIN d.oob, g[1] \in Sblks PROVE g[2] < e.wp[g[1]]
    BY <1>7 DEF HandedOut
  <2>1. g[2] < d.wp[g[1]]
    BY DEF Pool, HandedOut
  <2>2. g[2] \in Int
    BY OobIs DEF Types, GrainSet
  <2> QED BY <1>12, <2>1, <2>2
<1>14. \A j \in AllStreams : e.remain[j] > 0 => /\ e.page[j][1] = e.active[j]
                                               /\ e.page[j][2] < e.wp[e.active[j]]
  <2> SUFFICES ASSUME NEW j \in AllStreams, e.remain[j] > 0
               PROVE  e.page[j][1] = e.active[j] /\ e.page[j][2] < e.wp[e.active[j]]
    OBVIOUS
  <2>1. CASE j = k
    BY <1>1, <1>4, <1>7, <1>10, <2>1
  <2>2. CASE j # k
    <3>1. e.remain[j] = d.remain[j] /\ e.page[j] = d.page[j]
      BY <1>6, <2>2 DEF Types
    <3>2. d.page[j][1] = d.active[j] /\ d.page[j][2] < d.wp[d.active[j]]
      BY <3>1 DEF Pool
    <3>3. d.page[j][2] \in Int /\ d.active[j] \in Sblks
      BY DEF Types, PageSet, Pool
    <3> QED BY <1>7, <1>12, <3>1, <3>2, <3>3
  <2> QED BY <2>1, <2>2
<1>15. Erased(e) = Erased(d)
  BY <1>11 DEF Erased
<1>16. Pool(e)
  <2>1. \A i \in Rest(e) : e.wp[i] \in {0, PagesPerSblk} /\ (e.wp[i] > 0 => e.of[i] \in AllStreams)
    BY <1>7, <1>11 DEF Pool
  <2> QED BY <1>7, <1>13, <1>14, <1>15, <2>1 DEF Pool
<1> QED BY <1>1, <1>4, <1>6, <1>7, <1>8, <1>9, <1>10, <1>11, <1>12, <1>16, Sizes DEF Sound,
   SameBut


\* The fields the pools say nothing of.
OtherFields == {"next", "fl", "ppa", "dev", "table", "fate", "early", "stray", "unwritten"}

LEMMA PoolStays ==
    ASSUME NEW d, NEW e, Pool(d), SameBut(d, e, OtherFields)
    PROVE  Pool(e)
<1>1. /\ e.wp = d.wp /\ e.free = d.free /\ e.owned = d.owned /\ e.rsv = d.rsv
      /\ e.nrRsv = d.nrRsv /\ e.of = d.of /\ e.active = d.active /\ e.page = d.page
      /\ e.remain = d.remain /\ e.oob = d.oob
  BY DEF SameBut, Fields, OtherFields
<1>2. Rest(e) = Rest(d)
  BY <1>1 DEF Rest
<1>3. Erased(e) = Erased(d)
  BY <1>1, <1>2 DEF Erased
<1>4. HandedOut(e)
  BY <1>1 DEF Pool, HandedOut
<1>5. \A i \in Rest(e) : e.wp[i] \in {0, PagesPerSblk} /\ (e.wp[i] > 0 => e.of[i] \in AllStreams)
  BY <1>1, <1>2 DEF Pool
<1> QED BY <1>1, <1>3, <1>4, <1>5 DEF Pool

-----------------------------------------------------------------------------
(***************************************************************************)
(* Grains and writes.                                                      *)
(***************************************************************************)
\* The next grain of a page is one of that page.
LEMMA NextIs ==
    ASSUME StreamsAssumption, NEW d, Types(d), NEW k \in AllStreams, NEW p \in PageSet,
           NEW g, g = NextGrain(d, k, p)
    PROVE  g \in GrainSet /\ g[1] = p[1] /\ g[2] = p[2]
<1>1. d.remain[k] \in Int /\ GrainsPerPage \in Int
  BY Sizes DEF Types
<1>2. PICK c : c = GrainsPerPage - d.remain[k]
  OBVIOUS
<1>3. g = <<p[1], p[2], c>> /\ c \in Int
  BY <1>1, <1>2 DEF NextGrain
<1> QED BY <1>3 DEF GrainSet, PageSet

\* A grain of a page that was handed out is put down.
LEMMA PutGrainIs ==
    ASSUME StreamsAssumption, NEW d, IsRec(d), Types(d), NEW k \in AllStreams, NEW g \in GrainSet,
           NEW l \in Lpas, NEW e, e = PutGrain(d, k, g, l)
    PROVE  /\ IsRec(e) /\ Types(e) /\ SameBut(d, e, {"remain", "oob", "unwritten", "fate"})
           /\ DOMAIN e.oob = DOMAIN d.oob \cup {g}
           /\ e.fate = "runs" => d.fate = "runs"
           /\ Pool(d) /\ (g[1] \in Sblks => g[2] < d.wp[g[1]]) => Pool(e)
<1>1. PICK o : o = [h \in DOMAIN d.oob \cup {g} |-> IF h = g THEN l ELSE d.oob[h]]
  OBVIOUS
<1>2. PICK ft : ft = IF g \in DOMAIN d.oob THEN "failed" ELSE d.fate
  OBVIOUS
<1>3. PICK rm : rm = [d.remain EXCEPT ![k] = @ - 1]
  OBVIOUS
<1>4. PICK un : un = d.unwritten \cup {g}
  OBVIOUS
<1>5. e = [d EXCEPT !.remain = rm, !.oob = o, !.unwritten = un, !.fate = ft]
  BY <1>1, <1>2, <1>3, <1>4 DEF PutGrain, IsRec, Fields
<1>6. /\ SameBut(d, e, {"remain", "oob", "unwritten", "fate"})
      /\ e.remain = rm /\ e.oob = o /\ e.unwritten = un /\ e.fate = ft
  BY <1>5 DEF SameBut, IsRec, Fields
<1>7. o \in Oobs /\ DOMAIN o = DOMAIN d.oob \cup {g}
  <2>1. DOMAIN d.oob \subseteq GrainSet /\ \A h \in DOMAIN d.oob : d.oob[h] \in Lpas
    BY OobIs DEF Types
  <2> QED BY <1>1, <2>1, OobIs
<1>8. ft \in Fates /\ (ft = "runs" => d.fate = "runs")
  BY <1>2 DEF Types, Fates
<1>9. rm \in [AllStreams -> Int] /\ \A j \in AllStreams : rm[j] > 0 => d.remain[j] > 0
  BY <1>3 DEF Types
<1>10. Types(e)
  <2>1. un \in SUBSET GrainSet
    BY <1>4 DEF Types
  <2> QED BY <1>6, <1>7, <1>8, <1>9, <2>1 DEF SameBut, Types, Fields
<1>11. ASSUME Pool(d), g[1] \in Sblks => g[2] < d.wp[g[1]] PROVE Pool(e)
  <2>1. /\ e.wp = d.wp /\ e.free = d.free /\ e.owned = d.owned /\ e.rsv = d.rsv
        /\ e.nrRsv = d.nrRsv /\ e.of = d.of /\ e.active = d.active /\ e.page = d.page
    BY <1>6 DEF SameBut, Fields
  <2>2. Rest(e) = Rest(d)
    BY <2>1 DEF Rest
  <2>3. Erased(e) = Erased(d)
    BY <2>1, <2>2 DEF Erased
  <2>4. HandedOut(e)
    BY <1>6, <1>7, <1>11, <2>1 DEF Pool, HandedOut
  <2>5. \A i \in Rest(e) : e.wp[i] \in {0, PagesPerSblk} /\ (e.wp[i] > 0 => e.of[i] \in AllStreams)
    BY <1>11, <2>1, <2>2 DEF Pool
  <2>6. \A j \in AllStreams : e.remain[j] > 0 => /\ e.page[j][1] = e.active[j]
                                                /\ e.page[j][2] < e.wp[e.active[j]]
    BY <1>6, <1>9, <1>11, <2>1 DEF Pool
  <2> QED BY <1>11, <2>1, <2>3, <2>4, <2>5, <2>6 DEF Pool
<1> QED BY <1>6, <1>7, <1>8, <1>10, <1>11 DEF SameBut

\* One mapping changes.
LEMMA PlacedIs ==
    ASSUME NEW d, IsRec(d), Types(d), NEW g \in GrainSet, NEW l \in Lpas,
           NEW e, e = PlacedAt(d, g, l)
    PROVE  IsRec(e) /\ Types(e) /\ SameBut(d, e, {"table"})
<1>1. PICK tb : tb = [d.table EXCEPT ![l] = g]
  OBVIOUS
<1>2. e = [d EXCEPT !.table = tb]
  BY <1>1 DEF PlacedAt, IsRec, Fields
<1>3. SameBut(d, e, {"table"}) /\ e.table = tb
  BY <1>2 DEF SameBut, IsRec, Fields
<1>4. tb \in [Lpas -> GrainSet]
  BY <1>1 DEF Types
<1> QED BY <1>3, <1>4 DEF SameBut, Types, Fields

\* The fields a write to the device changes, and what it leaves behind.
WriteFields == {"dev", "unwritten", "fate"}

Wrote(d, e) == /\ IsRec(e) /\ Types(e) /\ SameBut(d, e, WriteFields)
               /\ e.fate = "runs" => d.fate = "runs"

\* Changes of the same fields, one after the other.
LEMMA SameTwice ==
    ASSUME NEW d, NEW e, NEW f, NEW F, SameBut(d, e, F), SameBut(e, f, F)
    PROVE  SameBut(d, f, F)
BY DEF SameBut

\* The write of one page.
LEMMA ProgramIs ==
    ASSUME NEW d, IsRec(d), Types(d), NEW p \in PageSet, NEW e, e = Program(d, p)
    PROVE  Wrote(d, e)
<1>1. CASE d.dev[p[1]] # p[2]
  <2>1. e = [d EXCEPT !.fate = "failed"]
    BY <1>1 DEF Program
  <2>2. SameBut(d, e, {"fate"}) /\ e.fate = "failed"
    BY <2>1 DEF SameBut, IsRec, Fields
  <2>3. Types(e)
    BY <2>2 DEF SameBut, Types, Fields, Fates
  <2> QED BY <2>2, <2>3 DEF Wrote, SameBut, WriteFields
<1>2. CASE d.dev[p[1]] = p[2]
  <2>1. PICK dv : dv = [d.dev EXCEPT ![p[1]] = @ + 1]
    OBVIOUS
  <2>2. PICK un : un = { g \in d.unwritten : <<g[1], g[2]>> # p }
    OBVIOUS
  <2>3. e = [d EXCEPT !.dev = dv, !.unwritten = un]
    BY <1>2, <2>1, <2>2 DEF Program, IsRec, Fields
  <2>4. SameBut(d, e, {"dev", "unwritten"}) /\ e.dev = dv /\ e.unwritten = un
    BY <2>3 DEF SameBut, IsRec, Fields
  <2>5. dv \in [Sblks -> Int]
    <3>1. PICK q : q = p[1]
      OBVIOUS
    <3>2. PICK c : c = d.dev[q] + 1
      OBVIOUS
    <3>3. dv = [d.dev EXCEPT ![q] = c] /\ d.dev \in [Sblks -> Int]
      BY <2>1, <3>1, <3>2 DEF Types
    <3>4. q \in Sblks => c \in Int
      BY <3>2, <3>3
    <3> QED BY <3>3, <3>4
  <2>6. un \in SUBSET GrainSet
    BY <2>2 DEF Types
  <2>7. Types(e)
    BY <2>4, <2>5, <2>6 DEF SameBut, Types, Fields
  <2>8. e.fate = d.fate
    BY <2>4 DEF SameBut, Fields
  <2> QED BY <2>4, <2>7, <2>8 DEF Wrote, SameBut, WriteFields
<1> QED BY <1>1, <1>2

\* The write of several pages.
LEMMA WriteAllIs ==
    ASSUME NEW d, IsRec(d), Types(d), NEW pages \in Seq(PageSet),
           NEW e, e = WriteAll(d, pages)
    PROVE  Wrote(d, e)
<1>1. PICK n : n = Len(pages)
  OBVIOUS
<1>2. n \in Nat /\ \A i \in 1 .. n : pages[i] \in PageSet
  BY <1>1
<1>3. PICK S : S = { x \in Data : Wrote(d, x) }
  OBVIOUS
<1>4. \A x \in S : IsRec(x) /\ Types(x) /\ Wrote(d, x)
  BY <1>3, DataIs
<1>5. \A x : Wrote(d, x) => x \in S
  BY <1>3, DataIs DEF Wrote
<1>6. d \in S
  BY <1>5 DEF Wrote, SameBut
<1>7. PICK F : F = [x \in S \X (1 .. n) |-> Program(x[1], pages[x[2]])]
  OBVIOUS
<1>8. ASSUME NEW x \in S, NEW i \in 1 .. n PROVE Program(x, pages[i]) \in S
  <2>1. PICK y : y = Program(x, pages[i])
    OBVIOUS
  <2>2. Wrote(x, y)
    BY <1>2, <1>4, <2>1, ProgramIs
  <2>3. SameBut(d, y, WriteFields)
    BY <1>4, <2>2, SameTwice DEF Wrote
  <2>4. Wrote(d, y)
    BY <1>4, <2>2, <2>3 DEF Wrote
  <2> QED BY <1>5, <2>1, <2>4
<1>9. IsStep(F, S, n)
  BY <1>7, <1>8 DEF IsStep
<1>10. PICK f : Follows(f, F, S, n, d)
  BY <1>2, <1>6, <1>9, LoopExists
<1>11. \A i \in 1 .. n : f[i] = Program(f[i - 1], pages[i])
  <2> SUFFICES ASSUME NEW i \in 1 .. n PROVE f[i] = Program(f[i - 1], pages[i])
    OBVIOUS
  <2>1. i - 1 \in 0 .. n
    BY <1>2
  <2>2. f[i - 1] \in S /\ f[i] = F[<<f[i - 1], i>>]
    BY <1>10, <2>1 DEF Follows
  <2> QED BY <1>7, <2>2
<1> DEFINE G(after) == after = [i \in 0 .. n |->
                                   IF i = 0 THEN d ELSE Program(after[i - 1], pages[i])]
<1>12. G(f)
  <2>1. f = [i \in 0 .. n |-> f[i]] /\ f[0] = d
    BY <1>10 DEF Follows
  <2>2. ASSUME NEW i \in 0 .. n
        PROVE  f[i] = IF i = 0 THEN d ELSE Program(f[i - 1], pages[i])
    <3>1. CASE i = 0
      BY <2>1, <3>1
    <3>2. CASE i # 0
      <4>1. i \in 1 .. n
        BY <1>2, <3>2
      <4> QED BY <1>11, <3>2, <4>1
    <3> QED BY <3>1, <3>2
  <2> QED BY <2>1, <2>2
<1>13. PICK h : G(h) /\ e = h[n]
  <2>1. PICK h : h = CHOOSE after : G(after)
    OBVIOUS
  <2>2. G(h)
    <3> HIDE DEF G
    <3> QED BY <1>12, <2>1
  <2>3. e = h[n]
    BY <1>1, <2>1 DEF WriteAll
  <2> QED BY <2>2, <2>3
<1>14. h[0] \in S
  BY <1>2, <1>6, <1>13
<1>15. \A i \in 1 .. n : h[i - 1] \in S => h[i] = F[<<h[i - 1], i>>]
  <2> SUFFICES ASSUME NEW i \in 1 .. n, h[i - 1] \in S PROVE h[i] = F[<<h[i - 1], i>>]
    OBVIOUS
  <2>1. i \in 0 .. n /\ i # 0
    BY <1>2
  <2>2. h[i] = Program(h[i - 1], pages[i])
    BY <1>13, <2>1
  <2> QED BY <1>7, <2>2
<1>16. h[n] \in S
  <2>1. n \in 0 .. n
    BY <1>2
  <2> HIDE DEF G
  <2> QED BY <1>2, <1>9, <1>14, <1>15, <2>1, LoopStays
<1> QED BY <1>4, <1>13, <1>16

-----------------------------------------------------------------------------
(***************************************************************************)
(* A new page, for an entry of the write buffer or for GC.                 *)
(***************************************************************************)
\* The fields that opening a page changes.
OpenFields == {"next", "free", "owned", "of", "active", "page", "wp", "remain"}

\* A stream takes the next page, of another superblock if its own is full; no full
\* superblock in neither pool is touched.
LEMMA OpenIs ==
    ASSUME StreamsAssumption, NEW d, Sound(d), d.fate = "runs", NEW k \in AllStreams,
           NEW e, e = TakePage(get_stream_superblock(d, k), k)
    PROVE  /\ Sound(e)
           /\ e.fate = "runs" =>
                 /\ SameBut(d, e, OpenFields)
                 /\ e.remain[k] > 0 /\ e.page[k] \in PageSet /\ e.page[k][1] = e.active[k]
                 /\ e.page[k][2] < e.wp[e.active[k]]
                 /\ \A v \in Rest(d) : d.wp[v] = PagesPerSblk =>
                                          v \in Rest(e) /\ e.wp[v] = PagesPerSblk
                 /\ \A x \in Sblks : d.wp[x] <= e.wp[x]
<1>1. PICK c : c = get_stream_superblock(d, k)
  OBVIOUS
<1>2. IsRec(d) /\ Types(d) /\ Pool(d)
  BY DEF Sound
<1>3. /\ Sound(c)
      /\ c.fate = "runs" =>
            /\ SameBut(d, c, {"next", "free", "owned", "of", "active", "page", "remain"})
            /\ c.wp[c.active[k]] < PagesPerSblk
            /\ \A v \in Rest(d) : d.wp[v] = PagesPerSblk => v \in Rest(c)
  BY <1>1, <1>2, SwitchIs
<1>4. CASE c.fate # "runs"
  BY <1>1, <1>3, <1>4 DEF TakePage
<1>5. CASE c.fate = "runs"
  <2>1. IsRec(c) /\ Types(c) /\ Pool(c) /\ c.wp = d.wp
    BY <1>3, <1>5 DEF Sound, SameBut, Fields
  <2>2. /\ Sound(e) /\ e.fate = "runs"
        /\ SameBut(c, e, {"page", "wp", "remain"})
        /\ e.remain[k] > 0 /\ e.page[k][1] = c.active[k]
        /\ e.page[k][2] < e.wp[c.active[k]] /\ e.page[k] \in PageSet
        /\ Rest(e) = Rest(c) /\ \A v \in Rest(c) : e.wp[v] = c.wp[v]
        /\ \A x \in Sblks : c.wp[x] <= e.wp[x]
    BY <1>1, <1>3, <1>5, <2>1, TakeIs
  <2>3. e.active = c.active
    BY <2>2 DEF SameBut, Fields
  <2>4. SameBut(d, e, OpenFields)
    BY <1>3, <1>5, <2>2 DEF SameBut, OpenFields
  <2> QED BY <1>3, <1>5, <2>1, <2>2, <2>3, <2>4
<1> QED BY <1>4, <1>5

-----------------------------------------------------------------------------
(***************************************************************************)
(* GC.  The target v stays full and in neither pool while its grains move, *)
(* and nothing is put on it.                                               *)
(***************************************************************************)
Apart(d, v) ==
    /\ v \in Rest(d) /\ d.wp[v] = PagesPerSblk
    /\ \A g \in DOMAIN d.oob : g[1] # v
    /\ d.ppa[1] \in Sblks => d.ppa[1] # v /\ d.ppa[2] < d.wp[d.ppa[1]]

GcState(s, v) ==
    /\ s = [d |-> s.d, new |-> s.new] /\ s.new \in Seq(PageSet)
    /\ Sound(s.d) /\ (s.d.fate = "runs" => Apart(s.d, v))

\* gc_dp_alloc keeps the target apart.
LEMMA GcAllocIs ==
    ASSUME StreamsAssumption, NEW v, NEW s, GcState(s, v), NEW k \in AllStreams,
           NEW r, r = gc_dp_alloc(s, k)
    PROVE  GcState(r, v)
<1>1. CASE s.d.remain[k] > 0 \/ s.d.fate # "runs"
  BY <1>1 DEF gc_dp_alloc
<1>2. CASE ~(s.d.remain[k] > 0 \/ s.d.fate # "runs")
  <2>1. PICK d : d = s.d
    OBVIOUS
  <2>2. PICK t : t = TakePage(get_stream_superblock(d, k), k)
    OBVIOUS
  <2>3. r = Opened(s, t, k)
    BY <1>2, <2>1, <2>2 DEF gc_dp_alloc
  <2>4. Sound(d) /\ d.fate = "runs" /\ Apart(d, v)
    BY <1>2, <2>1 DEF GcState
  <2>5. /\ Sound(t)
        /\ t.fate = "runs" =>
              /\ SameBut(d, t, OpenFields)
              /\ t.remain[k] > 0 /\ t.page[k] \in PageSet /\ t.page[k][1] = t.active[k]
              /\ t.page[k][2] < t.wp[t.active[k]]
              /\ \A x \in Rest(d) : d.wp[x] = PagesPerSblk =>
                                       x \in Rest(t) /\ t.wp[x] = PagesPerSblk
              /\ \A x \in Sblks : d.wp[x] <= t.wp[x]
    BY <2>2, <2>4, OpenIs
  <2>6. CASE t.fate # "runs"
    <3>1. r = [s EXCEPT !.d = t]
      BY <2>3, <2>6 DEF Opened
    <3>2. r.d = t /\ r.new = s.new /\ r = [d |-> r.d, new |-> r.new]
      BY <3>1 DEF GcState
    <3> QED BY <2>5, <2>6, <3>2 DEF GcState
  <2>7. CASE t.fate = "runs"
    <3>1. PICK p : p = t.page[k]
      OBVIOUS
    <3>2. PICK e : e = [t EXCEPT !.ppa = p]
      OBVIOUS
    <3>3. r = [d |-> e, new |-> Append(s.new, p)]
      BY <2>3, <2>7, <3>1, <3>2 DEF Opened
    <3>4. IsRec(t) /\ Types(t) /\ Pool(t)
      BY <2>5, <2>7 DEF Sound
    <3>5. SameBut(t, e, {"ppa"}) /\ e.ppa = p
      BY <3>2, <3>4 DEF SameBut, IsRec, Fields
    <3>6. Types(e)
      BY <2>5, <2>7, <3>1, <3>4, <3>5 DEF SameBut, Types, Fields
    <3>7. Pool(e)
      <4>1. SameBut(t, e, OtherFields)
        BY <3>5 DEF SameBut, OtherFields
      <4> QED BY <3>4, <4>1, PoolStays
    <3>8. e.wp = t.wp /\ e.oob = t.oob /\ e.owned = t.owned /\ e.rsv = t.rsv
      BY <3>5 DEF SameBut, Fields
    <3>9. t.oob = d.oob
      BY <2>5, <2>7 DEF SameBut, Fields, OpenFields
    <3>10. v \in Rest(t) /\ t.wp[v] = PagesPerSblk
      BY <2>4, <2>5, <2>7 DEF Apart
    <3>11. v \in Rest(e) /\ e.wp[v] = PagesPerSblk
      BY <3>8, <3>10 DEF Rest
    <3>12. t.active[k] \in t.owned
      BY <3>4 DEF Pool
    <3>13. p[1] # v /\ p[2] < e.wp[p[1]]
      BY <2>5, <2>7, <3>1, <3>8, <3>10, <3>12 DEF Rest
    <3>14. Apart(e, v)
      BY <2>4, <3>5, <3>8, <3>9, <3>11, <3>13 DEF Apart
    <3>15. Sound(e)
      BY <3>5, <3>6, <3>7 DEF Sound, SameBut
    <3>16. Append(s.new, p) \in Seq(PageSet)
      BY <2>5, <2>7, <3>1, AppendProperties DEF GcState
    <3> QED BY <3>3, <3>14, <3>15, <3>16 DEF GcState
  <2> QED BY <2>6, <2>7
<1> QED BY <1>1, <1>2

\* One grain of the target is rewritten.
LEMMA MoveIs ==
    ASSUME StreamsAssumption, NEW v, NEW s, GcState(s, v), NEW k \in AllStreams,
           NEW l \in Lpas, NEW r, r = MoveOne(s, k, l)
    PROVE  GcState(r, v)
<1>1. CASE s.d.fate # "runs"
  BY <1>1 DEF MoveOne
<1>2. CASE s.d.fate = "runs"
  <2>1. PICK d : d = s.d
    OBVIOUS
  <2>2. PICK g : g = NextGrain(d, k, d.ppa)
    OBVIOUS
  <2>3. PICK c : c = PutGrain(d, k, g, l)
    OBVIOUS
  <2>4. PICK e : e = PlacedAt(c, g, l)
    OBVIOUS
  <2>5. r = [s EXCEPT !.d = e]
    BY <1>2, <2>1, <2>2, <2>3, <2>4 DEF MoveOne, GcState
  <2>6. IsRec(d) /\ Types(d) /\ Pool(d) /\ Apart(d, v)
    BY <1>2, <2>1 DEF GcState, Sound
  <2>7. g \in GrainSet /\ g[1] = d.ppa[1] /\ g[2] = d.ppa[2]
    BY <2>2, <2>6, NextIs DEF Types
  <2>8. g[1] \in Sblks => g[1] # v /\ g[2] < d.wp[g[1]]
    BY <2>6, <2>7 DEF Apart
  <2>9. /\ IsRec(c) /\ Types(c) /\ SameBut(d, c, {"remain", "oob", "unwritten", "fate"})
        /\ DOMAIN c.oob = DOMAIN d.oob \cup {g} /\ Pool(c)
    BY <2>3, <2>6, <2>7, <2>8, PutGrainIs
  <2>10. IsRec(e) /\ Types(e) /\ SameBut(c, e, {"table"})
    BY <2>4, <2>7, <2>9, PlacedIs
  <2>11. Pool(e)
    <3>1. SameBut(c, e, OtherFields)
      BY <2>10 DEF SameBut, OtherFields
    <3> QED BY <2>9, <3>1, PoolStays
  <2>12. /\ e.wp = d.wp /\ e.owned = d.owned /\ e.rsv = d.rsv /\ e.ppa = d.ppa
         /\ DOMAIN e.oob = DOMAIN d.oob \cup {g}
    BY <2>9, <2>10 DEF SameBut, Fields
  <2>13. v \in Rest(e) /\ e.wp[v] = PagesPerSblk
    BY <2>6, <2>12 DEF Apart, Rest
  <2>14. v \in Sblks
    BY <2>6 DEF Apart, Rest
  <2>15. Apart(e, v)
    BY <2>6, <2>8, <2>12, <2>13, <2>14 DEF Apart
  <2>16. r.d = e /\ r.new = s.new /\ r = [d |-> r.d, new |-> r.new]
    BY <2>5 DEF GcState
  <2> QED BY <2>10, <2>11, <2>15, <2>16 DEF GcState, Sound
<1> QED BY <1>1, <1>2

\* The turn of one grain of the target.
LEMMA RewriteIs ==
    ASSUME StreamsAssumption, NEW v, NEW s, GcState(s, v), NEW t \in AllStreams, NEW g,
           NEW oob \in Oobs
    PROVE  GcState(Rewrite(s, t, g, oob), v)
<1>1. CASE g \notin DOMAIN oob
  BY <1>1 DEF Rewrite
<1>2. CASE g \in DOMAIN oob
  <2>1. PICK l : l = oob[g]
    OBVIOUS
  <2>2. l \in Lpas
    BY <1>2, <2>1, OobIs
  <2>3. PICK r : r = gc_dp_alloc(s, t)
    OBVIOUS
  <2>4. GcState(r, v)
    BY <2>3, GcAllocIs
  <2>5. Rewrite(s, t, g, oob) = MoveOne(r, t, l)
    BY <1>2, <2>1, <2>3 DEF Rewrite
  <2> QED BY <2>2, <2>4, <2>5, MoveIs
<1> QED BY <1>1, <1>2

\* All grains of the target.
LEMMA RewrittenIs ==
    ASSUME StreamsAssumption, NEW v, NEW d, Sound(d), d.fate = "runs" => Apart(d, v),
           NEW t \in AllStreams, NEW oob \in Oobs, NEW r, r = Rewritten(d, t, v, oob)
    PROVE  GcState(r, v)
<1>1. PICK n : n = PagesPerSblk * GrainsPerPage
  OBVIOUS
<1>2. n \in Nat
  BY <1>1, Sizes
<1>3. PICK S : S = { x \in [d : Data, new : Seq(PageSet)] : GcState(x, v) }
  OBVIOUS
<1>4. \A x \in S : GcState(x, v)
  BY <1>3
<1>5. ASSUME NEW x, GcState(x, v) PROVE x \in S
  <2>1. x.d \in Data
    BY <1>5, DataIs DEF GcState, Sound
  <2> QED BY <1>3, <1>5, <2>1 DEF GcState
<1>6. PICK first : first = [d |-> d, new |-> <<>>]
  OBVIOUS
<1>7. first \in S
  <2>1. first.d = d /\ first.new = <<>> /\ <<>> \in Seq(PageSet)
    BY <1>6
  <2>2. GcState(first, v)
    BY <1>6, <2>1 DEF GcState
  <2> QED BY <1>5, <2>2
<1>8. PICK F : F = [x \in S \X (1 .. n) |-> Rewrite(x[1], t, GrainAt(v, x[2]), oob)]
  OBVIOUS
<1>9. ASSUME NEW x \in S, NEW i \in 1 .. n PROVE Rewrite(x, t, GrainAt(v, i), oob) \in S
  <2>1. GcState(x, v)
    BY <1>4
  <2>2. GcState(Rewrite(x, t, GrainAt(v, i), oob), v)
    BY <2>1, RewriteIs
  <2> QED BY <1>5, <2>2
<1>10. IsStep(F, S, n)
  BY <1>8, <1>9 DEF IsStep
<1>11. PICK f : Follows(f, F, S, n, first)
  BY <1>2, <1>7, <1>10, LoopExists
<1>12. \A i \in 1 .. n : f[i] = Rewrite(f[i - 1], t, GrainAt(v, i), oob)
  <2> SUFFICES ASSUME NEW i \in 1 .. n PROVE f[i] = Rewrite(f[i - 1], t, GrainAt(v, i), oob)
    OBVIOUS
  <2>1. i - 1 \in 0 .. n
    BY <1>2
  <2>2. f[i - 1] \in S /\ f[i] = F[<<f[i - 1], i>>]
    BY <1>11, <2>1 DEF Follows
  <2> QED BY <1>8, <2>2
<1> DEFINE G(after) == after = [i \in 0 .. n |-> IF i = 0 THEN first
                                               ELSE Rewrite(after[i - 1], t, GrainAt(v, i), oob)]
<1>13. G(f)
  <2>1. f = [i \in 0 .. n |-> f[i]] /\ f[0] = first
    BY <1>11 DEF Follows
  <2>2. ASSUME NEW i \in 0 .. n
        PROVE  f[i] = IF i = 0 THEN first ELSE Rewrite(f[i - 1], t, GrainAt(v, i), oob)
    <3>1. CASE i = 0
      BY <2>1, <3>1
    <3>2. CASE i # 0
      <4>1. i \in 1 .. n
        BY <1>2, <3>2
      <4> QED BY <1>12, <3>2, <4>1
    <3> QED BY <3>1, <3>2
  <2> QED BY <2>1, <2>2
<1>14. PICK h : G(h) /\ r = h[n]
  <2>1. PICK h : h = CHOOSE after : G(after)
    OBVIOUS
  <2>2. G(h)
    <3> HIDE DEF G
    <3> QED BY <1>13, <2>1
  <2>3. r = h[n]
    BY <1>1, <1>6, <2>1 DEF Rewritten
  <2> QED BY <2>2, <2>3
<1>15. h[0] \in S
  BY <1>2, <1>7, <1>14
<1>16. \A i \in 1 .. n : h[i - 1] \in S => h[i] = F[<<h[i - 1], i>>]
  <2> SUFFICES ASSUME NEW i \in 1 .. n, h[i - 1] \in S PROVE h[i] = F[<<h[i - 1], i>>]
    OBVIOUS
  <2>1. i \in 0 .. n /\ i # 0
    BY <1>2
  <2>2. h[i] = Rewrite(h[i - 1], t, GrainAt(v, i), oob)
    BY <1>14, <2>1
  <2> QED BY <1>8, <2>2
<1>17. h[n] \in S
  <2>1. n \in 0 .. n
    BY <1>2
  <2> HIDE DEF G
  <2> QED BY <1>2, <1>10, <1>15, <1>16, <2>1, LoopStays
<1> QED BY <1>4, <1>14, <1>17

\* Taking the grains out leaves the target without any.
LEMMA TakenOutIs ==
    ASSUME StreamsAssumption, NEW d, Sound(d), d.fate = "runs", NEW k, NEW t, NEW v \in Rest(d),
           d.wp[v] = PagesPerSblk, NEW e, e = TakenOut(d, k, t, v)
    PROVE  Sound(e) /\ Apart(e, v)
<1>0. IsRec(d) /\ Types(d) /\ Pool(d)
  BY DEF Sound
<1>1. PICK o : o = [g \in DOMAIN d.oob \ Moved(d, v) |-> d.oob[g]]
  OBVIOUS
<1>2. PICK un : un = d.unwritten \ Moved(d, v)
  OBVIOUS
<1>3. PICK ea \in BOOLEAN : ea = (d.early \/ InFlush(v))
  OBVIOUS
<1>4. PICK st \in BOOLEAN : st = (d.stray \/ /\ Moved(d, v) # {} /\ t # k
                                             /\ d.remain[t] > 0 \/ d.fl[t] # <<>>)
  OBVIOUS
<1>5. e = [d EXCEPT !.ppa = Page0, !.oob = o, !.unwritten = un, !.early = ea, !.stray = st]
  BY <1>0, <1>1, <1>2, <1>3, <1>4 DEF TakenOut, IsRec, Fields
<1>6. /\ SameBut(d, e, {"ppa", "oob", "unwritten", "early", "stray"})
      /\ e.ppa = Page0 /\ e.oob = o /\ e.unwritten = un /\ e.early = ea /\ e.stray = st
  BY <1>0, <1>5 DEF SameBut, IsRec, Fields
<1>7. DOMAIN o \subseteq DOMAIN d.oob /\ \A g \in DOMAIN o : g[1] # v
  BY <1>1 DEF Moved
<1>8. o \in Oobs
  <2>1. DOMAIN d.oob \subseteq GrainSet /\ \A g \in DOMAIN d.oob : d.oob[g] \in Lpas
    BY <1>0, OobIs DEF Types
  <2> QED BY <1>1, <2>1, OobIs
<1>9. Types(e)
  <2>1. Page0 \in PageSet
    BY DEF Page0, PageSet
  <2>2. un \in SUBSET GrainSet
    BY <1>0, <1>2 DEF Types
  <2> QED BY <1>0, <1>3, <1>4, <1>6, <1>8, <2>1, <2>2 DEF SameBut, Types, Fields
<1>10. /\ e.wp = d.wp /\ e.free = d.free /\ e.owned = d.owned /\ e.rsv = d.rsv
       /\ e.nrRsv = d.nrRsv /\ e.of = d.of /\ e.active = d.active /\ e.page = d.page
       /\ e.remain = d.remain
  BY <1>6 DEF SameBut, Fields
<1>11. Rest(e) = Rest(d)
  BY <1>10 DEF Rest
<1>12. Pool(e)
  <2>1. Erased(e) = Erased(d)
    BY <1>10, <1>11 DEF Erased
  <2>2. HandedOut(e)
    BY <1>0, <1>6, <1>7, <1>10 DEF Pool, HandedOut
  <2>3. \A i \in Rest(e) : e.wp[i] \in {0, PagesPerSblk} /\ (e.wp[i] > 0 => e.of[i] \in AllStreams)
    BY <1>0, <1>10, <1>11 DEF Pool
  <2> QED BY <1>0, <1>10, <2>1, <2>2, <2>3 DEF Pool
<1>13. Apart(e, v)
  <2>1. e.ppa[1] \notin Sblks
    BY <1>6, Sizes DEF Page0
  <2> QED BY <1>6, <1>7, <1>10, <1>11, <2>1 DEF Apart
<1> QED BY <1>6, <1>9, <1>12, <1>13 DEF Sound, SameBut

\* The trim: with the reserve complete, one more superblock is free.
LEMMA TrimmedIs ==
    ASSUME StreamsAssumption, NEW d, IsRec(d), Types(d), d.fate = "runs" => Pool(d),
           NEW v \in Sblks,
           d.fate = "runs" => /\ v \in Rest(d) /\ d.wp[v] = PagesPerSblk
                              /\ \A g \in DOMAIN d.oob : g[1] # v,
           NEW e, e = Trimmed(d, v)
    PROVE  Sound(e)
<1>1. PICK wp : wp = [d.wp EXCEPT ![v] = 0]
  OBVIOUS
<1>2. PICK dv : dv = [d.dev EXCEPT ![v] = 0]
  OBVIOUS
<1>3. PICK of : of = [d.of EXCEPT ![v] = -1]
  OBVIOUS
<1>4. PICK rs : rs = IF d.nrRsv < NrStreams THEN d.rsv \cup {v} ELSE d.rsv
  OBVIOUS
<1>5. PICK nr : nr = IF d.nrRsv < NrStreams THEN d.nrRsv + 1 ELSE d.nrRsv
  OBVIOUS
<1>6. PICK fr : fr = IF d.nrRsv < NrStreams THEN d.free ELSE d.free + 1
  OBVIOUS
<1>7. e = [d EXCEPT !.wp = wp, !.dev = dv, !.of = of, !.rsv = rs, !.nrRsv = nr, !.free = fr]
  BY <1>1, <1>2, <1>3, <1>4, <1>5, <1>6 DEF Trimmed, IsRec, Fields
<1>8. /\ SameBut(d, e, {"wp", "dev", "of", "rsv", "nrRsv", "free"})
      /\ e.wp = wp /\ e.dev = dv /\ e.of = of /\ e.rsv = rs /\ e.nrRsv = nr /\ e.free = fr
  BY <1>7 DEF SameBut, IsRec, Fields
<1>9. Types(e)
  <2>0. /\ d.wp \in [Sblks -> 0 .. PagesPerSblk] /\ d.dev \in [Sblks -> Int]
        /\ d.of \in [Sblks -> AllStreams \cup {-1}]
    BY DEF Types
  <2>1. wp \in [Sblks -> 0 .. PagesPerSblk]
    <3>1. 0 \in 0 .. PagesPerSblk
      BY Sizes
    <3> QED BY <1>1, <2>0, <3>1, UpdateIs
  <2>2. dv \in [Sblks -> Int]
    <3>1. 0 \in Int
      OBVIOUS
    <3> QED BY <1>2, <2>0, <3>1, UpdateIs
  <2>3. of \in [Sblks -> AllStreams \cup {-1}]
    BY <1>3, <2>0, UpdateIs
  <2>4. rs \in SUBSET Sblks
    BY <1>4 DEF Types
  <2>5. nr \in Int /\ fr \in Int
    BY <1>5, <1>6 DEF Types
  <2> QED BY <1>8, <2>1, <2>2, <2>3, <2>4, <2>5 DEF SameBut, Types, Fields
<1>10. ASSUME d.fate = "runs" PROVE Pool(e)
  <2>1. Pool(d) /\ v \in Rest(d) /\ d.wp[v] = PagesPerSblk /\ \A g \in DOMAIN d.oob : g[1] # v
    BY <1>10
  <2>2. d.nrRsv = NrStreams
    BY <2>1 DEF Pool
  <2>3. e.rsv = d.rsv /\ e.nrRsv = d.nrRsv /\ e.free = d.free + 1
    BY <1>4, <1>5, <1>6, <1>8, <2>2, Sizes
  <2>4. /\ e.owned = d.owned /\ e.active = d.active /\ e.page = d.page
        /\ e.remain = d.remain /\ e.oob = d.oob
    BY <1>8 DEF SameBut, Fields
  <2>5. Rest(e) = Rest(d) /\ v \notin d.owned
    BY <2>1, <2>3, <2>4 DEF Rest
  <2>6. \A x \in Sblks : x # v => e.wp[x] = d.wp[x] /\ e.of[x] = d.of[x]
    BY <1>1, <1>3, <1>8 DEF Types
  <2>7. e.wp[v] = 0
    BY <1>1, <1>8 DEF Types
  <2>8. \A k \in AllStreams : /\ d.active[k] \in d.owned /\ d.of[d.active[k]] = k
                              /\ d.active[k] \in Sblks /\ d.active[k] # v
    BY <2>1, <2>5 DEF Pool, Types
  <2>9. \A k \in AllStreams : e.active[k] \in e.owned /\ e.of[e.active[k]] = k
    BY <2>4, <2>6, <2>8
  <2>10. \A i \in Rest(e) : e.wp[i] \in {0, PagesPerSblk} /\ (e.wp[i] > 0 => e.of[i] \in AllStreams)
    <3> SUFFICES ASSUME NEW i \in Rest(e)
                 PROVE  e.wp[i] \in {0, PagesPerSblk} /\ (e.wp[i] > 0 => e.of[i] \in AllStreams)
      OBVIOUS
    <3>1. i \in Sblks /\ i \in Rest(d)
      BY <2>5 DEF Rest
    <3>2. CASE i = v
      BY <2>7, <3>2
    <3>3. CASE i # v
      BY <2>1, <2>6, <3>1, <3>3 DEF Pool
    <3> QED BY <3>2, <3>3
  <2>11. e.free = Cardinality(Erased(e))
    <3>1. PICK E : E = Erased(d)
      OBVIOUS
    <3>2. IsFiniteSet(E) /\ v \notin E /\ Cardinality(E) = d.free
      <4>1. Erased(d) \subseteq Sblks
        BY DEF Rest, Erased
      <4>2. IsFiniteSet(Erased(d))
        BY <4>1, Sizes, FS_Subset
      <4>3. v \notin Erased(d)
        BY <2>1, Sizes DEF Erased
      <4> QED BY <2>1, <3>1, <4>2, <4>3 DEF Pool
    <3>3. Erased(e) = E \cup {v}
      <4>1. Rest(d) \subseteq Sblks
        BY DEF Rest
      <4> QED BY <2>1, <2>5, <2>6, <2>7, <3>1, <4>1 DEF Erased
    <3>4. Cardinality(E \cup {v}) = Cardinality(E) + 1
      BY <3>2, FS_AddElement
    <3> QED BY <2>3, <3>2, <3>3, <3>4
  <2>12. HandedOut(e)
    BY <2>1, <2>4, <2>6 DEF HandedOut, Pool
  <2>13. \A k \in AllStreams : e.remain[k] > 0 => /\ e.page[k][1] = e.active[k]
                                                 /\ e.page[k][2] < e.wp[e.active[k]]
    <3> SUFFICES ASSUME NEW k \in AllStreams, e.remain[k] > 0
                 PROVE  e.page[k][1] = e.active[k] /\ e.page[k][2] < e.wp[e.active[k]]
      OBVIOUS
    <3>1. d.page[k][1] = d.active[k] /\ d.page[k][2] < d.wp[d.active[k]]
      BY <2>1, <2>4 DEF Pool
    <3> QED BY <2>4, <2>6, <2>8, <3>1
  <2> QED BY <2>1, <2>3, <2>4, <2>9, <2>10, <2>11, <2>12, <2>13 DEF Pool
<1>11. e.fate = d.fate
  BY <1>8 DEF SameBut, Fields
<1> QED BY <1>8, <1>9, <1>10, <1>11 DEF Sound, SameBut

\* GC of a full superblock in neither pool.
LEMMA CollectIs ==
    ASSUME StreamsAssumption, NEW d, Sound(d), d.fate = "runs", NEW k \in AllStreams,
           NEW v \in Full(d), NEW e, e = Collect(d, k, v)
    PROVE  Sound(e)
<1>0. IsRec(d) /\ Types(d) /\ Pool(d)
  BY DEF Sound
<1>1. v \in Sblks /\ v \in Rest(d) /\ d.wp[v] = PagesPerSblk
  <2>1. v \in Sblks /\ v \in Rest(d) /\ d.wp[v] >= PagesPerSblk
    BY DEF Full, Rest, check_full
  <2>2. d.wp[v] \in 0 .. PagesPerSblk
    BY <1>0, <2>1 DEF Types
  <2> QED BY <2>1, <2>2, Sizes
<1>2. PICK t : t = d.of[v]
  OBVIOUS
<1>3. t \in AllStreams
  BY <1>0, <1>1, <1>2, Sizes DEF Pool
<1>4. PICK o : o = TakenOut(d, k, t, v)
  OBVIOUS
<1>5. Sound(o) /\ Apart(o, v)
  BY <1>1, <1>4, TakenOutIs
<1>6. PICK s : s = Rewritten(o, t, v, d.oob)
  OBVIOUS
<1>7. GcState(s, v)
  <2>1. d.oob \in Oobs
    BY <1>0 DEF Types
  <2> QED BY <1>3, <1>5, <1>6, <2>1, RewrittenIs
<1>8. PICK w : w = WriteAll(s.d, s.new)
  OBVIOUS
<1>9. Wrote(s.d, w)
  BY <1>7, <1>8, WriteAllIs DEF GcState, Sound
<1>10. e = Trimmed(w, v)
  BY <1>2, <1>4, <1>6, <1>8 DEF Collect, WrittenOut
<1>11. IsRec(w) /\ Types(w)
  BY <1>9 DEF Wrote
<1>12. ASSUME w.fate = "runs"
       PROVE  /\ Pool(w) /\ v \in Rest(w) /\ w.wp[v] = PagesPerSblk
              /\ \A g \in DOMAIN w.oob : g[1] # v
  <2>1. s.d.fate = "runs" /\ SameBut(s.d, w, WriteFields)
    BY <1>9, <1>12 DEF Wrote
  <2>2. Pool(s.d) /\ Apart(s.d, v)
    BY <1>7, <2>1 DEF GcState, Sound
  <2>3. SameBut(s.d, w, OtherFields)
    BY <2>1 DEF SameBut, OtherFields, WriteFields
  <2>4. Pool(w)
    BY <2>2, <2>3, PoolStays
  <2>5. w.wp = s.d.wp /\ w.oob = s.d.oob /\ w.owned = s.d.owned /\ w.rsv = s.d.rsv
    BY <2>1 DEF SameBut, Fields, WriteFields
  <2> QED BY <2>2, <2>4, <2>5 DEF Apart, Rest
<1> QED BY <1>1, <1>10, <1>11, <1>12, TrimmedIs

\* GC of one of the superblocks get_gc_target chose from.
LEMMA CollectFromIs ==
    ASSUME StreamsAssumption, NEW d, Sound(d), d.fate = "runs", NEW k \in AllStreams,
           NEW e, e = dpage_gc_dvalue(d, k)
    PROVE  Sound(e)
<1>0. IsRec(d) /\ Types(d)
  BY DEF Sound
<1>1. PICK targets : targets = GcTargets(d, k)
  OBVIOUS
<1>2. e = CollectFrom(d, k, targets)
  BY <1>1 DEF dpage_gc_dvalue
<1>3. targets \subseteq Full(d)
  BY <1>1 DEF GcTargets, FewestValid, Candidates
<1>4. CASE targets = {}
  <2>1. e = [d EXCEPT !.fate = "full"]
    BY <1>2, <1>4 DEF CollectFrom
  <2>2. SameBut(d, e, {"fate"}) /\ e.fate = "full"
    BY <1>0, <2>1 DEF SameBut, IsRec, Fields
  <2>3. Types(e)
    BY <1>0, <2>2 DEF SameBut, Types, Fields, Fates
  <2> QED BY <2>2, <2>3 DEF Sound, SameBut
<1>5. CASE targets # {}
  <2>1. targets \in SUBSET Nat
    BY <1>3, Sizes DEF Full
  <2>2. PICK v \in targets : v = Min(targets)
    BY <1>5, <2>1, MinIsIn
  <2>3. v \in Full(d)
    BY <1>3
  <2>4. e = Collect(d, k, v)
    BY <1>2, <1>5, <2>2 DEF CollectFrom
  <2> QED BY <2>3, <2>4, CollectIs
<1> QED BY <1>4, <1>5

\* dp_alloc: GC if it is due, and a page of the stream.
LEMMA AllocIs ==
    ASSUME StreamsAssumption, NEW d, Sound(d), d.fate = "runs", NEW k \in AllStreams,
           NEW e, e = dp_alloc(d, k)
    PROVE  /\ Sound(e)
           /\ e.fate = "runs" =>
                 /\ e.remain[k] > 0 /\ e.page[k] \in PageSet /\ e.page[k][1] = e.active[k]
                 /\ e.page[k][2] < e.wp[e.active[k]]
<1>1. PICK c : c = BeforeAlloc(d, k)
  OBVIOUS
<1>2. Sound(c)
  BY <1>1, CollectFromIs DEF BeforeAlloc
<1>3. e = OnStream(c, k)
  BY <1>1 DEF dp_alloc
<1>4. CASE c.fate = "runs"
  BY <1>2, <1>3, <1>4, OpenIs DEF OnStream
<1>5. CASE c.fate # "runs"
  BY <1>2, <1>3, <1>5 DEF OnStream
<1> QED BY <1>4, <1>5

-----------------------------------------------------------------------------
(***************************************************************************)
(* dftl_bm_init: n superblocks reserved, m owned, all of them erased.      *)
(***************************************************************************)
Stage(d, n, m) ==
    /\ IsRec(d) /\ Types(d) /\ d.fate = "runs" /\ \A i \in Sblks : d.wp[i] = 0
    /\ d.owned \cap d.rsv = {} /\ Cardinality(d.rsv) = n /\ d.nrRsv = n
    /\ Cardinality(d.owned) = m /\ d.free = Cardinality(Sblks) - n - m
    /\ DOMAIN d.oob = {} /\ \A k \in AllStreams : d.remain[k] = 0
    /\ \A k \in 0 .. m - 1 : d.active[k] \in d.owned /\ d.of[d.active[k]] = k

\* What is in neither pool, counted.
LEMMA StageRest ==
    ASSUME StreamsAssumption, NEW n \in Nat, NEW m \in Nat, NEW d, Stage(d, n, m)
    PROVE  /\ IsFiniteSet(d.owned) /\ IsFiniteSet(d.rsv) /\ IsFiniteSet(Rest(d))
           /\ Cardinality(Rest(d)) = Cardinality(Sblks) - n - m
<1>1. PICK o, r : o = d.owned /\ r = d.rsv
  OBVIOUS
<1>2. o \subseteq Sblks /\ r \subseteq Sblks /\ o \cap r = {} /\ Cardinality(r) = n
      /\ Cardinality(o) = m
  BY <1>1 DEF Stage, Types
<1>3. IsFiniteSet(o) /\ IsFiniteSet(r)
  BY <1>2, Sizes, FS_Subset
<1>4. IsFiniteSet(o \cup r)
      /\ Cardinality(o \cup r) = Cardinality(o) + Cardinality(r) - Cardinality(o \cap r)
  BY <1>3, FS_Union
<1>5. Cardinality(o \cup r) = n + m
  BY <1>2, <1>4, FS_EmptySet
<1>6. IsFiniteSet(Sblks \ (o \cup r))
      /\ Cardinality(Sblks \ (o \cup r)) = Cardinality(Sblks) - Cardinality(Sblks \cap (o \cup r))
  BY <1>4, Sizes, FS_Difference
<1>7. Sblks \cap (o \cup r) = o \cup r
  BY <1>2
<1>8. Cardinality(Sblks) \in Nat
  BY Sizes, FS_CardinalityType
<1>9. Cardinality(Sblks \ (o \cup r)) = Cardinality(Sblks) - n - m
  BY <1>5, <1>6, <1>7, <1>8
<1> QED BY <1>1, <1>3, <1>6, <1>9 DEF Rest

\* While they are set up, a search finds an erased superblock.
LEMMA StageSearch ==
    ASSUME StreamsAssumption, NEW n \in Nat, NEW m \in Nat, n + m < 2 * NrStreams,
           NEW d, Stage(d, n, m), NEW f, f = get_active_superblock(d)
    PROVE  /\ IsRec(f) /\ Types(f)
           /\ \E i \in Rest(d) : /\ f.next = i /\ f.free = d.free - 1
                                 /\ SameBut(d, f, {"next", "free"})
<1>1. PICK u : u = Unused(d)
  OBVIOUS
<1>2. u = Rest(d) /\ u \subseteq Sblks
  BY <1>1, Sizes DEF Unused, Rest, check_full, Stage
<1>3. IsFiniteSet(u) /\ Cardinality(u) \in Nat /\ Cardinality(u) >= 3
  <2>1. Cardinality(Sblks) \in Nat /\ Cardinality(Sblks) >= 2 * NrStreams + 2
    BY Sizes, FS_CardinalityType
  <2>2. IsFiniteSet(Rest(d)) /\ Cardinality(Rest(d)) = Cardinality(Sblks) - n - m
    BY StageRest
  <2> QED BY <1>2, <2>1, <2>2, Sizes
<1>4. PICK st : st = SearchStart(d)
  OBVIOUS
<1>5. PICK c : c = AfterElseBefore(st, u)
  OBVIOUS
<1>6. c \subseteq u /\ c # {}
  <2>1. u \ {st} # {}
    <3>1. ASSUME u \ {st} = {} PROVE FALSE
      <4>1. u \subseteq {st}
        BY <3>1
      <4>2. Cardinality({st}) = 1 /\ IsFiniteSet({st})
        BY FS_Singleton
      <4>3. Cardinality(u) <= 1
        BY <4>1, <4>2, FS_Subset
      <4> QED BY <1>3, <4>3
    <3> QED BY <3>1
  <2> QED BY <1>5, <2>1 DEF AfterElseBefore
<1>7. f = Found(d, c)
  BY <1>1, <1>4, <1>5 DEF get_active_superblock
<1>8. IsRec(d) /\ Types(d) /\ \A i \in Sblks : d.wp[i] = 0
  BY DEF Stage
<1>9. c \in SUBSET Sblks
  BY <1>2, <1>6
<1>10. /\ IsRec(f) /\ Types(f)
       /\ \E i \in c : /\ f.next = i /\ f.free = IF d.wp[i] = 0 THEN d.free - 1 ELSE d.free
                       /\ SameBut(d, f, {"next", "free"})
  BY <1>6, <1>7, <1>8, <1>9, FoundIs
<1> QED BY <1>2, <1>6, <1>8, <1>10

\* One more superblock for the reserve.
LEMMA ReservedIs ==
    ASSUME StreamsAssumption, NEW n \in Nat, n < NrStreams, NEW d, Stage(d, n, 0),
           NEW e, e = Reserved(get_active_superblock(d))
    PROVE  Stage(e, n + 1, 0)
<1>1. PICK f : f = get_active_superblock(d)
  OBVIOUS
<1>2. n + 0 < 2 * NrStreams
  BY Sizes
<1>3. IsRec(f) /\ Types(f)
  BY <1>1, <1>2, StageSearch
<1>4. PICK i \in Rest(d) : /\ f.next = i /\ f.free = d.free - 1
                           /\ SameBut(d, f, {"next", "free"})
  BY <1>1, <1>2, StageSearch
<1>5. e = [f EXCEPT !.rsv = f.rsv \cup {i}, !.nrRsv = f.nrRsv + 1]
  BY <1>1, <1>3, <1>4 DEF Reserved, IsRec, Fields
<1>6. SameBut(f, e, {"rsv", "nrRsv"}) /\ e.rsv = f.rsv \cup {i} /\ e.nrRsv = f.nrRsv + 1
  BY <1>3, <1>5 DEF SameBut, IsRec, Fields
<1>7. i \in Sblks /\ i \notin d.owned /\ i \notin d.rsv
  BY DEF Rest
<1>8. /\ e.wp = d.wp /\ e.free = d.free - 1 /\ e.owned = d.owned /\ e.rsv = d.rsv \cup {i}
      /\ e.nrRsv = d.nrRsv + 1 /\ e.fate = d.fate /\ e.oob = d.oob /\ e.remain = d.remain
  BY <1>4, <1>6 DEF SameBut, Fields
<1>9. Types(e)
  <2>1. e.rsv \in SUBSET Sblks /\ e.nrRsv \in Int
    BY <1>3, <1>6, <1>7 DEF Types
  <2> QED BY <1>3, <1>6, <2>1 DEF SameBut, Types, Fields
<1>10. Cardinality(d.rsv \cup {i}) = n + 1
  <2>1. PICK r : r = d.rsv
    OBVIOUS
  <2>2. IsFiniteSet(r) /\ Cardinality(r) = n /\ i \notin r
    BY <1>7, <2>1, StageRest DEF Stage
  <2> QED BY <2>1, <2>2, FS_AddElement
<1>11. e.free = Cardinality(Sblks) - (n + 1) - 0
  <2>1. d.free = Cardinality(Sblks) - n - 0 /\ Cardinality(Sblks) \in Nat
    BY Sizes, FS_CardinalityType DEF Stage
  <2> QED BY <1>8, <2>1
<1>12. e.owned \cap e.rsv = {}
  BY <1>7, <1>8 DEF Stage
<1>13. e.owned = d.owned /\ Cardinality(e.owned) = 0
  BY <1>8 DEF Stage
<1>14. e.fate = "runs" /\ DOMAIN e.oob = {} /\ \A x \in Sblks : e.wp[x] = 0
  BY <1>8 DEF Stage
<1>15. \A k \in AllStreams : e.remain[k] = 0
  BY <1>8 DEF Stage
<1>16. Cardinality(e.rsv) = n + 1 /\ e.nrRsv = n + 1
  BY <1>8, <1>10 DEF Stage
<1>17. IsRec(e)
  BY <1>6 DEF SameBut
<1>18. \A k \in 0 .. 0 - 1 : e.active[k] \in e.owned /\ e.of[e.active[k]] = k
  OBVIOUS
<1> QED BY <1>9, <1>11, <1>12, <1>13, <1>14, <1>15, <1>16, <1>17, <1>18 DEF Stage

\* An active superblock for one more stream.
LEMMA OwnedIs ==
    ASSUME StreamsAssumption, NEW m \in Nat, m < NrStreams, NEW d, Stage(d, NrStreams, m),
           NEW e, e = Own(get_active_superblock(d), m)
    PROVE  Stage(e, NrStreams, m + 1)
<1>0. NrStreams \in Nat /\ m \in AllStreams
  BY Sizes DEF AllStreams
<1>1. PICK f : f = get_active_superblock(d)
  OBVIOUS
<1>2. NrStreams + m < 2 * NrStreams
  BY <1>0
<1>3. IsRec(f) /\ Types(f)
  BY <1>0, <1>1, <1>2, StageSearch
<1>4. PICK i \in Rest(d) : /\ f.next = i /\ f.free = d.free - 1
                           /\ SameBut(d, f, {"next", "free"})
  BY <1>0, <1>1, <1>2, StageSearch
<1>5. f.fate = "runs" /\ f.wp = d.wp
  BY <1>4 DEF SameBut, Fields, Stage
<1>6. i \in Sblks /\ i \notin d.owned /\ i \notin d.rsv
  BY DEF Rest
<1>7. f.wp[i] = 0
  BY <1>5, <1>6 DEF Stage
<1>8. e = [f EXCEPT !.owned = @ \cup {i}, !.of[i] = m, !.active[m] = i,
                    !.page[m] = <<i, 0>>, !.remain[m] = 0]
  <2>1. e = [f EXCEPT !.owned = @ \cup {i}, !.of[i] = m, !.active[m] = i,
                      !.page[m] = <<i, f.wp[i]>>, !.remain[m] = 0]
    BY <1>1, <1>4, <1>5 DEF Own
  <2> QED BY <1>7, <2>1
<1>9. /\ SameBut(f, e, {"owned", "of", "active", "page", "remain"})
      /\ e.owned = f.owned \cup {i} /\ e.of = [f.of EXCEPT ![i] = m]
      /\ e.active = [f.active EXCEPT ![m] = i] /\ e.page = [f.page EXCEPT ![m] = <<i, 0>>]
      /\ e.remain = [f.remain EXCEPT ![m] = 0]
  BY <1>3, <1>8 DEF SameBut, IsRec, Fields
<1>10. Types(e)
  <2>1. e.owned \in SUBSET Sblks
    <3>1. f.owned \in SUBSET Sblks
      BY <1>3 DEF Types
    <3>2. e.owned = f.owned \cup {i}
      BY <1>9
    <3> QED BY <1>6, <3>1, <3>2
  <2>2. e.of \in [Sblks -> AllStreams \cup {-1}]
    <3>1. f.of \in [Sblks -> AllStreams \cup {-1}]
      BY <1>3 DEF Types
    <3>2. m \in AllStreams \cup {-1}
      BY <1>0
    <3> QED BY <1>9, <3>1, <3>2, UpdateIs
  <2>3. e.active \in [AllStreams -> Sblks \cup {NoSblk}]
    <3>1. f.active \in [AllStreams -> Sblks \cup {NoSblk}]
      BY <1>3 DEF Types
    <3>2. i \in Sblks \cup {NoSblk}
      BY <1>6
    <3> QED BY <1>9, <3>1, <3>2, UpdateIs
  <2>4. e.page \in [AllStreams -> PageSet]
    <3>1. f.page \in [AllStreams -> PageSet]
      BY <1>3 DEF Types
    <3>2. <<i, 0>> \in PageSet
      BY <1>6, Sizes DEF PageSet
    <3> QED BY <1>9, <3>1, <3>2, UpdateIs
  <2>5. e.remain \in [AllStreams -> Int]
    <3>1. f.remain \in [AllStreams -> Int] /\ 0 \in Int
      BY <1>3 DEF Types
    <3> QED BY <1>9, <3>1, UpdateIs
  <2> QED BY <1>3, <1>9, <2>1, <2>2, <2>3, <2>4, <2>5 DEF SameBut, Types, Fields
<1>11. /\ e.wp = d.wp /\ e.free = d.free - 1 /\ e.owned = d.owned \cup {i} /\ e.rsv = d.rsv
       /\ e.nrRsv = d.nrRsv /\ e.fate = d.fate /\ e.oob = d.oob
       /\ f.of = d.of /\ f.active = d.active /\ f.remain = d.remain
  BY <1>4, <1>9 DEF SameBut, Fields
<1>12. Cardinality(d.owned \cup {i}) = m + 1
  <2>1. PICK o : o = d.owned
    OBVIOUS
  <2>2. IsFiniteSet(o) /\ Cardinality(o) = m /\ i \notin o
    BY <1>0, <1>6, <2>1, StageRest DEF Stage
  <2> QED BY <2>1, <2>2, FS_AddElement
<1>13. e.free = Cardinality(Sblks) - NrStreams - (m + 1)
  <2>1. d.free = Cardinality(Sblks) - NrStreams - m /\ Cardinality(Sblks) \in Nat
    BY Sizes, FS_CardinalityType DEF Stage
  <2> QED BY <1>0, <1>11, <2>1
<1>14. e.owned \cap e.rsv = {}
  BY <1>6, <1>11 DEF Stage
<1>15. \A k \in AllStreams : e.remain[k] = 0
  BY <1>3, <1>9, <1>11 DEF Types, Stage
<1>16. \A k \in 0 .. (m + 1) - 1 : e.active[k] \in e.owned /\ e.of[e.active[k]] = k
  <2> SUFFICES ASSUME NEW k \in 0 .. m PROVE e.active[k] \in e.owned /\ e.of[e.active[k]] = k
    BY <1>0
  <2>0. k \in AllStreams
    BY <1>0 DEF AllStreams
  <2>1. CASE k = m
    <3>1. e.active[k] = i /\ e.of[i] = m
      BY <1>0, <1>3, <1>6, <1>9, <2>1 DEF Types
    <3> QED BY <1>11, <2>1, <3>1
  <2>2. CASE k # m
    <3>1. k \in 0 .. m - 1
      BY <1>0, <2>2
    <3>2. d.active[k] \in d.owned /\ d.of[d.active[k]] = k
      BY <3>1 DEF Stage
    <3>3. d.active[k] \in Sblks /\ d.active[k] # i
      BY <1>6, <3>2 DEF Stage, Types
    <3>4. e.active[k] = d.active[k]
      BY <1>3, <1>9, <1>11, <2>0, <2>2 DEF Types
    <3>5. e.of[d.active[k]] = d.of[d.active[k]]
      BY <1>3, <1>9, <1>11, <3>3 DEF Types
    <3> QED BY <1>11, <3>2, <3>4, <3>5
  <2> QED BY <2>1, <2>2
<1>17. Cardinality(e.rsv) = NrStreams /\ e.nrRsv = NrStreams /\ Cardinality(e.owned) = m + 1
  BY <1>11, <1>12 DEF Stage
<1>18. e.fate = "runs" /\ DOMAIN e.oob = {} /\ \A x \in Sblks : e.wp[x] = 0
  BY <1>11 DEF Stage
<1>19. IsRec(e)
  BY <1>9 DEF SameBut
<1> QED BY <1>10, <1>13, <1>14, <1>15, <1>16, <1>17, <1>18, <1>19 DEF Stage

\* Where dftl_bm_init is after i turns.
At(d, i) == Stage(d, IF i <= NrStreams THEN i ELSE NrStreams,
                  IF i <= NrStreams THEN 0 ELSE i - NrStreams)

\* One turn of it.
InitTurn(d, i) == IF i <= NrStreams THEN Reserved(get_active_superblock(d))
                  ELSE Own(get_active_superblock(d), i - NrStreams - 1)

LEMMA InitTurnIs ==
    ASSUME StreamsAssumption, NEW i \in 1 .. 2 * NrStreams, NEW d, At(d, i - 1)
    PROVE  At(InitTurn(d, i), i)
<1>0. NrStreams \in Nat /\ i \in Nat /\ i > 0 /\ i <= 2 * NrStreams
  BY Sizes
<1>1. PICK e : e = InitTurn(d, i)
  OBVIOUS
<1>2. CASE i <= NrStreams
  <2>1. PICK n \in Nat : n = i - 1
    BY <1>0
  <2>2. n < NrStreams /\ Stage(d, n, 0)
    BY <1>0, <1>2, <2>1 DEF At
  <2>3. e = Reserved(get_active_superblock(d))
    BY <1>1, <1>2 DEF InitTurn
  <2>4. Stage(e, n + 1, 0)
    BY <2>2, <2>3, ReservedIs
  <2> QED BY <1>0, <1>1, <1>2, <2>1, <2>4 DEF At
<1>3. CASE ~(i <= NrStreams)
  <2>1. PICK m \in Nat : m = i - NrStreams - 1
    BY <1>0, <1>3
  <2>2. m < NrStreams /\ m + 1 = i - NrStreams
    BY <1>0, <2>1
  <2>3. Stage(d, NrStreams, m)
    <3>1. CASE i - 1 <= NrStreams
      <4>1. i - 1 = NrStreams /\ m = 0
        BY <1>0, <1>3, <2>1, <3>1
      <4> QED BY <3>1, <4>1 DEF At
    <3>2. CASE ~(i - 1 <= NrStreams)
      <4>1. (i - 1) - NrStreams = m
        BY <1>0, <2>1
      <4> QED BY <3>2, <4>1 DEF At
    <3> QED BY <3>1, <3>2
  <2>4. e = Own(get_active_superblock(d), m)
    BY <1>1, <1>3, <2>1 DEF InitTurn
  <2>5. Stage(e, NrStreams, m + 1)
    BY <2>2, <2>3, <2>4, OwnedIs
  <2> QED BY <1>1, <1>3, <2>2, <2>5 DEF At
<1> QED BY <1>2, <1>3

\* Before any turn.
LEMMA BlankIs == ASSUME StreamsAssumption PROVE At(blank, 0)
<1>0. NrStreams \in Nat
  BY Sizes
<1>1. IsRec(blank)
  BY DEF blank, IsRec, Fields
<1>2. Types(blank)
  <2>1. NoGrain \in GrainSet /\ Page0 \in PageSet
    BY DEF NoGrain, GrainSet, Page0, PageSet, NoSblk
  <2>2. <<>> \in Oobs
    <3>1. <<>> = [g \in {} |-> g] /\ DOMAIN <<>> = {}
      OBVIOUS
    <3> QED BY <3>1, OobIs
  <2>3. <<>> \in Seq(PageSet)
    OBVIOUS
  <2>4. ESblk - SSblk + 1 \in Int /\ 0 \in 0 .. PagesPerSblk
    BY Sizes
  <2> QED BY <2>1, <2>2, <2>3, <2>4 DEF blank, Types, Fates
<1>3. Stage(blank, 0, 0)
  <2>1. /\ blank.fate = "runs" /\ \A i \in Sblks : blank.wp[i] = 0
        /\ blank.owned = {} /\ blank.rsv = {} /\ blank.nrRsv = 0
        /\ blank.free = ESblk - SSblk + 1 /\ blank.oob = <<>>
        /\ \A k \in AllStreams : blank.remain[k] = 0
    BY DEF blank
  <2>2. DOMAIN blank.oob = {}
    BY <2>1
  <2>3. Cardinality(blank.owned) = 0 /\ Cardinality(blank.rsv) = 0
    BY <2>1, FS_EmptySet
  <2>4. blank.free = Cardinality(Sblks) - 0 - 0
    BY <2>1, Sizes
  <2>5. \A k \in 0 .. 0 - 1 : blank.active[k] \in blank.owned /\ blank.of[blank.active[k]] = k
    OBVIOUS
  <2> QED BY <1>1, <1>2, <2>1, <2>2, <2>3, <2>4, <2>5 DEF Stage
<1> QED BY <1>0, <1>3 DEF At

\* A function that takes all the turns is at the last stage in the end.
LEMMA TurnsEnd ==
    ASSUME StreamsAssumption, NEW f, f[0] = blank,
           \A i \in 1 .. 2 * NrStreams : f[i] = InitTurn(f[i - 1], i)
    PROVE  \A i \in 0 .. 2 * NrStreams : At(f[i], i)
<1>0. NrStreams \in Nat /\ 2 * NrStreams \in Nat
  BY Sizes
<1> DEFINE n == 2 * NrStreams
           T == { i \in 0 .. n : At(f[i], i) }
<1>1. 0 \in T
  BY <1>0, BlankIs
<1>2. \A i \in 1 .. n : i - 1 \in T => i \in T
  <2> SUFFICES ASSUME NEW i \in 1 .. n, i - 1 \in T PROVE i \in T
    OBVIOUS
  <2>1. At(f[i - 1], i - 1) /\ i \in 0 .. n
    BY <1>0
  <2>2. At(InitTurn(f[i - 1], i), i)
    BY <2>1, InitTurnIs
  <2> QED BY <2>1, <2>2
<1>3. \A i \in 0 .. n : i \in T
  <2> HIDE DEF T, n
  <2> QED BY <1>0, <1>1, <1>2, CountUp DEF n
<1> QED BY <1>3

\* Such a function exists.
LEMMA TurnsExist ==
    ASSUME StreamsAssumption
    PROVE  \E f : /\ f = [i \in 0 .. 2 * NrStreams |-> f[i]] /\ f[0] = blank
                  /\ \A i \in 1 .. 2 * NrStreams : f[i] = InitTurn(f[i - 1], i)
<1>1. PICK n : n = 2 * NrStreams
  OBVIOUS
<1>2. n \in Nat
  BY <1>1, Sizes
<1>3. PICK S : S = { d \in Data : \E i \in 0 .. n : At(d, i) }
  OBVIOUS
<1>4. ASSUME NEW d, NEW i \in 0 .. n, At(d, i) PROVE d \in S
  <2>1. IsRec(d) /\ Types(d)
    BY <1>4 DEF At, Stage
  <2>2. d \in Data
    BY <2>1, DataIs
  <2> QED BY <1>3, <1>4, <2>2
<1>5. blank \in S
  BY <1>2, <1>4, BlankIs
<1>6. PICK F : F = [x \in S \X (1 .. n) |->
                       IF At(x[1], x[2] - 1) THEN InitTurn(x[1], x[2]) ELSE x[1]]
  OBVIOUS
<1>7. ASSUME NEW d \in S, NEW i \in 1 .. n
      PROVE  (IF At(d, i - 1) THEN InitTurn(d, i) ELSE d) \in S
  <2>1. CASE At(d, i - 1)
    <3>1. At(InitTurn(d, i), i)
      BY <1>1, <2>1, InitTurnIs
    <3>2. i \in 0 .. n
      BY <1>2
    <3>3. InitTurn(d, i) \in S
      BY <1>4, <3>1, <3>2
    <3> QED BY <2>1, <3>3
  <2> QED BY <2>1
<1>8. IsStep(F, S, n)
  BY <1>6, <1>7 DEF IsStep
<1>9. PICK f : Follows(f, F, S, n, blank)
  BY <1>2, <1>5, <1>8, LoopExists
<1>10. f[0] = blank /\ f \in [0 .. n -> S] /\ \A i \in 1 .. n : f[i] = F[<<f[i - 1], i>>]
  BY <1>9 DEF Follows
<1> DEFINE T == { i \in 0 .. n : At(f[i], i) }
<1>11. 0 \in T
  BY <1>2, <1>10, BlankIs
<1>12. ASSUME NEW i \in 1 .. n, At(f[i - 1], i - 1) PROVE f[i] = InitTurn(f[i - 1], i)
  <2>1. i - 1 \in 0 .. n
    BY <1>2
  <2>2. f[i - 1] \in S
    BY <1>10, <2>1
  <2> QED BY <1>6, <1>10, <1>12, <2>2
<1>13. \A i \in 1 .. n : i - 1 \in T => i \in T
  <2> SUFFICES ASSUME NEW i \in 1 .. n, i - 1 \in T PROVE i \in T
    OBVIOUS
  <2>1. At(f[i - 1], i - 1) /\ i \in 0 .. n
    BY <1>2
  <2>2. At(InitTurn(f[i - 1], i), i)
    BY <1>1, <2>1, InitTurnIs
  <2> QED BY <1>12, <2>1, <2>2
<1>14. \A i \in 0 .. n : i \in T
  <2> HIDE DEF T
  <2> QED BY <1>2, <1>11, <1>13, CountUp
<1>15. \A i \in 1 .. n : f[i] = InitTurn(f[i - 1], i)
  <2> SUFFICES ASSUME NEW i \in 1 .. n PROVE f[i] = InitTurn(f[i - 1], i)
    OBVIOUS
  <2>1. i - 1 \in 0 .. n
    BY <1>2
  <2>2. At(f[i - 1], i - 1)
    BY <1>14, <2>1
  <2> QED BY <1>12, <2>2
<1> QED BY <1>1, <1>10, <1>15

\* All streams have their superblock, and all superblocks in neither pool are erased.
LEMMA StageSound == ASSUME StreamsAssumption, NEW d, Stage(d, NrStreams, NrStreams) PROVE Sound(d)
<1>0. NrStreams \in Nat
  BY Sizes
<1>1. Rest(d) \subseteq Sblks /\ Cardinality(Rest(d)) = Cardinality(Sblks) - NrStreams - NrStreams
  BY <1>0, StageRest DEF Rest
<1>2. Erased(d) = Rest(d)
  BY <1>1 DEF Erased, Stage
<1>3. d.free = Cardinality(Erased(d))
  BY <1>1, <1>2 DEF Stage
<1>4. \A i \in Rest(d) : d.wp[i] = 0
  BY <1>1 DEF Stage
<1>5. HandedOut(d)
  BY DEF HandedOut, Stage
<1>6. \A k \in AllStreams : d.active[k] \in d.owned /\ d.of[d.active[k]] = k
  BY DEF Stage, AllStreams
<1>7. \A k \in AllStreams : ~(d.remain[k] > 0)
  BY DEF Stage
<1>8. IsRec(d) /\ Types(d)
  BY DEF Stage
<1>9. /\ Cardinality(d.owned) = NrStreams /\ d.owned \cap d.rsv = {}
      /\ Cardinality(d.rsv) = NrStreams /\ d.nrRsv = NrStreams
  BY DEF Stage
<1>10. \A i \in Rest(d) : d.wp[i] \in {0, PagesPerSblk} /\ (d.wp[i] > 0 => d.of[i] \in AllStreams)
  BY <1>4
<1> QED BY <1>3, <1>5, <1>6, <1>7, <1>8, <1>9, <1>10 DEF Sound, Pool

\* The initial state.
LEMMA InitIs == ASSUME StreamsAssumption, NEW d, d = dftl_bm_init PROVE Sound(d)
<1>1. PICK n : n = 2 * NrStreams
  OBVIOUS
<1>2. n \in Nat /\ NrStreams \in Nat /\ NrStreams > 0
  BY <1>1, Sizes
<1> DEFINE G(after) ==
        after = [i \in 0 .. n |->
                    IF i = 0 THEN blank
                    ELSE IF i <= NrStreams THEN Reserved(get_active_superblock(after[i - 1]))
                    ELSE Own(get_active_superblock(after[i - 1]), i - NrStreams - 1)]
<1>3. PICK f : /\ f = [i \in 0 .. n |-> f[i]] /\ f[0] = blank
               /\ \A i \in 1 .. n : f[i] = InitTurn(f[i - 1], i)
  BY <1>1, TurnsExist
<1>4. G(f)
  <2>1. ASSUME NEW i \in 0 .. n
        PROVE  f[i] = IF i = 0 THEN blank
                      ELSE IF i <= NrStreams THEN Reserved(get_active_superblock(f[i - 1]))
                      ELSE Own(get_active_superblock(f[i - 1]), i - NrStreams - 1)
    <3>1. CASE i = 0
      BY <1>3, <3>1
    <3>2. CASE i # 0
      <4>1. i \in 1 .. n
        BY <1>2, <3>2
      <4>2. f[i] = InitTurn(f[i - 1], i)
        BY <1>3, <4>1
      <4> QED BY <3>2, <4>2 DEF InitTurn
    <3> QED BY <3>1, <3>2
  <2> QED BY <1>3, <2>1
<1>5. PICK h : G(h) /\ d = h[n]
  <2>1. PICK h : h = CHOOSE after : G(after)
    OBVIOUS
  <2>2. G(h)
    <3> HIDE DEF G
    <3> QED BY <1>4, <2>1
  <2>3. d = h[n]
    BY <1>1, <2>1 DEF dftl_bm_init
  <2> QED BY <2>2, <2>3
<1>6. h[0] = blank
  BY <1>2, <1>5
<1>7. \A i \in 1 .. n : h[i] = InitTurn(h[i - 1], i)
  <2> SUFFICES ASSUME NEW i \in 1 .. n PROVE h[i] = InitTurn(h[i - 1], i)
    OBVIOUS
  <2>1. i \in 0 .. n /\ i # 0
    BY <1>2
  <2> QED BY <1>5, <2>1 DEF InitTurn
<1>8. At(h[n], n)
  <2>1. n \in 0 .. n
    BY <1>2
  <2> HIDE DEF G
  <2> QED BY <1>1, <1>6, <1>7, <2>1, TurnsEnd
<1>9. ~(n <= NrStreams) /\ n - NrStreams = NrStreams
  BY <1>1, <1>2
<1>10. Stage(d, NrStreams, NrStreams)
  BY <1>5, <1>8, <1>9 DEF At
<1> QED BY <1>10, StageSound

-----------------------------------------------------------------------------
(***************************************************************************)
(* The steps.                                                              *)
(***************************************************************************)
\* An entry opens a page, or uses the one of its stream.
LEMMA RoomIs ==
    ASSUME StreamsAssumption, Sound(data), data.fate = "runs", NEW k \in AllStreams,
           NEW d, d = WithRoom(k)
    PROVE  /\ Sound(d)
           /\ d.fate = "runs" =>
                 /\ d.page[k] \in PageSet /\ d.page[k][1] = d.active[k]
                 /\ d.page[k][2] < d.wp[d.active[k]]
<1>0. IsRec(data) /\ Types(data) /\ Pool(data)
  BY DEF Sound
<1>1. CASE data.remain[k] > 0
  <2>1. d = data
    BY <1>1 DEF WithRoom
  <2>2. data.page[k] \in PageSet
    BY <1>0 DEF Types
  <2> QED BY <1>0, <1>1, <2>1, <2>2 DEF Pool
<1>2. CASE ~(data.remain[k] > 0)
  <2>1. PICK c : c = dp_alloc(data, k)
    OBVIOUS
  <2>2. d = Listed(c, k)
    BY <1>2, <2>1 DEF WithRoom
  <2>3. /\ Sound(c)
        /\ c.fate = "runs" =>
              /\ c.remain[k] > 0 /\ c.page[k] \in PageSet /\ c.page[k][1] = c.active[k]
              /\ c.page[k][2] < c.wp[c.active[k]]
    BY <2>1, AllocIs
  <2>4. CASE c.fate # "runs"
    BY <2>2, <2>3, <2>4 DEF Listed
  <2>5. CASE c.fate = "runs"
    <3>1. IsRec(c) /\ Types(c) /\ Pool(c)
      BY <2>3, <2>5 DEF Sound
    <3>2. PICK p : p = c.page[k]
      OBVIOUS
    <3>3. PICK fl : fl = [c.fl EXCEPT ![k] = Append(@, p)]
      OBVIOUS
    <3>4. d = [c EXCEPT !.fl = fl]
      BY <2>2, <2>5, <3>1, <3>2, <3>3 DEF Listed, IsRec, Fields
    <3>5. SameBut(c, d, {"fl"}) /\ d.fl = fl
      BY <3>1, <3>4 DEF SameBut, IsRec, Fields
    <3>6. fl \in [AllStreams -> Seq(PageSet)]
      <4>1. c.fl \in [AllStreams -> Seq(PageSet)] /\ c.fl[k] \in Seq(PageSet)
        BY <3>1 DEF Types
      <4>2. Append(c.fl[k], p) \in Seq(PageSet)
        BY <2>3, <2>5, <3>2, <4>1, AppendProperties
      <4> QED BY <3>3, <4>1, <4>2
    <3>7. Types(d)
      BY <3>1, <3>5, <3>6 DEF SameBut, Types, Fields
    <3>8. SameBut(c, d, OtherFields)
      BY <3>5 DEF SameBut, OtherFields
    <3>9. Pool(d)
      BY <3>1, <3>8, PoolStays
    <3>10. d.page = c.page /\ d.active = c.active /\ d.wp = c.wp
      BY <3>5 DEF SameBut, Fields
    <3> QED BY <2>3, <2>5, <3>5, <3>7, <3>9, <3>10 DEF Sound, SameBut
  <2> QED BY <2>4, <2>5
<1> QED BY <1>1, <1>2

\* Assign: the entry's stream is one of the streams, and its grain is of a page handed out.
LEMMA AssignIs ==
    ASSUME StreamsAssumption, SegInv, NEW l \in Lpas, Assign(l)
    PROVE  SegInv'
<1>1. PICK k : k = StreamOf(l)
  OBVIOUS
<1>2. k \in AllStreams
  <2>1. EntriesPerPage \in Nat /\ EntriesPerPage > 0 /\ NrLpas \in Nat
    BY DEF StreamsAssumption
  <2>2. l \in Nat
    BY <2>1 DEF Lpas
  <2>3. PICK q : q = l \div EntriesPerPage
    OBVIOUS
  <2>4. q \in Nat
    BY <2>1, <2>2, <2>3
  <2>5. NrStreams \in Nat /\ NrStreams > 0
    BY Sizes
  <2>6. q % NrStreams \in 0 .. NrStreams - 1
    BY <2>4, <2>5
  <2> QED BY <1>1, <2>3, <2>6 DEF StreamOf, AllStreams
<1>3. PICK d : d = WithRoom(k)
  OBVIOUS
<1>4. PICK g : g = NextGrain(d, k, d.page[k])
  OBVIOUS
<1>5. IF d.fate = "runs" THEN /\ data' = PutGrain(d, k, g, l)
                              /\ entry' = [entry EXCEPT ![l] = [at |-> "placed", grain |-> g]]
      ELSE data' = d /\ UNCHANGED entry
  BY <1>1, <1>3, <1>4 DEF Assign
<1>6. Sound(data) /\ data.fate = "runs"
  BY DEF SegInv, Assign, Runs
<1>7. /\ Sound(d)
      /\ d.fate = "runs" => /\ d.page[k] \in PageSet /\ d.page[k][1] = d.active[k]
                            /\ d.page[k][2] < d.wp[d.active[k]]
  BY <1>2, <1>3, <1>6, RoomIs
<1>8. CASE d.fate # "runs"
  BY <1>5, <1>7, <1>8 DEF SegInv
<1>9. CASE d.fate = "runs"
  <2>1. IsRec(d) /\ Types(d) /\ Pool(d)
    BY <1>7, <1>9 DEF Sound
  <2>2. g \in GrainSet /\ g[1] = d.page[k][1] /\ g[2] = d.page[k][2]
    BY <1>2, <1>4, <1>7, <1>9, <2>1, NextIs
  <2>3. PICK e : e = PutGrain(d, k, g, l)
    OBVIOUS
  <2>4. IsRec(e) /\ Types(e) /\ Pool(e)
    BY <1>2, <1>7, <1>9, <2>1, <2>2, <2>3, PutGrainIs
  <2>5. Sound(data')
    BY <1>5, <1>9, <2>3, <2>4 DEF Sound
  <2>6. entry' = [entry EXCEPT ![l] = [at |-> "placed", grain |-> g]]
    BY <1>5, <1>9
  <2>7. entry' \in [Lpas -> [at : EntryStates, grain : GrainSet]]
    <3>1. PICK x : x = [at |-> "placed", grain |-> g]
      OBVIOUS
    <3>2. x \in [at : EntryStates, grain : GrainSet]
      BY <2>2, <3>1 DEF EntryStates
    <3> QED BY <2>6, <3>1, <3>2 DEF SegInv
  <2> QED BY <2>5, <2>7 DEF SegInv
<1> QED BY <1>8, <1>9

\* A new flush says nothing of the superblocks.
LEMMA FlushStartIs ==
    ASSUME SegInv, NEW B, FlushStart(B)
    PROVE  SegInv'
<1>1. data' = data
      /\ entry' = [l \in Lpas |-> IF l \in B THEN [Out EXCEPT !.at = "buffer"] ELSE Out]
  BY DEF FlushStart
<1>2. NoGrain \in GrainSet
  BY DEF NoGrain, NoSblk, GrainSet
<1>3. Out \in [at : EntryStates, grain : GrainSet]
  BY <1>2 DEF Out, EntryStates
<1>4. [Out EXCEPT !.at = "buffer"] \in [at : EntryStates, grain : GrainSet]
  BY <1>2 DEF Out, EntryStates
<1>5. entry' \in [Lpas -> [at : EntryStates, grain : GrainSet]]
  BY <1>1, <1>3, <1>4
<1> QED BY <1>1, <1>5 DEF SegInv

\* The mapping updates only invalidate grains.
LEMMA MappingIs ==
    ASSUME SegInv, MappingUpdate
    PROVE  SegInv'
<1>1. /\ IsRec(data) /\ Types(data) /\ Pool(data)
      /\ entry \in [Lpas -> [at : EntryStates, grain : GrainSet]]
  BY DEF SegInv, Sound, MappingUpdate, Runs
<1>2. PICK old : old = { data.table[l] : l \in Entries } \ {NoGrain}
  OBVIOUS
<1>3. PICK tb : tb = [l \in Lpas |-> IF l \in Entries THEN entry[l].grain ELSE data.table[l]]
  OBVIOUS
<1>4. PICK o : o = [g \in DOMAIN data.oob \ old |-> data.oob[g]]
  OBVIOUS
<1>5. PICK un : un = data.unwritten \ old
  OBVIOUS
<1>6. PICK ft : ft = IF old \subseteq DOMAIN data.oob THEN data.fate ELSE "failed"
  OBVIOUS
<1>7. PICK e : e = [data EXCEPT !.table = tb, !.oob = o, !.unwritten = un, !.fate = ft]
  OBVIOUS
<1>8. data' = e
  BY <1>1, <1>2, <1>3, <1>4, <1>5, <1>6, <1>7 DEF MappingUpdate, IsRec, Fields
<1>9. /\ SameBut(data, e, {"table", "oob", "unwritten", "fate"})
      /\ e.table = tb /\ e.oob = o /\ e.unwritten = un /\ e.fate = ft
  BY <1>1, <1>7 DEF SameBut, IsRec, Fields
<1>10. tb \in [Lpas -> GrainSet]
  BY <1>1, <1>3 DEF Types
<1>11. o \in Oobs /\ DOMAIN o \subseteq DOMAIN data.oob
  <2>1. DOMAIN data.oob \subseteq GrainSet /\ \A h \in DOMAIN data.oob : data.oob[h] \in Lpas
    BY <1>1, OobIs DEF Types
  <2> QED BY <1>4, <2>1, OobIs
<1>12. un \in SUBSET GrainSet
  BY <1>1, <1>5 DEF Types
<1>13. ft \in Fates
  BY <1>1, <1>6 DEF Types, Fates
<1>14. Types(e)
  BY <1>1, <1>9, <1>10, <1>11, <1>12, <1>13 DEF SameBut, Types, Fields
<1>15. Pool(e)
  <2>1. /\ e.wp = data.wp /\ e.free = data.free /\ e.owned = data.owned /\ e.rsv = data.rsv
        /\ e.nrRsv = data.nrRsv /\ e.of = data.of /\ e.active = data.active
        /\ e.page = data.page /\ e.remain = data.remain
    BY <1>9 DEF SameBut, Fields
  <2>2. Rest(e) = Rest(data)
    BY <2>1 DEF Rest
  <2>3. Erased(e) = Erased(data)
    BY <2>1, <2>2 DEF Erased
  <2>4. HandedOut(e)
    BY <1>1, <1>9, <1>11, <2>1 DEF Pool, HandedOut
  <2>5. \A i \in Rest(e) : e.wp[i] \in {0, PagesPerSblk} /\ (e.wp[i] > 0 => e.of[i] \in AllStreams)
    BY <1>1, <2>1, <2>2 DEF Pool
  <2> QED BY <1>1, <2>1, <2>3, <2>4, <2>5 DEF Pool
<1>16. Sound(e)
  BY <1>9, <1>14, <1>15 DEF Sound, SameBut
<1>17. entry' \in [Lpas -> [at : EntryStates, grain : GrainSet]]
  <2>1. entry' = [l \in Lpas |-> IF l \in Entries THEN [entry[l] EXCEPT !.at = "mapped"] ELSE Out]
    BY DEF MappingUpdate
  <2>2. Out \in [at : EntryStates, grain : GrainSet]
    BY DEF Out, EntryStates, NoGrain, NoSblk, GrainSet
  <2>3. \A l \in Lpas : [entry[l] EXCEPT !.at = "mapped"] \in [at : EntryStates, grain : GrainSet]
    BY <1>1 DEF EntryStates
  <2> QED BY <2>1, <2>2, <2>3
<1> QED BY <1>8, <1>16, <1>17 DEF SegInv

\* The pages to flush are pages.
LEMMA FlushPagesAre ==
    ASSUME StreamsAssumption, Types(data)
    PROVE  FlushPages \in Seq(PageSet)
<1>1. PICK n : n = NrStreams
  OBVIOUS
<1>2. n \in Nat
  BY <1>1, Sizes
<1>3. PICK S : S = Seq(PageSet)
  OBVIOUS
<1>4. PICK fl : fl = data.fl
  OBVIOUS
<1>5. fl \in [AllStreams -> S] /\ AllStreams = 0 .. n - 1
  BY <1>1, <1>3, <1>4 DEF Types, AllStreams
<1>6. PICK F : F = [x \in S \X (1 .. n) |-> x[1] \o fl[x[2] - 1]]
  OBVIOUS
<1>7. \A q \in S : \A i \in 1 .. n : q \o fl[i - 1] \in S
  <2> SUFFICES ASSUME NEW q \in S, NEW i \in 1 .. n PROVE q \o fl[i - 1] \in S
    OBVIOUS
  <2>1. i - 1 \in AllStreams
    BY <1>2, <1>5
  <2>2. fl[i - 1] \in S
    BY <1>5, <2>1
  <2> QED BY <1>3, <2>2, ConcatProperties
<1>8. IsStep(F, S, n)
  BY <1>6, <1>7 DEF IsStep
<1>9. <<>> \in S
  BY <1>3
<1>10. PICK f : Follows(f, F, S, n, <<>>)
  BY <1>2, <1>8, <1>9, LoopExists
<1>11. \A i \in 1 .. n : f[i] = f[i - 1] \o fl[i - 1]
  <2> SUFFICES ASSUME NEW i \in 1 .. n PROVE f[i] = f[i - 1] \o fl[i - 1]
    OBVIOUS
  <2>1. i - 1 \in 0 .. n
    BY <1>2
  <2>2. f[i - 1] \in S /\ f[i] = F[<<f[i - 1], i>>]
    BY <1>10, <2>1 DEF Follows
  <2> QED BY <1>6, <2>2
<1> DEFINE G(upTo) == upTo = [k \in 0 .. n |-> IF k = 0 THEN <<>> ELSE upTo[k - 1] \o fl[k - 1]]
<1>12. G(f)
  <2>1. f = [i \in 0 .. n |-> f[i]] /\ f[0] = <<>>
    BY <1>10 DEF Follows
  <2>2. ASSUME NEW i \in 0 .. n PROVE f[i] = IF i = 0 THEN <<>> ELSE f[i - 1] \o fl[i - 1]
    <3>1. CASE i = 0
      BY <2>1, <3>1
    <3>2. CASE i # 0
      <4>1. i \in 1 .. n
        BY <1>2, <3>2
      <4> QED BY <1>11, <3>2, <4>1
    <3> QED BY <3>1, <3>2
  <2> QED BY <2>1, <2>2
<1>13. PICK h : G(h) /\ FlushPages = h[n]
  <2>1. PICK h : h = CHOOSE upTo : G(upTo)
    OBVIOUS
  <2>2. G(h)
    <3> HIDE DEF G
    <3> QED BY <1>12, <2>1
  <2>3. FlushPages = h[n]
    BY <1>1, <1>4, <2>1 DEF FlushPages
  <2> QED BY <2>2, <2>3
<1>14. h[0] \in S
  BY <1>2, <1>9, <1>13
<1>15. \A i \in 1 .. n : h[i - 1] \in S => h[i] = F[<<h[i - 1], i>>]
  <2> SUFFICES ASSUME NEW i \in 1 .. n, h[i - 1] \in S PROVE h[i] = F[<<h[i - 1], i>>]
    OBVIOUS
  <2>1. i \in 0 .. n /\ i # 0
    BY <1>2
  <2>2. h[i] = h[i - 1] \o fl[i - 1]
    BY <1>13, <2>1
  <2> QED BY <1>6, <2>2
<1>16. h[n] \in S
  <2>1. n \in 0 .. n
    BY <1>2
  <2> HIDE DEF G
  <2> QED BY <1>2, <1>8, <1>14, <1>15, <2>1, LoopStays
<1> QED BY <1>3, <1>13, <1>16

\* Flush: pages are written.
LEMMA FlushIs ==
    ASSUME StreamsAssumption, SegInv, Flush
    PROVE  SegInv'
<1>1. IsRec(data) /\ Types(data) /\ Pool(data)
  BY DEF SegInv, Sound, Flush, Runs
<1>2. PICK pages \in Seq(PageSet) : pages = FlushPages
  BY <1>1, FlushPagesAre
<1>3. PICK w : w = WriteAll(data, pages)
  OBVIOUS
<1>4. IsRec(w) /\ Types(w) /\ SameBut(data, w, WriteFields)
  BY <1>1, <1>3, WriteAllIs DEF Wrote
<1>5. PICK fl : fl = [k \in AllStreams |-> <<>>]
  OBVIOUS
<1>6. PICK e : e = [w EXCEPT !.fl = fl]
  OBVIOUS
<1>7. data' = e
  BY <1>2, <1>3, <1>5, <1>6 DEF Flush
<1>8. SameBut(w, e, {"fl"}) /\ e.fl = fl
  BY <1>4, <1>6 DEF SameBut, IsRec, Fields
<1>9. fl \in [AllStreams -> Seq(PageSet)]
  BY <1>5
<1>10. Types(e)
  BY <1>4, <1>8, <1>9 DEF SameBut, Types, Fields
<1>11. SameBut(data, e, OtherFields)
  BY <1>4, <1>8 DEF SameBut, OtherFields, WriteFields
<1>12. Pool(e)
  BY <1>1, <1>11, PoolStays
<1>13. Sound(e)
  BY <1>8, <1>10, <1>12 DEF Sound, SameBut
<1>14. entry' \in [Lpas -> [at : EntryStates, grain : GrainSet]]
  <2>1. entry' = [l \in Lpas |-> Out]
    BY DEF Flush
  <2>2. Out \in [at : EntryStates, grain : GrainSet]
    BY DEF Out, EntryStates, NoGrain, NoSblk, GrainSet
  <2> QED BY <2>1, <2>2
<1> QED BY <1>7, <1>13, <1>14 DEF SegInv

\* The invariant holds at the start ...
LEMMA SegStarts == ASSUME StreamsAssumption, SegInit PROVE SegInv
<1>1. Sound(data)
  BY InitIs DEF SegInit
<1>2. Out \in [at : EntryStates, grain : GrainSet]
  BY DEF Out, EntryStates, NoGrain, NoSblk, GrainSet
<1>3. entry \in [Lpas -> [at : EntryStates, grain : GrainSet]]
  BY <1>2 DEF SegInit
<1> QED BY <1>1, <1>3 DEF SegInv

\* ... and each step preserves it.
LEMMA SegSteps == ASSUME StreamsAssumption, SegInv, [SegNext]_streamVars PROVE SegInv'
<1>1. ASSUME NEW B, FlushStart(B) PROVE SegInv'
  BY <1>1, FlushStartIs
<1>2. ASSUME NEW l \in Lpas, Assign(l) PROVE SegInv'
  BY <1>2, AssignIs
<1>3. CASE MappingUpdate
  BY <1>3, MappingIs
<1>4. CASE Flush
  BY <1>4, FlushIs
<1>5. CASE UNCHANGED streamVars
  BY <1>5 DEF streamVars, SegInv
<1> QED BY <1>1, <1>2, <1>3, <1>4, <1>5 DEF SegNext

\* Every record of the invariant has sound pools.
LEMMA PoolsFromInv == ASSUME SegInv PROVE PoolsSound
<1> SUFFICES ASSUME data.fate = "runs" PROVE PoolsSound
  BY DEF PoolsSound
<1>1. Pool(data)
  BY DEF SegInv, Sound
<1>2. /\ \A k \in AllStreams : data.active[k] \in data.owned /\ data.of[data.active[k]] = k
      /\ Cardinality(data.owned) = NrStreams /\ data.owned \cap data.rsv = {}
      /\ Cardinality(data.rsv) = NrStreams /\ data.nrRsv = NrStreams
  BY <1>1 DEF Pool
<1>3. /\ \A i \in Rest(data) : data.wp[i] \in {0, PagesPerSblk}
      /\ data.free = Cardinality({ i \in Rest(data) : data.wp[i] = 0 })
  BY <1>1 DEF Pool, Erased
<1>4. \A g \in DOMAIN data.oob : g[1] \in Sblks => g[2] < data.wp[g[1]]
  BY <1>1 DEF Pool, HandedOut
<1> QED BY <1>2, <1>3, <1>4 DEF PoolsSound, Rest

-----------------------------------------------------------------------------
(***************************************************************************)
(* In every state of the build with DATA_SEGREGATION that has not aborted, *)
(* through get_stream_superblock, GC and flush, every stream writes to a   *)
(* superblock it owns alone, the reserve keeps one for each stream, a      *)
(* superblock in neither pool is erased or full, free_sblk_cnt counts the  *)
(* erased ones, and valid grains lie on pages that were handed out.        *)
(***************************************************************************)
THEOREM PoolsAlwaysSound == StreamsAssumption => (SegSpec => []PoolsSound)
<1> SUFFICES ASSUME StreamsAssumption PROVE SegSpec => []PoolsSound
  OBVIOUS
<1>1. SegInit => SegInv
  BY SegStarts
<1>2. SegInv /\ [SegNext]_streamVars => SegInv'
  BY SegSteps
<1>3. SegInv => PoolsSound
  BY PoolsFromInv
<1> QED BY <1>1, <1>2, <1>3, PTL DEF SegSpec

=============================================================================
