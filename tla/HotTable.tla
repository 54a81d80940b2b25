------------------------------ MODULE HotTable ------------------------------
(***************************************************************************)
(* The hot table in front of the mapping cache (HOT_CMT) and the movement  *)
(* of memory between the two (ADAPTIVE_MEM): hash_hot_cmt/dftl_cache.c and *)
(* adaptive_mem.c, as the profiles of run_all_hashkvssd_tests.sh build     *)
(* them.  Everything here is called by algo_thread alone; requests         *)
(* interleave where they wait for a mapping page.                          *)
(*                                                                         *)
(* What is abstracted: where a mapping page lives on flash (module         *)
(* MapCache); the counters pop_count and rebalance_evict_cnt, so every pop  *)
(* of a full LRU may promote and every eviction may rebalance; statistics  *)
(* that nothing decides on.  Ghost keys need VERIFY_CACHE, which no profile *)
(* sets: their cap is 0.                                                   *)
(***************************************************************************)
EXTENDS Integers, FiniteSetsExt, Functions, SequencesExt

CONSTANTS NrPages,       \* nr_valid_tpages
          EPP,           \* entries of a mapping page, and slots of a hot page
          Asked,         \* the lpas requests ask for
          Reqs,          \* requests and flush entries that may wait
          Total,         \* total_cache_tpages
          HotCap,        \* hot_tpages_cap
          Chunk,         \* chunk_tpages, the minimum of either part as well
          NHot,          \* n_hot
          KeyChunk,      \* the pages a step of the key budget takes
          MaxProbe,      \* MAX_PROBE
          RehashProbe,   \* HOT_REHASH_MAX_PROBE
          Warm, MaxHeat, \* DEFAULT_STATE and HOT_STATE_MAX
          TopK,          \* COLD_LRU_PROMOTE_TOP_K
          CapPerPage,    \* ghost_cold_cap per page taken from the cold part
          FifoMax,       \* GHOST_FIFO_MAX
          ScanSteps,     \* GHOST_FALLBACK_SCAN_STEPS
          MaxVer,        \* bound on the versions of a mapping
          MaxStat        \* bound on the counters between two rebalances

HotTableAssumption ==
    /\ {NrPages, EPP, Total, HotCap, Chunk, NHot, KeyChunk, MaxProbe, RehashProbe,
        Warm, TopK, CapPerPage, FifoMax, ScanSteps} \subseteq Nat \ {0}
    /\ 2 * Chunk <= Total /\ Chunk <= HotCap /\ HotCap < Total
    /\ MaxProbe <= RehashProbe /\ MaxHeat \in Nat /\ Warm < MaxHeat
    /\ Asked \subseteq 0 .. NrPages * EPP - 1

VARIABLES pt,       \* mem_table: the version of the mapping of each lpa, 0 when initial
          lru,      \* the resident pages in the order of the LRU
          nr,       \* nr_cached_tpages
          cnt,      \* cnt_map, by lpa
          flag,     \* the pages with has_hot_entry
          hot,      \* the hot table and its counters
          cold,     \* max_cached_tpages
          keys,     \* whether the key budget has been extended
          ghost,    \* the ghost marks, their counter, the FIFO, the scan position
          req       \* what each of Reqs is at

hotVars == <<pt, lru, nr, cnt, flag, hot, cold, keys, ghost, req>>

Pages == 0 .. NrPages - 1
HotLpas == 0 .. NrPages * EPP - 1
PageOf(l) == l \div EPP
Of(p) == { l \in HotLpas : PageOf(l) = p }
None == -1
Empty == [lpa |-> None, ppa |-> 0, state |-> 0]
NoOp == [op |-> "idle", lpa |-> None]

-----------------------------------------------------------------------------
(* The hot table. *)

Slots == 0 .. HotCap * EPP - 1
HotEntries(h) == h.pages * EPP                      \* max_cached_hot_entries

Heats == 0 .. MaxHeat
NoneLive == [s \in Heats |-> 0]

\* hot_probe_advance: page and index together are one slot number.
Chain(h, lpa, n) ==
    LET at[k \in 0 .. n - 1] ==
            IF k = 0 THEN lpa % HotEntries(h) ELSE (at[k - 1] + k * k) % HotEntries(h)
    IN  [k \in 1 .. n |-> at[k - 1]]

\* hot_hist_dec and hot_hist_inc when a slot changes.
PutUncounted(h, s, e) ==                         \* mutant: the entry replaced stays counted
    LET inc == [h.live EXCEPT ![e.state] = @ + 1]
    IN  [h EXCEPT !.slot[s] = e, !.live = IF e = Empty THEN h.live ELSE inc]

Put(h, s, e) ==
    LET old == h.slot[s]
        dec == IF old = Empty THEN h.live ELSE [h.live EXCEPT ![old.state] = @ - 1]
    IN  [h EXCEPT !.slot[s] = e,
                  !.live = IF e = Empty THEN dec ELSE [dec EXCEPT ![e.state] = @ + 1]]

\* The last slot of least state on the chain: later ones win ties.
Victim(h, chain) ==
    chain[CHOOSE i \in DOMAIN chain : \A j \in DOMAIN chain :
        \/ h.slot[chain[i]].state < h.slot[chain[j]].state
        \/ h.slot[chain[i]].state = h.slot[chain[j]].state /\ j <= i]

\* hot_promote_place_grain: e comes from the cold cache with its heat.
place_grain(h, e) ==
    LET chain == Chain(h, e.lpa, MaxProbe)
        same == { i \in DOMAIN chain : h.slot[chain[i]].lpa = e.lpa }
        free == { i \in DOMAIN chain : h.slot[chain[i]] = Empty }
        victim == h.slot[Victim(h, chain)]
    IN  IF same # {} THEN Put(h, chain[Min(same)], e)
        ELSE IF free # {} THEN [Put(h, chain[Min(free)], e) EXCEPT !.valid = @ + 1]
        ELSE IF e.state < victim.state
             THEN [h EXCEPT !.blocked = @ + 1,
                            !.hotEvict = IF victim.state >= Warm THEN @ + 1 ELSE @]
             ELSE [Put(h, Victim(h, chain), e)
                       EXCEPT !.hotEvict = IF victim.state >= Warm THEN @ + 1 ELSE @,
                              !.coldEvict = IF victim.state >= Warm THEN @ ELSE @ + 1]

\* dftl_cache_hot_is_hit: where the entry is, None when the chain does not hold it.
HitSlot(h, lpa) ==
    LET chain == Chain(h, lpa, MaxProbe)
        same == { i \in DOMAIN chain : h.slot[chain[i]].lpa = lpa }
    IN  IF same = {} THEN None ELSE chain[Min(same)]

\* hot_state_raise
Raise(h, s) == Put(h, s, [h.slot[s] EXCEPT !.state = Min({@ + 1, MaxHeat})])

\* dftl_cache_promote_hot: the accessed and mapped entries of page p, by index.
Promote(h, l) ==
    IF pt[l] # 0 /\ cnt[l] >= 1
    THEN place_grain(h, [lpa |-> l, ppa |-> pt[l], state |-> cnt[l]])
    ELSE h

promote_hot(h, p) ==
    LET after[i \in 0 .. EPP] == IF i = 0 THEN h ELSE Promote(after[i - 1], p * EPP + i - 1)
    IN  after[EPP]

\* hot_rehash_place_entry: long probing, then any free slot.
PlaceLate(h, e) ==                    \* mutant: the probing is advanced before the first look
    LET chain == Chain(h, e.lpa, RehashProbe)
        Takes(s) == h.slot[s] = Empty \/ h.slot[s].lpa = e.lpa
        primary == { i \in DOMAIN chain : i > 1 /\ Takes(chain[i]) }
        fallback == { s \in 0 .. HotEntries(h) - 1 : Takes(s) }
        at == IF primary # {} THEN chain[Min(primary)] ELSE Min(fallback)
    IN  IF primary \cup fallback = {} THEN h
        ELSE [Put(h, at, e) EXCEPT !.valid = @ + 1]

PlaceEntry(h, e) ==
    LET chain == Chain(h, e.lpa, RehashProbe)
        Takes(s) == h.slot[s] = Empty \/ h.slot[s].lpa = e.lpa
        primary == { i \in DOMAIN chain : Takes(chain[i]) }
        fallback == { s \in 0 .. HotEntries(h) - 1 : Takes(s) }
        at == IF primary # {} THEN chain[Min(primary)] ELSE Min(fallback)
    IN  IF primary \cup fallback = {} THEN h
        ELSE [Put(h, at, e) EXCEPT !.valid = @ + 1]

\* A rehash from hot_rehash_begin to the end of hot_rehash_drain_all: the table is cleared,
\* and what it held is placed again, in the order of the slots, the cold entries dropped.
Cleared(h) ==
    [h EXCEPT !.slot = [s \in Slots |-> IF s < HotEntries(h) THEN Empty ELSE @[s]],
              !.live = NoneLive, !.valid = 0]

Again(h, e) == IF e # Empty /\ e.state >= Warm THEN PlaceEntry(h, e) ELSE h

rehash(h) ==
    LET after[i \in 0 .. HotEntries(h)] ==
            IF i = 0 THEN Cleared(h) ELSE Again(after[i - 1], h.slot[i - 1])
    IN  after[HotEntries(h)]

\* adaptive_clear_hot_page, for the slots of hot pages [from, to).
ClearSlot(h, s) == IF h.slot[s] = Empty THEN h
                   ELSE [Put(h, s, Empty) EXCEPT !.valid = Max({@ - 1, 0})]

ClearHotPages(h, from, to) ==
    LET after[i \in 0 .. (to - from) * EPP] ==
            IF i = 0 THEN h ELSE ClearSlot(after[i - 1], from * EPP + i - 1)
    IN  after[(to - from) * EPP]

-----------------------------------------------------------------------------
(* The ghosts of evicted pages. *)

GhostCap(hotPages, key) ==
    CapPerPage * (hotPages + IF key THEN KeyChunk ELSE 0)
FifoCap(c) == Min({c, FifoMax})

Unmark(g, p) == [g EXCEPT !.marks = @ \ {p}, !.nr = IF @ > 0 THEN @ - 1 ELSE 0]

\* ghost_cold_fifo_evict_oldest: entries of the FIFO whose page is no longer marked are
\* skipped; when none is left, ScanSteps pages are looked at from where the last scan
\* ended.  The result is g itself when no mark was found.
evict_oldest(g) ==
    LET live == { i \in DOMAIN g.fifo : g.fifo[i] \in g.marks }
        Seen(k) == (g.rr + k) % NrPages
        found == { k \in 0 .. ScanSteps - 1 : Seen(k) \in g.marks }
    IN  IF live # {}
        THEN [Unmark(g, g.fifo[Min(live)])
                  EXCEPT !.fifo = SubSeq(g.fifo, Min(live) + 1, Len(g.fifo))]
        ELSE IF g.nr = 0 THEN [g EXCEPT !.fifo = <<>>]
        ELSE IF found # {}
        THEN [Unmark(g, Seen(Min(found)))
                  EXCEPT !.fifo = <<>>, !.rr = (g.rr + Min(found) + 1) % NrPages]
        ELSE [g EXCEPT !.fifo = <<>>, !.rr = (g.rr + ScanSteps) % NrPages]

\* The loops of adaptive_ghost_cold_mark and adaptive_ghost_trim_locked stop when a call
\* unmarks nothing.
EvictUntil(g, most) ==
    LET Goes(t) == t.g.nr > most /\ ~t.stuck
        Call(t) == [g |-> evict_oldest(t.g), stuck |-> evict_oldest(t.g).nr = t.g.nr]
        more[k \in 0 .. NrPages] ==
            IF k = 0 THEN [g |-> g, stuck |-> FALSE]
            ELSE IF Goes(more[k - 1]) THEN Call(more[k - 1]) ELSE more[k - 1]
    IN  more[NrPages].g

ghost_mark(g, p, cap) ==
    IF p \in g.marks THEN g
    ELSE LET t == EvictUntil(g, cap - 1)
             q == Append(t.fifo, p)
         IN  [t EXCEPT !.marks = @ \cup {p}, !.nr = @ + 1,
                       !.fifo = IF Len(q) > FifoCap(cap) THEN Tail(q) ELSE q]

ghost_clear(g, p) ==
    IF p \in g.marks THEN [g EXCEPT !.marks = @ \ {p}, !.nr = @ - 1] ELSE g

\* adaptive_ghost_update_caps_locked: the rings are allocated anew, then trimmed.
ghost_update_caps(g, cap) == EvictUntil([g EXCEPT !.fifo = <<>>], cap)

-----------------------------------------------------------------------------
(* Moving memory. *)

Warmth(h) == FoldFunctionOnSet(+, 0, h.live, Warm .. MaxHeat)

\* The memory as one record: the hot table, the cold pages, the key budget, the ghosts.
NoStats(h) == [h EXCEPT !.hotEvict = 0, !.coldEvict = 0, !.blocked = 0]

CanExpand(mem) == /\ mem.cold > 2 * Chunk - 1
                  /\ mem.hot.pages + Chunk <= HotCap
expand_hot(mem) ==
    LET wider == [mem.hot EXCEPT !.pages = @ + Chunk]
        h == rehash(ClearHotPages(wider, mem.hot.pages, wider.pages))
    IN  [mem EXCEPT !.hot = NoStats(h), !.cold = @ - Chunk,
                    !.ghost = ghost_update_caps(@, GhostCap(h.pages, mem.keys))]

\* Builds without VERIFY_CACHE have no budget for keys and no free one either, so this
\* is taken for a key cache that is full, once.
CanExpandKeys(mem) == ~mem.keys /\ mem.cold > Chunk + KeyChunk - 1
expand_keys(mem) ==
    [mem EXCEPT !.cold = @ - KeyChunk, !.keys = TRUE, !.hot = NoStats(@),
                !.ghost = ghost_update_caps(@, GhostCap(mem.hot.pages, TRUE))]

CanShrink(mem) == /\ mem.hot.pages > 2 * Chunk - 1
                  /\ mem.cold + Chunk <= Total
shrink_hot(mem) ==
    LET less == mem.hot.pages - Chunk
        h == rehash([ClearHotPages(mem.hot, less, mem.hot.pages) EXCEPT !.pages = less])
    IN  [mem EXCEPT !.hot = NoStats(h), !.cold = @ + Chunk,
                    !.ghost = ghost_update_caps(@, GhostCap(h.pages, mem.keys))]

try_rebalance(mem) ==
    LET h == mem.hot
        fill == (Warmth(h) * 1000) \div HotEntries(h)
        pressure == fill + (h.blocked * 1000) \div HotEntries(h)
        coldPressure == /\ h.hotEvict < NHot /\ h.coldEvict > h.hotEvict
                        /\ h.hotEvict + h.coldEvict > NHot
        lowUse == h.hotEvict < NHot /\ fill <= 250
    IN  IF pressure > 500 /\ CanExpand(mem) THEN expand_hot(mem)
        ELSE IF CanExpandKeys(mem) THEN expand_keys(mem)
        ELSE IF fill < 250 /\ (coldPressure \/ lowUse) /\ CanShrink(mem) THEN shrink_hot(mem)
        ELSE mem

-----------------------------------------------------------------------------
\* lru_update of the node of page p, or lru_push of a new one.
ToHead(l, p) ==
    LET at == CHOOSE i \in 1 .. Len(l) : l[i] = p
    IN  IF ~Contains(l, p) THEN <<p>> \o l
        ELSE [i \in 1 .. Len(l) |-> IF i = 1 THEN p ELSE IF i <= at THEN l[i - 1] ELSE l[i]]

\* cmt_grain_heat_raise, of a resident page.
grain_access(l) ==
    IF Contains(lru, PageOf(l))
    THEN cnt' = [cnt EXCEPT ![l] = Min({@ + 1, MaxHeat})] /\ flag' = flag \cup {PageOf(l)}
    ELSE UNCHANGED <<cnt, flag>>

\* The cold half of a lookup: hit and touch, or wait for the page.
ColdLookup(r, op, l) ==
    /\ grain_access(l)
    /\ IF Contains(lru, PageOf(l))
       THEN /\ lru' = ToHead(lru, PageOf(l))
            /\ req' = [req EXCEPT ![r] = IF op = "write" THEN [op |-> "update", lpa |-> l] ELSE NoOp]
       ELSE /\ req' = [req EXCEPT ![r] = [op |-> op, lpa |-> l]]
            /\ UNCHANGED lru

\* A read at its first probe.  The key of the entry is that of the request or not.
Read(r, l, same) ==
    LET s == HitSlot(hot, l) IN
    /\ req[r] = NoOp /\ (s = None => ~same)
    /\ s # None \/ \E x \in Of(PageOf(l)) : pt[x] # 0          \* a page to load
    /\ IF s # None /\ same
       THEN /\ hot' = Raise(hot, s)
            /\ grain_access(l) /\ UNCHANGED <<lru, req>>
       ELSE /\ hot' = IF s = None THEN hot ELSE Raise(Raise(hot, s), s)
            /\ ColdLookup(r, "read", l)
    /\ UNCHANGED <<pt, nr, cold, keys, ghost>>

\* An entry of a flush at its first probe: the hot table is asked twice.
Write(r, l, same) ==
    LET s == HitSlot(hot, l)
        twice == IF s # None /\ same /\ Contains(lru, PageOf(l)) THEN 2 ELSE 1
    IN
    /\ req[r] = NoOp /\ (s = None => ~same) /\ pt[l] < MaxVer
    /\ hot' = IF s = None THEN hot ELSE Raise(Raise(hot, s), s)
    /\ IF Contains(lru, PageOf(l))
       THEN /\ cnt' = [cnt EXCEPT ![l] = Min({@ + twice, MaxHeat})]
            /\ flag' = flag \cup {PageOf(l)}
            /\ lru' = ToHead(lru, PageOf(l))
            /\ req' = [req EXCEPT ![r] = [op |-> "update", lpa |-> l]]
       ELSE /\ req' = [req EXCEPT ![r] = [op |-> "write", lpa |-> l]]
            /\ UNCHANGED <<lru, cnt, flag>>
    /\ UNCHANGED <<pt, nr, cold, keys, ghost>>

\* Any later probe asks the cold cache only.
Probe(r, l) ==
    /\ req[r] = NoOp /\ pt[l] # 0
    /\ ColdLookup(r, "read", l)
    /\ UNCHANGED <<pt, nr, hot, cold, keys, ghost>>

\* lru_pick_promote_hot_pages and promote_hot of each page picked.
Window == Min({Len(lru), Max({1, (Len(lru) * 50 + 99) \div 100})})
Picked == { i \in 1 .. Window : /\ lru[i] \in flag
                               /\ Cardinality({ j \in 1 .. i : lru[j] \in flag }) <= TopK }
Promoted == { lru[i] : i \in Picked }
PromoteAll(promote) ==
    LET after[i \in 0 .. Window] ==
            IF i = 0 THEN hot
            ELSE IF i \in Picked THEN promote_hot(after[i - 1], lru[i]) ELSE after[i - 1]
    IN  IF promote THEN after[Window] ELSE hot
Cooled(promote) == IF promote THEN { l \in HotLpas : PageOf(l) \in Promoted } ELSE {}

\* A page promoted without any mapped entry keeps its flag.
Unflagged(promote) ==
    IF promote THEN { p \in Promoted : \E l \in Of(p) : pt[l] # 0 } ELSE {}

\* The page is listed: no ghost any more, cold, first in the LRU.
Listed(r, g, left, cool, flags) ==
    LET p == PageOf(req[r].lpa) IN
    /\ ghost' = ghost_clear(g, p)
    /\ cnt' = [l \in HotLpas |-> IF l \in Of(p) \cup cool THEN 0 ELSE cnt[l]]
    /\ flag' = flags \ {p}
    /\ lru' = ToHead(left, p)
    /\ req' = [req EXCEPT ![r] = IF @.op = "write" THEN [@ EXCEPT !.op = "update"] ELSE NoOp]
    /\ UNCHANGED pt

\* dftl_cache_list_up while there is room.
list_up(r) ==
    /\ req[r].op \in {"read", "write"} /\ nr < cold
    /\ nr' = nr + 1
    /\ Listed(r, ghost, lru, {}, flag)
    /\ UNCHANGED <<hot, cold, keys>>

(***************************************************************************)
(* dftl_cache_list_up of a full cache.  The victim is the tail of the LRU, *)
(* possibly the page itself, when another request has listed it while r    *)
(* was waiting.  One page leaves for one that comes, so a cache whose share *)
(* has been taken away stays larger than its share.                        *)
(***************************************************************************)
list_up_full(r, promote, rebalance) ==
    /\ req[r].op \in {"read", "write"} /\ nr >= cold
    /\ lru # <<>>                                \* abort() otherwise
    /\ LET victim == Last(lru)
           evicted == [hot |-> PromoteAll(promote), cold |-> cold, keys |-> keys,
                       ghost |-> ghost_mark(ghost, victim, GhostCap(hot.pages, keys))]
           mem == IF rebalance THEN try_rebalance(evicted) ELSE evicted
       IN  /\ hot' = mem.hot /\ cold' = mem.cold /\ keys' = mem.keys
           /\ Listed(r, mem.ghost, Front(lru), Cooled(promote) \cup Of(victim),
                     flag \ Unflagged(promote))
    /\ {hot'.hotEvict, hot'.coldEvict, hot'.blocked} \subseteq 0 .. MaxStat
    /\ UNCHANGED nr

\* dftl_cache_update: the cold mapping only.
update(r) ==
    /\ req[r].op = "update" /\ pt[req[r].lpa] < MaxVer
    /\ pt' = [pt EXCEPT ![req[r].lpa] = @ + 1]
    /\ lru' = LET p == PageOf(req[r].lpa) IN IF Contains(lru, p) THEN ToHead(lru, p) ELSE lru
    /\ req' = [req EXCEPT ![r] = NoOp]
    /\ UNCHANGED <<nr, cnt, flag, hot, cold, keys, ghost>>

\* dftl_cache_hot_reset and adaptive_prepare_for_benchmark, between loading the keys and
\* the measurement.
prepare_for_benchmark ==
    /\ \A r \in Reqs : req[r] = NoOp
    /\ hot' = [hot EXCEPT !.slot = [s \in Slots |-> IF s < HotEntries(hot) THEN Empty ELSE @[s]],
                          !.live = NoneLive, !.valid = 0, !.hotEvict = 0, !.coldEvict = 0]
    /\ ghost' = [ghost EXCEPT !.marks = {}, !.nr = 0, !.fifo = <<>>]
    /\ UNCHANGED <<pt, lru, nr, cnt, flag, cold, keys, req>>

\* dftl_cache_create, and the mappings that loading the keys has left.
HotInit ==
    /\ pt = [l \in HotLpas |-> IF l = 0 THEN 0 ELSE 1] /\ lru = <<>> /\ nr = 0
    /\ cnt = [l \in HotLpas |-> 0] /\ flag = {}
    /\ hot = [slot |-> [s \in Slots |-> Empty], pages |-> Chunk, live |-> NoneLive,
              valid |-> 0, blocked |-> 0, hotEvict |-> 0, coldEvict |-> 0]
    /\ cold = Total - Chunk /\ keys = FALSE
    /\ ghost = [marks |-> {}, nr |-> 0, fifo |-> <<>>, rr |-> 0]
    /\ req = [r \in Reqs |-> NoOp]

HotNext ==
    \/ \E r \in Reqs, l \in Asked, same \in BOOLEAN : Read(r, l, same) \/ Write(r, l, same)
    \/ \E r \in Reqs, l \in Asked : Probe(r, l)
    \/ \E r \in Reqs : list_up(r)
    \/ \E r \in Reqs, promote, rebalance \in BOOLEAN : list_up_full(r, promote, rebalance)
    \/ \E r \in Reqs : update(r)
    \/ prepare_for_benchmark

HotSpec == HotInit /\ [][HotNext]_hotVars

-----------------------------------------------------------------------------
\* The histogram of a table counts just its entries, which are all in the part in use, and
\* the entries reported are never fewer than there are.
Exact(h) ==
    LET occupied == { s \in Slots : h.slot[s] # Empty } IN
    /\ \A x \in Heats : h.live[x] = Cardinality({ s \in occupied : h.slot[s].state = x })
    /\ occupied \subseteq 0 .. HotEntries(h) - 1
    /\ h.valid >= Cardinality(occupied)

\* The counter of ghosts is that of the marks, and no page is both resident and a ghost:
\* such a page would be thrown out of the LRU uncounted by the next eviction.
GhostsExact ==
    /\ ghost.nr = Cardinality(ghost.marks)
    /\ ghost.marks \cap Range(lru) = {}

\* The numbers that decide how memory moves are kept by increments and are right: the
\* histogram of heats, and the count of ghosts with their marks (try_rebalance).
CountsExact == Exact(hot) /\ GhostsExact

WarmIn(h, pages) == { h.slot[s].lpa : s \in { x \in 0 .. pages * EPP - 1 : h.slot[x].state >= Warm } }

\* A hit finds each entry of the table, unless every place where it looks is taken.
Findable(h) ==
    \A s \in Slots : h.slot[s] # Empty =>
        LET chain == Chain(h, h.slot[s].lpa, MaxProbe) IN
        \/ HitSlot(h, h.slot[s].lpa) # None
        \/ \A i \in DOMAIN chain : h.slot[chain[i]] # Empty

\* Whatever the table has come to, moving memory now would lose no warm entry but those of
\* the pages given up, although the entries may be there twice and land elsewhere; all of
\* them would be found by a hit, but for those whose places for a hit have all been taken
\* by others; and the histogram would again count exactly what is there.
ResizeKeepsWarm ==
    LET mem == [hot |-> hot, cold |-> cold, keys |-> keys, ghost |-> ghost]
        Kept(after) ==
            /\ WarmIn(hot, Min({hot.pages, after.pages})) \subseteq WarmIn(after, after.pages)
            /\ Findable(after) /\ Exact(after)
    IN  /\ CanExpand(mem) => Kept(expand_hot(mem).hot)
        /\ CanShrink(mem) => Kept(shrink_hot(mem).hot)

\* A read answered from the hot table goes to the page the mapping names.  One that does
\* not finds what was trimmed since, or another value.
HotIsCurrent ==
    \A l \in HotLpas : HitSlot(hot, l) # None => hot.slot[HitSlot(hot, l)].ppa = pt[l]

=============================================================================
