------------------------------ MODULE BlockSsd ------------------------------
(***************************************************************************)
(* The Block SSD, block_ssd/dftl_block: demand.c, dftl_wb.c and            *)
(* dftl_cache.c over BlockFlash, as its Makefile builds it (BLOCK_SSD and  *)
(* STORE_KEY_FP only).  The lpa is the number the key spells, so nothing   *)
(* is probed and two keys of the workload never share an lpa.              *)
(*                                                                         *)
(* One thread runs every request.  Reads park in retry_q; a write that     *)
(* finds the buffer full runs a whole flush, whose entries park in         *)
(* wb_retry_q, before any read resumes.  Latencies are arbitrary, so the   *)
(* parked ones resume in any order.                                        *)
(*                                                                         *)
(* What is abstracted: where mapping pages lie.  Nothing reads them back   *)
(* (mem_table keeps every mapping), and what a request sees of one is      *)
(* whether its t_ppa is set.  pop_count: any eviction may be the 50th.     *)
(***************************************************************************)
EXTENDS BlockFlash

CONSTANTS EntriesPerPage,    \* EPP
          MaxCached,         \* max_cached_tpages
          MaxWb,             \* max_wb_size
          Readers            \* reads in flight

\* The partition without the reserve has room for every lpa and a flush: the pages (_NOP)
\* are more than twice the lpas (_NOP_NO_OP).
BlockSsdAssumption == /\ BlockFlashAssumption
                      /\ EntriesPerPage \in Nat \ {0}
                      /\ MaxCached \in Nat \ {0} /\ MaxWb \in 1 .. NrLpas
                      /\ NrLpas + MaxWb <= (ESblk - SSblk) * PagesPerSblk

VARIABLES flash,     \* the DATA partition, a record of BlockFlash
          cache,     \* the mapping table and its cache
          entry,     \* each lpa in the write buffer: how far its flush is
          setting,   \* the lpa whose write waits for the flush, or NoLpa
          waiting,   \* each read: its lpa and where it resumes
          mishaps    \* what went wrong in a GC of a flush (history): "early", it collected a
                     \* page of the flush itself; "twice", it freed gc_bucket twice

blockVars == <<flash, cache, entry, setting, waiting, mishaps>>

NoLpa == -1
TPageOf(l) == l \div EntriesPerPage
TPages == { TPageOf(l) : l \in Lpas }

Stages == {"out", "buffer", "lookup", "list", "complete", "mapped"}
Out == [at |-> "out", page |-> NoPage]
Idle == [at |-> "idle", lpa |-> 0]

\* cache.table is mem_table; pt, dirty, flashed are the pages with cmt->pt, state DIRTY
\* and t_ppa set; a node of the LRU is `own` when it is the lru_ptr of its page; late are
\* the pages updated while not cached and not written since (history).
cache_init == [table |-> [l \in Lpas |-> NoPage], pt |-> {}, dirty |-> {},
               flashed |-> {}, lru |-> <<>>, late |-> {}]

BlockInit == /\ flash = dftl_bm_init /\ cache = cache_init
             /\ entry = [l \in Lpas |-> Out] /\ setting = NoLpa
             /\ waiting = [r \in Readers |-> Idle] /\ mishaps = {}

-----------------------------------------------------------------------------
(***************************************************************************)
(* dftl_cache.c and tools/lru_list.c.  list_up always pushes a node, so a  *)
(* page that two requests listed has two; cmt->hit_cnt is positive exactly *)
(* while the page is cached.                                               *)
(***************************************************************************)
Disown(lru, x) == [i \in DOMAIN lru |-> IF lru[i].page = x THEN [lru[i] EXCEPT !.own = FALSE]
                                        ELSE lru[i]]

lru_update(lru, x) ==
    LET at == CHOOSE i \in DOMAIN lru : lru[i] = [page |-> x, own |-> TRUE]
    IN  <<lru[at]>> \o RemoveAt(lru, at)

touch(c, x) == [c EXCEPT !.lru = lru_update(@, x)]

is_full(c) == Len(c.lru) >= MaxCached

\* lru_pop takes the tail, lru_pop_hot the hottest node among the first tenth with a
\* positive hit_cnt; 0 stands for the NULL it returns when there is none.
Window(c) == 1 .. (Len(c.lru) * 10 + 99) \div 100

HotNodes(c) == { i \in Window(c) : c.lru[i].page \in c.pt }

Victims(c) == {Len(c.lru)} \cup (IF HotNodes(c) = {} THEN {0} ELSE HotNodes(c))

WritesBack(c, i) == is_full(c) /\ i # 0 /\ c.lru[i].page \in c.dirty

evict_keeps_ptr(c, i) ==               \* mutant: lru_ptr is not cleared
    LET v == c.lru[i].page
    IN  [c EXCEPT !.lru = RemoveAt(@, i), !.pt = @ \ {v}, !.dirty = @ \ {v},
                  !.flashed = IF v \in c.dirty THEN @ \cup {v} ELSE @]

evict(c, i) ==
    LET v == c.lru[i].page
    IN  [c EXCEPT !.lru = Disown(RemoveAt(@, i), v), !.pt = @ \ {v}, !.dirty = @ \ {v},
                  !.flashed = IF v \in c.dirty THEN @ \cup {v} ELSE @,
                  !.late = IF v \in c.dirty THEN @ \ {v} ELSE @]

push(c, x) == [c EXCEPT !.pt = @ \cup {x},
                        !.lru = <<[page |-> x, own |-> TRUE]>> \o Disown(@, x)]

list_up(c, x, i) == push(IF is_full(c) THEN evict(c, i) ELSE c, x)

update(c, l, p) ==
    LET x == TPageOf(l)
    IN  IF x \in c.pt
        THEN [c EXCEPT !.table[l] = p, !.lru = lru_update(@, x), !.dirty = @ \cup {x},
                       !.flashed = IF x \in c.dirty THEN @ ELSE @ \ {x}]
        ELSE [c EXCEPT !.table[l] = p, !.late = @ \cup {x}]

(***************************************************************************)
(* _do_bulk_mapping_update of the values GC moved, in the order of lpas: a *)
(* cached page is updated; any other is changed in mem_table and written,  *)
(* whether or not it had a copy on flash.                                  *)
(***************************************************************************)
GcRepointOnFlash(c, l, to) ==          \* mutant: a page without a copy is skipped
    IF TPageOf(l) \in c.pt THEN update(c, l, to)
    ELSE IF TPageOf(l) \in c.flashed THEN [c EXCEPT !.table[l] = to]
    ELSE c

GcRepoint(c, l, to) ==
    IF TPageOf(l) \in c.pt THEN update(c, l, to)
    ELSE [c EXCEPT !.table[l] = to, !.flashed = @ \cup {TPageOf(l)},
                   !.late = @ \ {TPageOf(l)}]

bulk_mapping_update(c, moved) ==
    LET after[n \in 0 .. NrLpas] ==
            IF n = 0 THEN c
            ELSE IF n - 1 \in DOMAIN moved THEN GcRepoint(after[n - 1], n - 1, moved[n - 1])
            ELSE after[n - 1]
    IN  after[NrLpas]

-----------------------------------------------------------------------------
Buffered == { l \in Lpas : entry[l].at # "out" }
Flushing == setting # NoLpa
Ready == ~Flushing /\ ~flash.fault

\* __demand_get: the buffer answers, or a cached page; a page with a copy on flash is
\* loaded; a page with neither has no mapping, and the read ends as not found.
Get(r, l) ==
    /\ Ready /\ waiting[r] = Idle
    /\ IF l \in Buffered THEN UNCHANGED <<cache, waiting>>
       ELSE IF TPageOf(l) \in cache.pt
       THEN cache' = touch(cache, TPageOf(l)) /\ UNCHANGED waiting
       ELSE /\ waiting' = IF TPageOf(l) \in cache.flashed
                          THEN [waiting EXCEPT ![r] = [at |-> "list", lpa |-> l]]
                          ELSE waiting
            /\ UNCHANGED cache
    /\ UNCHANGED <<flash, entry, setting, mishaps>>

\* A list_up that meets no victim dereferences NULL.
NoVictim(i) == is_full(cache) /\ i = 0

Faults == flash' = [flash EXCEPT !.fault = TRUE] /\ UNCHANGED <<cache, entry, waiting>>

\* The read resumes: it has its pte now, or parks once more while a dirty page is written.
GetListUp(r) ==
    /\ Ready /\ waiting[r].at = "list"
    /\ \E i \in Victims(cache) :
         IF NoVictim(i) THEN Faults
         ELSE /\ cache' = list_up(cache, TPageOf(waiting[r].lpa), i)
              /\ waiting' = IF WritesBack(cache, i) THEN [waiting EXCEPT ![r].at = "complete"]
                            ELSE [waiting EXCEPT ![r] = Idle]
              /\ UNCHANGED <<flash, entry>>
    /\ UNCHANGED <<setting, mishaps>>

GetComplete(r) ==
    /\ Ready /\ waiting[r].at = "complete"
    /\ waiting' = [waiting EXCEPT ![r] = Idle]
    /\ UNCHANGED <<flash, cache, entry, setting, mishaps>>

-----------------------------------------------------------------------------
\* __demand_set into a buffer with room.  Bound: once a GC has gone wrong, nothing new is
\* written any more.
Insert(l) ==
    /\ Ready /\ (mishaps = {} \/ l \in Buffered)
    /\ Cardinality(Buffered) < MaxWb
    /\ entry' = [entry EXCEPT ![l] = [at |-> "buffer", page |-> NoPage]]
    /\ UNCHANGED <<flash, cache, setting, waiting, mishaps>>

(***************************************************************************)
(* _do_wb_assign_ppa: a page for each entry, the last of the bucket first. *)
(* The oob has lpa 0 until the mapping is updated.                         *)
(***************************************************************************)
HitsFlush(s, f) == RunsGc(s.flash) /\ \E l \in Lpas : s.entry[l].page[1] = f.rsv

FreesTwice(s, f) == f.rsv \in GcTargets(s.flash) /\ FreesAgain(s.flash, f.rsv)

GcMishaps(s, f) == (IF HitsFlush(s, f) THEN {"early"} ELSE {})
                   \cup (IF FreesTwice(s, f) THEN {"twice"} ELSE {})

AssignOne(s, l) ==
    LET f == dp_alloc(s.flash)
        p == NewPage(f)
        m == s.mishaps \cup GcMishaps(s, f)
    IN  IF f.fault THEN [s EXCEPT !.flash = f, !.mishaps = m]
        ELSE [flash |-> validate(TakePage(f), p, 0),
              cache |-> bulk_mapping_update(s.cache, f.moved),
              entry |-> [s.entry EXCEPT ![l] = [at |-> "lookup", page |-> p]],
              mishaps |-> m]

\* Of the entries of the buffer, the one with the greatest lpa first.
Assigned(s) ==
    LET after[n \in 0 .. NrLpas] ==
            IF n = 0 THEN s
            ELSE IF NrLpas - n \in Buffered THEN AssignOne(after[n - 1], NrLpas - n)
            ELSE after[n - 1]
    IN  after[NrLpas]

\* A write finds the buffer full.  The same bound.
FlushStart(l) ==
    /\ Ready /\ mishaps = {} /\ Cardinality(Buffered) = MaxWb
    /\ LET done == Assigned([flash |-> flash, cache |-> cache, entry |-> entry,
                             mishaps |-> mishaps])
       IN  /\ flash' = done.flash /\ cache' = done.cache
           /\ entry' = done.entry /\ mishaps' = done.mishaps
    /\ setting' = l
    /\ UNCHANGED waiting

(***************************************************************************)
(* _do_wb_mapping_update: the entries leave wb_master_q in key order and   *)
(* park while their page is loaded or a victim is written back.  From      *)
(* wb_data_check on, the value the pte had is invalidated, the pte set and *)
(* the lpa stored in the oob.                                              *)
(***************************************************************************)
At(where) == { l \in Lpas : entry[l].at = where }

Mapping == Flushing /\ ~flash.fault

InvalidateOld(f, old) == IF old = NoPage THEN f ELSE invalidate(f, old)

MapEntry(c, l) ==
    LET p == entry[l].page
    IN  /\ flash' = [InvalidateOld(flash, c.table[l]) EXCEPT !.lpa[p] = l, !.newest[l] = p]
        /\ cache' = update(c, l, p)
        /\ entry' = [entry EXCEPT ![l].at = "mapped"]

ListEntryUp(l) ==
    \E i \in Victims(cache) :
        IF NoVictim(i) THEN Faults
        ELSE /\ IF WritesBack(cache, i)
                THEN /\ cache' = list_up(cache, TPageOf(l), i)
                     /\ entry' = [entry EXCEPT ![l].at = "complete"]
                     /\ UNCHANGED flash
                ELSE MapEntry(list_up(cache, TPageOf(l), i), l)
             /\ UNCHANGED waiting

Lookup ==
    /\ Mapping /\ At("lookup") # {}
    /\ LET l == Min(At("lookup"))
           x == TPageOf(l)
       IN  IF x \in cache.pt THEN MapEntry(touch(cache, x), l) /\ UNCHANGED waiting
           ELSE IF x \in cache.flashed
           THEN entry' = [entry EXCEPT ![l].at = "list"] /\ UNCHANGED <<flash, cache, waiting>>
           ELSE ListEntryUp(l)
    /\ UNCHANGED <<setting, mishaps>>

EntryListUp(l) ==
    /\ Mapping /\ entry[l].at = "list"
    /\ ListEntryUp(l)
    /\ UNCHANGED <<setting, mishaps>>

EntryComplete(l) ==
    /\ Mapping /\ entry[l].at = "complete"
    /\ MapEntry(cache, l)
    /\ UNCHANGED <<setting, waiting, mishaps>>

(***************************************************************************)
(* _do_wb_flush programs the pages in the order they were assigned; what   *)
(* the device answers is not looked at.  The buffer is empty then, and the *)
(* write that waited goes in.                                              *)
(***************************************************************************)
Programmed ==
    LET after[n \in 0 .. NrLpas] ==
            IF n = 0 THEN flash
            ELSE IF NrLpas - n \in Buffered THEN Program(after[n - 1], entry[NrLpas - n].page)
            ELSE after[n - 1]
    IN  after[NrLpas]

Flush ==
    /\ Mapping /\ Buffered = At("mapped")
    /\ flash' = Programmed
    /\ entry' = [l \in Lpas |-> IF l = setting THEN [at |-> "buffer", page |-> NoPage] ELSE Out]
    /\ setting' = NoLpa
    /\ UNCHANGED <<cache, waiting, mishaps>>

BlockNext == \/ \E r \in Readers, l \in Lpas : Get(r, l)
             \/ \E r \in Readers : GetListUp(r) \/ GetComplete(r)
             \/ \E l \in Lpas : Insert(l) \/ FlushStart(l)
             \/ Lookup
             \/ \E l \in Lpas : EntryListUp(l) \/ EntryComplete(l)
             \/ Flush

BlockSpec == BlockInit /\ [][BlockNext]_blockVars

-----------------------------------------------------------------------------
(***************************************************************************)
(* A read of a block between flushes gets the newest value that was        *)
(* flushed, through every eviction and GC: the mapping names the page that *)
(* holds it, the page is programmed and its own, and a lookup gets as far  *)
(* as the mapping, unless an update came after the eviction.  Nothing      *)
(* aborts and the device takes every page.  All of this unless a GC        *)
(* collects a page of the flush that called it, or frees gc_bucket twice.  *)
(***************************************************************************)
Stored == { l \in Lpas : cache.table[l] # NoPage }

Reached(l) == TPageOf(l) \in cache.pt \cup cache.flashed \cup cache.late

GetIsRight ==
    mishaps = {} =>
        /\ ~flash.fault /\ ~flash.refused
        /\ Ready => /\ Valid(flash) = { cache.table[l] : l \in Stored }
                    /\ \A l \in Stored :
                          LET p == cache.table[l]
                          IN  /\ p = flash.newest[l] /\ flash.lpa[p] = l
                              /\ p[2] < flash.dev[p[1]] /\ Reached(l)

(***************************************************************************)
(* list_up pushes a node although the page may have one, so the LRU can    *)
(* hold nodes of pages that are no longer cached.  Still the node a page   *)
(* is used by is in the list, once, and the first node is one of a cached  *)
(* page, which is all that keeps lru_pop_hot, whose window is this node,   *)
(* from handing list_up a NULL victim.                                     *)
(***************************************************************************)
Owned(x) == { i \in DOMAIN cache.lru : cache.lru[i] = [page |-> x, own |-> TRUE] }

NodesSound ==
    /\ \A x \in TPages : Cardinality(Owned(x)) = IF x \in cache.pt THEN 1 ELSE 0
    /\ cache.lru # <<>> => cache.lru[1].page \in cache.pt

=============================================================================
