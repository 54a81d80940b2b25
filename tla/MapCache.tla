------------------------------ MODULE MapCache ------------------------------
(***************************************************************************)
(* The cached mapping table of hash_hot_cmt/dftl_cache.c and the requests  *)
(* that use it, in the build without HOT_CMT and ADAPTIVE_MEM.             *)
(*                                                                         *)
(* One thread (algo_thread) runs every request.  A read parks itself in    *)
(* retry_q while its mapping page is loaded; a write that finds the buffer *)
(* full runs a whole flush, whose entries park in wb_retry_q, before any   *)
(* read is looked at again.  Latencies are arbitrary, so the parked        *)
(* requests of either queue resume in any order.                           *)
(*                                                                         *)
(* What is abstracted: the keys.  A request has the mapping page its lpa   *)
(* falls in, and where the code compares fingerprints or keys both         *)
(* outcomes are possible.  cmt->is_flying is left out: the waiting it is   *)
(* for, wait_if_flying, is commented out at both its callers.              *)
(***************************************************************************)
EXTENDS MapPages, Sequences

CONSTANTS MaxCached,     \* max_cached_tpages
          Readers,       \* reads that may be in flight
          Entries        \* the entries of a full write buffer

ASSUME MapCacheAssumption == MaxCached \in Nat \ {0}

VARIABLES
    map,       \* the MAP partition, a record of MapPages
    pt,        \* mapping pages whose cmt->pt is set
    dirty,     \* mapping pages in state DIRTY
    lru,       \* member.lru, most recently used first
    nr,        \* member.nr_cached_tpages
    mapped,    \* pages of mem_table with at least one mapping (history)
    stale,     \* pages of mem_table that differ from their flash copy (history)
    late,      \* stale pages updated when not cached (history)
    rd,        \* the page each parked read waits for, or NoTPage
    wb,        \* each entry of the flush: where it resumes, and its page
    gcVisit,   \* pages the first loop of _do_bulk_mapping_update has to visit
    gcWrite    \* pages its second loop has to write

cacheVars == <<map, pt, dirty, lru, nr, stale, late>>
gcVars == <<gcVisit, gcWrite>>
vars == <<cacheVars, mapped, rd, wb, gcVars>>

NoTPage == -1

\* Where an entry of the flush resumes: in wb_master_q (or after a collision),
\* at GOTO_LIST, at GOTO_COMPLETE, at GOTO_UPDATE; "idle" once it is updated.
Resume == {"idle", "lookup", "list", "complete", "update"}
IdleEntry == [at |-> "idle", page |-> 0]

Init == /\ map = map_init
        /\ pt = {} /\ dirty = {} /\ lru = <<>> /\ nr = 0
        /\ mapped = {} /\ stale = {} /\ late = {}
        /\ rd = [r \in Readers |-> NoTPage]
        /\ wb = [e \in Entries |-> IdleEntry]
        /\ gcVisit = {} /\ gcWrite = {}

Flushing == \E e \in Entries : wb[e].at # "idle"

-----------------------------------------------------------------------------
(***************************************************************************)
(* The operations of dftl_cache.c, on the record c of the cache variables. *)
(***************************************************************************)
Cache == [map |-> map, pt |-> pt, dirty |-> dirty, lru |-> lru, nr |-> nr,
          stale |-> stale, late |-> late]

SetCache(c) == /\ map' = c.map /\ pt' = c.pt /\ dirty' = c.dirty
               /\ lru' = c.lru /\ nr' = c.nr
               /\ stale' = c.stale /\ late' = c.late

\* lru_update: the node of page x becomes the head.
lru_update(l, x) ==
    LET at == CHOOSE i \in 1 .. Len(l) : l[i] = x
    IN  [i \in 1 .. Len(l) |-> IF i = 1 THEN x ELSE IF i <= at THEN l[i - 1] ELSE l[i]]

InLru(l, x) == \E i \in 1 .. Len(l) : l[i] = x

touch(c, x) == [c EXCEPT !.lru = lru_update(@, x)]

is_full(c) == c.nr >= MaxCached

(***************************************************************************)
(* The eviction of list_up: the tail of the LRU leaves the cache, and a    *)
(* dirty one is written to flash first.                                    *)
(***************************************************************************)
Tail_of(c) == c.lru[Len(c.lru)]

WritesBack(c) == is_full(c) /\ c.lru # <<>> /\ Tail_of(c) \in c.dirty

evict_drops_dirty(c) ==                \* mutant: no write back
    IF c.lru = <<>> THEN [c EXCEPT !.map = Abort(@)]
    ELSE [c EXCEPT !.lru = SubSeq(@, 1, Len(@) - 1), !.nr = @ - 1,
                   !.pt = @ \ {Tail_of(c)}, !.dirty = @ \ {Tail_of(c)}]

evict(c) ==
    IF c.lru = <<>> THEN [c EXCEPT !.map = Abort(@)]
    ELSE LET v == Tail_of(c)
             out == [c EXCEPT !.lru = SubSeq(@, 1, Len(@) - 1),
                              !.nr = @ - 1, !.pt = @ \ {v}]
         IN  IF v \notin c.dirty THEN out
             ELSE [out EXCEPT !.map = write_tpage(@, v), !.dirty = @ \ {v},
                              !.stale = @ \ {v}, !.late = @ \ {v}]

list_up_no_lru(c, x) ==                \* mutant: the node is pushed twice
    LET d == IF is_full(c) THEN evict(c) ELSE c
    IN  [d EXCEPT !.pt = @ \cup {x}, !.nr = @ + 1, !.lru = <<x>> \o @]

list_up(c, x) ==
    LET d == IF is_full(c) THEN evict(c) ELSE c
    IN  [d EXCEPT !.pt = @ \cup {x}, !.nr = @ + 1,
                  !.lru = IF InLru(@, x) THEN lru_update(@, x) ELSE <<x>> \o @]

(***************************************************************************)
(* update.  A cached page turns DIRTY and its flash copy is invalidated; a *)
(* page that was evicted meanwhile only changes in mem_table.              *)
(***************************************************************************)

update(c, x) ==
    IF x \in c.pt
    THEN [c EXCEPT !.map = IF OnFlash(@, x) /\ x \notin c.dirty
                           THEN invalidate_tpage(@, x) ELSE @,
                   !.dirty = @ \cup {x},
                   !.stale = @ \cup {x},
                   !.lru = lru_update(@, x)]
    ELSE [c EXCEPT !.stale = @ \cup {x}, !.late = @ \cup {x}]

-----------------------------------------------------------------------------
(***************************************************************************)
(* Reads, __demand_get: a hit only touches the LRU; a miss parks the read  *)
(* until its page is loaded, if the page has a copy on flash.  (A miss     *)
(* without one is answered and changes nothing here.)                      *)
(***************************************************************************)
Ready == ~map.aborted /\ gcVisit = {} /\ gcWrite = {}

ReadHit(r, x) ==
    /\ Ready /\ ~Flushing
    /\ rd[r] = NoTPage /\ x \in pt
    /\ SetCache(touch(Cache, x))
    /\ UNCHANGED <<mapped, rd, wb, gcVars>>

ReadLoad(r, x) ==
    /\ Ready /\ ~Flushing
    /\ rd[r] = NoTPage /\ x \notin pt
    /\ OnFlash(map, x)
    /\ rd' = [rd EXCEPT ![r] = x]
    /\ UNCHANGED <<cacheVars, mapped, wb, gcVars>>

\* After list_up the read has its pte; parked or not, it changes nothing more.
ReadListUp(r) ==
    /\ Ready /\ ~Flushing
    /\ rd[r] # NoTPage
    /\ SetCache(list_up(Cache, rd[r]))
    /\ rd' = [rd EXCEPT ![r] = NoTPage]
    /\ UNCHANGED <<mapped, wb, gcVars>>

-----------------------------------------------------------------------------
(***************************************************************************)
(* A flush starts with assign_ppa, which may run a GC of the DATA          *)
(* partition; S are the mapping pages of the grains that GC moves.  Bound: *)
(* at most one data GC per flush.                                          *)
(***************************************************************************)
FlushStart(pages, S) ==
    /\ Ready /\ ~Flushing
    /\ wb' = [e \in Entries |-> [at |-> "lookup", page |-> pages[e]]]
    /\ gcVisit' = S
    /\ UNCHANGED <<cacheVars, mapped, rd, gcWrite>>

(***************************************************************************)
(* _do_bulk_mapping_update of the data GC, whose grains are sorted by lpa. *)
(* First loop: a cached page is updated, the flash copy of any other page  *)
(* is read and invalidated.  Second loop: every page of the latter kind is *)
(* changed in mem_table and written out.                                   *)
(***************************************************************************)
GcVisit ==
    /\ ~map.aborted /\ gcVisit # {}
    /\ LET x == Min(gcVisit) IN
       /\ gcVisit' = gcVisit \ {x}
       /\ IF x \in pt
          THEN SetCache(update(Cache, x)) /\ gcWrite' = gcWrite
          ELSE /\ SetCache([Cache EXCEPT
                    !.map = IF OnFlash(@, x) THEN invalidate_tpage(@, x) ELSE @,
                    !.stale = @ \cup {x}])
               /\ gcWrite' = gcWrite \cup {x}
    /\ UNCHANGED <<mapped, rd, wb>>

GcWrite ==
    /\ ~map.aborted /\ gcVisit = {} /\ gcWrite # {}
    /\ LET x == Min(gcWrite) IN
       /\ gcWrite' = gcWrite \ {x}
       /\ SetCache([Cache EXCEPT !.map = write_tpage(@, x), !.dirty = @ \ {x},
                                 !.stale = @ \ {x}, !.late = @ \ {x}])
    /\ UNCHANGED <<mapped, rd, wb, gcVisit>>

(***************************************************************************)
(* _do_wb_mapping_update of one entry e for page x, from wb_data_check on  *)
(* and with cache c: a free slot is updated at once (all a page without    *)
(* mappings has); a slot of the same key is updated after its data was     *)
(* read; a slot of another key sends the entry to the next probe, which    *)
(* falls in any page.                                                      *)
(***************************************************************************)
DataCheck(e, x, c) ==
    \/ /\ SetCache(update(c, x))
       /\ mapped' = mapped \cup {x}
       /\ wb' = [wb EXCEPT ![e] = IdleEntry]
    \/ /\ x \in mapped
       /\ SetCache(c)
       /\ wb' = [wb EXCEPT ![e] = [at |-> "update", page |-> x]]
       /\ UNCHANGED mapped
    \/ /\ x \in mapped
       /\ SetCache(c)
       /\ \E y \in TPages : wb' = [wb EXCEPT ![e] = [at |-> "lookup", page |-> y]]
       /\ UNCHANGED mapped

At(e, where) == Ready /\ wb[e].at = where

EntryHit(e) ==
    /\ At(e, "lookup") /\ wb[e].page \in pt
    /\ DataCheck(e, wb[e].page, touch(Cache, wb[e].page))
    /\ UNCHANGED <<rd, gcVars>>

EntryLoad(e) ==
    /\ At(e, "lookup") /\ wb[e].page \notin pt
    /\ OnFlash(map, wb[e].page)
    /\ wb' = [wb EXCEPT ![e].at = "list"]
    /\ UNCHANGED <<cacheVars, mapped, rd, gcVars>>

\* list_up, directly when there is nothing to load; the entry parks when a
\* dirty page is written back, and goes on otherwise.
EntryListUp(e) ==
    /\ \/ At(e, "list")
       \/ At(e, "lookup") /\ wb[e].page \notin pt /\ ~OnFlash(map, wb[e].page)
    /\ LET x == wb[e].page IN
       IF WritesBack(Cache)
       THEN /\ SetCache(list_up(Cache, x))
            /\ wb' = [wb EXCEPT ![e].at = "complete"]
            /\ UNCHANGED mapped
       ELSE DataCheck(e, x, list_up(Cache, x))
    /\ UNCHANGED <<rd, gcVars>>

EntryComplete(e) ==
    /\ At(e, "complete")
    /\ DataCheck(e, wb[e].page, Cache)
    /\ UNCHANGED <<rd, gcVars>>

EntryUpdate(e) ==
    /\ At(e, "update")
    /\ SetCache(update(Cache, wb[e].page))
    /\ mapped' = mapped \cup {wb[e].page}
    /\ wb' = [wb EXCEPT ![e] = IdleEntry]
    /\ UNCHANGED <<rd, gcVars>>

Next == \/ \E r \in Readers, x \in TPages : ReadHit(r, x) \/ ReadLoad(r, x)
        \/ \E r \in Readers : ReadListUp(r)
        \/ \E pages \in [Entries -> TPages], S \in SUBSET mapped : FlushStart(pages, S)
        \/ GcVisit \/ GcWrite
        \/ \E e \in Entries : \/ EntryHit(e) \/ EntryLoad(e) \/ EntryListUp(e)
                              \/ EntryComplete(e) \/ EntryUpdate(e)

Spec == Init /\ [][Next]_vars

-----------------------------------------------------------------------------
TypeOK == /\ map \in MapStore
          /\ pt \subseteq TPages /\ dirty \subseteq TPages
          /\ lru \in Seq(TPages) /\ nr \in 0 .. MaxCached
          /\ mapped \subseteq TPages /\ stale \subseteq TPages /\ late \subseteq TPages
          /\ rd \in [Readers -> TPages \cup {NoTPage}]
          /\ wb \in [Entries -> [at : Resume, page : TPages]]
          /\ gcVisit \subseteq TPages /\ gcWrite \subseteq TPages

(***************************************************************************)
(* The mapping pages on flash: each t_ppa names a programmed page with its *)
(* valid bits set and its own index in the oob, no two share one, and no   *)
(* other page is valid.  tpage_gc finds a page's cmt only through the oob, *)
(* so a broken link here sends the next GC to the wrong cmt.               *)
(***************************************************************************)
TppaSound ==
    LET flashed == { c \in DOMAIN map.tppa : OnFlash(map, c) } IN
    /\ \A c \in flashed : /\ map.oob[map.tppa[c]] = c
                          /\ map.tppa[c][2] \in map.dev.state[map.tppa[c][1]]
    /\ map.valid = { map.tppa[c] : c \in flashed }

(***************************************************************************)
(* The superblock GC copies into is erased and holds nothing, whatever     *)
(* sequence of writes, GCs and swaps came before.                          *)
(***************************************************************************)
ReserveErased ==
    /\ map.tReserve = map.b.rsv
    /\ map.tReserve # map.tActive
    /\ map.b.wp[map.tReserve] = 0
    /\ map.dev.state[map.tReserve] = {}
    /\ \A p \in map.valid : p[1] # map.tReserve

(***************************************************************************)
(* The write pointer of the FTL and of the device agree for every          *)
(* superblock, so no write of the map path, whose return code nobody looks *)
(* at, is ever refused.                                                    *)
(***************************************************************************)
NoWriteRefused ==
    /\ ~map.refused
    /\ \A i \in Sblks : /\ map.dev.wp[i] = map.b.wp[i]
                         /\ map.dev.state[i] = 0 .. map.b.wp[i] - 1

(***************************************************************************)
(* The counters GC decides by are exact: valid_cnt of each superblock, and *)
(* free_sblk_cnt, which counts the erased superblocks, the reserve too.    *)
(***************************************************************************)
CountersExact ==
    /\ \A i \in Sblks : map.b.vcnt[i] = Cardinality({ p \in map.valid : p[1] = i })
    /\ map.b.free = Cardinality({ i \in Sblks : map.b.wp[i] = 0 })

(***************************************************************************)
(* No abort(): an eviction finds a victim in the LRU, GC finds a           *)
(* superblock with something to reclaim, and a page handed out exists.     *)
(***************************************************************************)
NeverAborts == ~map.aborted

(***************************************************************************)
(* The LRU holds exactly the cached pages, once each, although two         *)
(* requests may load and list up the same page.  (The count of cached      *)
(* pages may run ahead of it: see the README.)                             *)
(***************************************************************************)
LruIsCache ==
    /\ pt = { lru[i] : i \in 1 .. Len(lru) }
    /\ Cardinality(pt) = Len(lru)
    /\ Len(lru) <= nr

(***************************************************************************)
(* A DIRTY page is cached and has no copy on flash that GC or a load could *)
(* take for the current one.                                               *)
(***************************************************************************)
DirtyHasNoCopy == \A c \in dirty : c \in pt /\ ~OnFlash(map, c)

(***************************************************************************)
(* A page whose mem_table is newer than its flash copy is on the way to    *)
(* flash: it is DIRTY, or the data GC is about to write it.  The one       *)
(* exception is a page an entry updated after its eviction.                *)
(***************************************************************************)
NewerIsDirty == stale \subseteq dirty \cup gcWrite \cup late

(***************************************************************************)
(* A mapping that was made can be found again: a page with mappings is     *)
(* cached or has a copy on flash, or the data GC is about to write it;     *)
(* with the same exception.                                                *)
(***************************************************************************)
FoundUnlessLate ==
    \A c \in mapped : c \in pt \/ OnFlash(map, c) \/ c \in gcWrite \/ c \in late

(***************************************************************************)
(* The same without the exception.  "FIXME: to handle later update after   *)
(* evict" (dftl_cache.c, in update and in get_pte) names the case in which *)
(* it fails: load then answers that the mapping does not exist.            *)
(***************************************************************************)
MappingFound == \A c \in mapped : c \in pt \/ OnFlash(map, c) \/ c \in gcWrite

=============================================================================
