# TLA+ models of AggreKV

This directory holds TLA+ modules for the three key-value and block stores of
this repository (`src/hash_kvssd`, `src/lsmtree_kvssd`, `src/block_ssd`), the TLC
configurations that check them and proofs for TLAPS. The hash-based KVSSD, the
repository's own system, is modelled most completely; the other two are the
baselines it is compared with.

The hash tree has three build options that change what the program does:
`HOT_CMT`, `ADAPTIVE_MEM` and `DATA_SEGREGATION`. The active `CFLAGS` of
`hash_kvssd/Makefile` set none of them ("default build" below); the profiles of
`run_all_hashkvssd_tests.sh` set them one after the other. HotTable models the
first two, Streams the third, and every other module the default build. The
Block SSD is modelled as its Makefile builds it.

## The system

A client thread turns a KV operation into a `request` and puts it on a ring.
One thread, `algo_thread`, runs the FTL: a write goes to the write buffer (a
skiplist), a read looks in the buffer, then in the mapping table, then on flash.
A mapping table entry (pte) is found by hashing the key to an `lpa`; 2^n ptes
form a mapping page, of which a limited number is cached. All time is simulated:
the NAND model returns a latency, the FTL parks the request in a queue ordered by
its end time and goes on with another one.

| part | source (under `src/hash_kvssd` if not said) | state | operations |
|---|---|---|---|
| NAND device | `lower/ssd.c` | `ppa_state`, `line_wp` | `ssd_write_ppa`, `ssd_read_ppa`, `ssd_trim_block` |
| block manager | `hash_hot_cmt/dftl_bm.c` | per superblock `wp_offt`, `valid_cnt`; per partition reserve, active, free count; valid bits and oob | `get_active_sblk`, `get_page_num`, `isgc_needed`, `get_gc_target`, `trim_segment`, `change_reserve`, (in)validate |
| mapping pages | `dftl_pg.c` | `t_active`, `t_reserve`, `t_ppa` of each cmt | `tp_alloc`, `tpage_gc` |
| value pages | `dftl_pg.c` | `d_active`, `d_reserve`, oob | `dp_alloc`, `dpage_gc_dvalue` |
| mapping cache | `dftl_cache.c` | `cmt->pt`, `state`, LRU, `nr_cached_tpages` | `load`, `list_up`, `touch`, `update`, `get_pte` |
| write buffer | `dftl_wb.c` | skiplist, `flush_list`, `wb_master_q`, `wb_retry_q` | `insert`, `assign_ppa`, `mapping_update`, `flush` |
| requests | `demand.c` | `h_params`, `inflight_params`, `max_try` | `__demand_get`, `__demand_set` |
| timed queues | `algo_queue.c` | doubly linked list | `algo_q_insert_sorted`, `algo_q_dequeue` |
| rings | `tools/rte_ring/rte_ring.h` | head and tail of both ends, slots | `ring_enqueue`, `ring_dequeue`, `ring_count` |
| threads | `test_ext_mem_lat.c` | `req_q`, `finish_q`, `complete_q`, I/O counters | `submit_req`, `algo_thread`, `process_cq_cpl`, `end_request` |
| containers | `tools/skiplist.c`, `tools/lru_list.c` | nodes | insert, find; push, update, pop, pop_hot |
| hot CMT | `dftl_cache.c` (`HOT_CMT`) | hot hash table, histogram of heats | hit, promotion, probing, rehash |
| adaptive memory | `adaptive_mem.c` (`ADAPTIVE_MEM`) | ghost rings, sizes of hot part, cold part and key cache | ghost marks, expand, shrink, `try_rebalance` |
| streams | `dftl_bm.c`, `dftl_pg.c`, `dftl_wb.c` (`DATA_SEGREGATION`) | open page of each stream, pools of superblocks, `fl_stream[]` | per-stream assignment, flush, GC |
| LSM tree | `src/lsmtree_kvssd/lsmtree`, `array`, `lsm_tools` | memtable, levels of runs, compaction queue | `lsm_set`, cut, leveling, merge, `lsm_get_page` |
| Block SSD | `src/block_ssd/dftl_block` | as hash tree, one value a page, no hashing | `__demand_get`, `__demand_set`, flush, GC |

Interactions. A write that finds the buffer full runs the whole flush in its
call of `__demand_set`: `assign_ppa` takes pages from the block manager (and may
run a GC of value pages, which updates the mapping table, which may write
mapping pages, which may run a GC of mapping pages); `mapping_update` sends
every entry through the mapping cache, parking entries in `wb_retry_q`; `flush`
programs the pages. Reads are parked in `retry_q` in the middle of the cache
protocol, and find the cache changed when they resume. With `HOT_CMT` an
eviction may promote entries of the page, and with `ADAPTIVE_MEM` move memory,
which rehashes the hot table. The threads are the workers, `algo_thread` and two
completion threads; they share the rings and the I/O counters, while FTL state
belongs to `algo_thread` alone. The LSM tree adds a compaction thread that works
on the levels while `algo_thread` serves requests. Nothing is persisted: there is
no recovery to model.

What is hard here, and what correctness means:

- mapping cache: requests are suspended between load, list-up, check and update
  while others evict and GC moves pages. A mapping once made must stay findable,
  and a changed page must reach flash.
- probing: keys share hashes and fingerprints; a key must be found by a get that
  was parked between two probes, within a bound that other requests raise.
- flash management: GC works only as long as there is an erased reserve, exact
  counters, and oob records that lead back to the right pte or cmt.
- flush: three phases with a GC possible in the first; addresses taken early must
  still be right when used. With streams, a page outlives the flush that opened it.
- device: append-only lines; the FTL mostly ignores its return codes.
- threads: rings that fill up, threads that spin on them in a circle, counters
  changed from both sides, requests freed while pointers to them exist.
- timed queues: nearly sorted, polled at the head only.
- hot table and ghosts: counts kept by increments at a dozen places decide how
  memory is moved.
- compaction: levels are replaced in two halves under a reader.

## Modules

**Flash.** `Nand` has the device as operators on a record and `NandDevice` runs
them under arbitrary commands. `BlockMgr` has the block manager of one partition
as operators; `MapPages` and `DataPages` put the allocation and GC of mapping
pages and value pages on top of both.

- **MapCache** (`MCMapCache` adds the symmetry): the MAP partition and the
  mapping cache, with actions for reads (`ReadHit`, `ReadLoad`, `ReadListUp`), for
  each entry of a flush (`EntryHit`, `EntryLoad`, `EntryListUp`, `EntryComplete`,
  `EntryUpdate`: one action per place an entry runs to until it parks again, named
  after its `GOTO_` label) and for the mapping update of a data GC (`GcVisit`,
  `GcWrite`). A read is served only between flushes, because `algo_thread` runs a
  flush to its end. Keys are abstracted: where the code compares fingerprints or
  keys, either outcome is possible, and a probe goes to any page. Data GC moves
  grains of any set of pages with mappings.
- **DataPath**: the DATA partition and a flush of `NrEntries` entries, with one
  action per page assigned (`AssignPage`, GC included), per entry mapped
  (`MapEntry`) and for the programming (`Flush`). Here the pte table is simply
  there. An entry may take any pte that no earlier entry of its flush took, which
  is what probing and `d_htable` leave.
- **Packing**: the loop that packs values of 1 to `GRAIN_PER_PAGE` grains into
  pages, shared by flush and GC; `PackingCheck` compares it with its reference.
- **Streams**: the data path with `DATA_SEGREGATION`: `Assign` places one entry in
  the open page of its stream (GC and the switch to another superblock included),
  then the mapping updates and the flush of all lists. Values are of one grain,
  as in every workload. GC writes to the stream its victim belongs to. Two
  conditions end a behaviour, since what follows is not meaningful: GC collected
  grains of the flush that called it (`early`, the finding `FlushAccepted` again),
  or wrote to another stream that had an open page or pages not yet programmed
  (`stray`).

**Requests.**

- **KvRequests**: `demand_get`, `demand_set` with `make_hash_params`, the buffer,
  and the mapping update of a flush probe by probe, over a table of entries and a
  cache whose evictions are left open. It has the keys that MapCache abstracts:
  `Hash` and `Fp` are constants, so that instances choose the collisions.
- **HotTable**: the hot table in front of the cache and the movement of memory
  between hot part, cold part and key cache. Counters that only say how often
  something is tried (`pop_count`, `rebalance_evict_cnt`) are left open.

**Threads and structures.**

- **AlgoQueue** is what the timed queues promise, **AlgoList** the linked list
  that implements it.
- **BoundedFifo** is what a ring promises, **RteRing** the lock-free ring that
  implements it: a step is one access to a shared counter or the copy of the slots.
  **RteRingProofs** proves that it does.
- **Driver**: workers, `algo_thread` and completion threads with the rings as
  bounded FIFOs, from the allocation of a request to its end. What a handler does
  is reduced to whether it answers, parks, or answers twice.
- **LruOrder** is what the LRU promises, **LruList** the list with its pointers;
  **SkipList** the skiplist with its towers, checked as a map in key order.

**Baselines.**

- **LsmTree** over **LevelArray** (runs, merge, cut) and **LsmPages** (pages of
  flash): `lsm_set`, the cut of the memtable and the compaction thread, one action
  per place where the two threads can see each other's state.
- **BlockSsd** over **BlockFlash**: the Block SSD, requests, cache, flush and data
  GC in one state machine, because its mapping cache differs from the hash tree's:
  `list_up` may push several LRU nodes for one page.

**Proofs.** `DriverProofs` (Driver and AlgoQueue), `MapStoreProofs` (MapCache and
MapPages), `KvStreamsProofs` (KvRequests and Streams), `RteRingProofs`, `NandDeviceProofs`,
`DataPathProofs`, `HotTableProofs` and `BlockSsdProofs` each extend the modules they are about;
`DataPathProofs` uses the lemmas of `NandDeviceProofs` about the device's commands. See
"What is proved".

**MC modules.** `MCStructures`, `MCBackground`, `MCDataPath`, `MCThreads` and
`MCKvRequests` each extend one to three components, some put instances of others beside
them: the variable `part` chooses which of them a behaviour runs, and the state of the others
stays what it is initially. The instances do not interact, so the states of a run are
the sum of theirs, and a property of one of them is checked as if it ran alone.
`MCThreads` and `MCKvRequests` have several parts of the component they extend as
well: behaviours of one instance in which some workers, requests or keys are not used.
`AlgoQueue`, `NandDevice`, `HotTable`, `Streams` and `BlockSsd` prefix the names of their
specification (`QueueInit`, `NandSpec`, `HotNext`, `SegSpec`, `BlockNext`, ...) so that
`MCThreads` can extend the first together with `Driver`, `MCStructures` the second and the
last with `RteRing`, `MCDataPath` the third with `DataPath` and `MCKvRequests` the fourth
with `KvRequests`.

History variables (`mapped`, `stale`, `late` in MapCache, `early` in DataPath, `mishaps`
in BlockSsd, `order` in AlgoQueue, `had` in KvRequests, `twice` in Driver, `newest` in
BlockFlash, `stray` and `unwritten` in Streams) record what a property needs.
Guards read one only to state a bound: the ones named in Streams and BlockSsd, and in
Driver at most one read that is answered twice.
Definitions marked `mutant` stand for plausible bugs; each property is known to
fail when one of them replaces the definition below it.

Left out everywhere: statistics and logging, memory management of the C code
where nothing depends on it, and latencies, which are replaced by every possible
order of resumption.

## What TLC checks

| run | instance | states | shows |
|---|---|---|---|
| `structures` | AlgoList: 3 requests, 3 nodes, slack 1, clock 0..2, 4 insertions. RteRing: 2 producers, 2 consumers, 4 slots, counters modulo 8 that start at 6, 4 objects. NandDevice: 3 lines of 3 pages, commands of up to 4 pages. Packing: up to 5 values of 1..4 grains. BlockSsd: 3 superblocks, 3 lpas; once a reader, 2 cached pages and flushes of one entry, once flushes of two entries and one cached page | 375,004 | the list implements the timed queue, the ring a bounded FIFO; page states are the prefix below the write pointer, also after refused commands; values do not overlap and take the fewest pages. Block SSD: up to findings 2 and 7, a read gets the newest flushed value; a victim is found |
| `map_cache_reader` | 3 superblocks of 2 pages, 3 mapping pages, 2 cached, 1 reader, 1 entry | 1,308,766 | t_ppa, oob and valid bits agree; counters are exact; LRU = cached pages |
| `background` | MapCache: 2 mapping pages, 1 cached, 2 readers, 2 entries. LsmTree: 6 keys; once 3 levels, one of them on flash, once 4 levels, two of them on flash. LruList: 3 pages. SkipList: keys 1..4, towers up to 3 | 667,596 | no abort; what is newer than flash is on its way; mappings stay findable up to the finding below. LSM: whenever `algo_thread` takes up a request, the first level that has a key holds its last version; levels fit, pages are given up exactly when replaced. The LRU list implements its order; the skiplist is a sorted map |
| `data_path` | DataPath: 3 superblocks of 2 two-grain pages, 2 ptes, 2 entries of 1 or 2 grains. HotTable: 3 mapping pages of 2 ptes | 147,051 | table, oob, valid bits and device agree, asserts hold, GC has its reserve; the hot table's counts are exact, and resizing keeps warm entries, where a hit finds them |
| `kv_requests` | KvRequests: 5 requests over 5 keys with three probes each, of which three share a hash, two of them the fingerprint; 4 requests over 2 keys for liveness. Streams: 2 streams of 2 lpas, 8 superblocks of 2 two-grain pages, buffer of 3, 8 flushes | 290,458 | stored keys are reachable, answers right and single, overflow only when full, every request answered. Streams: pools are sound and values readable |
| `threads` | AlgoQueue: 3 requests, slack 1; once with a clock of 0..3 and 4 insertions, once without an end of either. RteRing: 2 producers, 1 consumer, 2 slots. Driver: 2 workers with I/O depth 2, 2 requests (3 in one part), rings of one entry, 2 completion threads | 62,031 | waiting bounds of the queue; each parked request is served though others keep coming; what `ring_count` saw is there; one holder of each request, exact counters, every request ended |
| `mapping_found`, `flush_accepted`, `driver_rmw`, `hot_current`, `lsm_resumes`, `streams_flushed` | as above | | one finding each |

**Bounds.** Three superblocks are the fewest the block manager works with (a
reserve, an open one, a victim), and already every GC rotates all three roles; two
pages per superblock give victims with none and some pages valid. There are as many
mapping pages as the partition can hold beside its reserve with something left to
reclaim; a cache of one or two pages makes evictions constant. Two entries, or an
entry and a reader, are the fewest that can evict each other's page. Rings of one
entry are always full, so that every thread meets the spinning loops; counters modulo
8 that start at 6 wrap within a run. Keys of KvRequests are chosen so that two share
hash and fingerprint, one the hash alone, one is found on the way of others and one
looks like an initial entry; a key is stored at its first, second or third probe, and
four keys are enough to overflow.
The instance with four levels passes every table on from the levels in memory at once,
so that both levels on flash fill; in the code two of five levels are on flash as well.
The room of each level is small enough to fill within the sets, where the code has powers
of `size_factor`.
In the instance of the hot table every entry stays where a hit finds it. That a hit's places
are all taken by others needs a hot part of three chunks, which TLC reaches with 4 mapping
pages; that instance has no violation in its first 860,000 states and is too large for a
run. The theorem about it covers every size.
Larger instances were explored completely, without a violation, outside the runs:
MapCache with 3 mapping pages, 1 cached, two entries and a reader (7.3 million
states) and with 2 cached and two entries (7.4 million); HotTable with probes of 2 and
3 and a histogram of 2 (586,000); BlockSsd with 3 lpas and 2 cached pages (2.9
million) and with 1 cached (642,000); Streams with 3 lpas and no bound on the number
of flushes (473,000). MapCache, HotTable, NandDevice and the part `endless` of MCThreads are not bounded in
length; KvRequests runs as many requests as `Requests` has; the bounds of the others (`MaxTime`, `MaxArrivals`, `MaxItems`, `MaxParks`,
`MaxFlushes`, `MaxVer`, `MaxWb`, `MaxWriteBuf`) are constants named where they are declared.

`CHECK_DEADLOCK FALSE` stands where the model really stops: AlgoQueue at the end of its
clock (not in the part `endless`), the rings when all objects are through, KvRequests when all requests are
answered, DataPath, Streams and LsmTree where the program calls `abort()` or a bound
ends them.

**Fairness** is assumed only where a liveness property is checked, and for threads
that are endless loops without a blocking call:

- AlgoQueue, in the part `endless` of `MCThreads`: time passes, and the owner polls the head
  of its queue (`algo_thread`, `process_cq_cpl`). Nothing is assumed of those who park
  requests: they may go on doing it for ever, and let later requests go ahead of the one
  that waits. Neither the clock nor the number of insertions has a bound: the clock stays at
  `Here` = 2, and time passes by lowering all etimes instead, down to 0.
  The one restriction is that a request is parked with an etime at most `Late` = 1 before
  the clock. A handler parks a request right after `etime = clock_get_ns() + lat`
  (`dftl_pg.c:661`, `dftl_cache.c:1208`, `1305`), but for one that waited in `cmt->retry_q`
  for a mapping page, whose etime is as old as that wait is long. Were there no
  such limit, requests with older and older etimes could keep one waiting.
- RteRing: a thread inside a call goes on, and the consumer polls.
- Driver: every thread runs (weak), and `algo_thread` comes back to each of its queues
  (strong for `TakeNew`, `TakeParked`, `EndKept`: what is parked falls due one day, and
  the loop looks at every queue in turn).
- KvRequests: `algo_thread` runs.
- LsmTree: both threads run; the compaction thread waits on a condition variable that
  each hand-over signals.

## Findings

1. `MappingFound` fails. An entry that waits for the read of its old value
   (`GOTO_UPDATE`) can have its mapping page evicted by another entry.
   `dftl_cache_update` then writes `mem_table` behind the cache: the page is not
   dirty, and if it had no flash copy `dftl_cache_load` says there is no mapping.
   The code has a FIXME at this place. `NewerIsDirty` and `FoundUnlessLate` show that
   this is the only way: pages updated late, the variable `late`, are their one
   exception.
2. `FlushAccepted` fails: a GC inside `assign_ppa` can collect the superblock the
   same flush has just filled. Its grains have lpa 0 in their oob and its pages
   are not programmed; the GC redirects the pte of lpa 0, erases the superblock,
   and the flush later programs stale addresses, which the device refuses and
   `_do_wb_flush` answers with `abort()`. It takes the flush to fill one
   superblock and to need another while none is free, and the filled one to have
   the fewest valid grains. The other properties of DataPath are stated for runs
   in which GC collected no such entry (`early = {}`).
3. `RmwAtomic` fails: a read whose mapping page is nowhere is answered twice, by
   `__demand_get` and by `demand_get`. The second end decrements the worker's
   counter again, so that a read-modify-write goes on with its write in flight; the
   request is freed twice.
4. `HotIsCurrent` fails: an update of a mapping leaves the entry of the hot table as it
   is, and a hit there answers with the old address.
5. `SetResumes` fails: `lsm_set` sets `is_compacting` again after the hand-over that
   has set it already; when the compaction thread finishes in between, `algo_thread`
   waits for ever.
6. `FlushWritesAll` fails: with streams, only an entry that opens a page enters the
   list of its stream. Entries that continue a page written by an earlier flush are
   mapped but part of no write.
7. The Block SSD frees `gc_bucket` twice. `_do_bulk_write_valid_items` allocates it only for
   a victim with valid pages (`dftl_pg.c:139-141` of `src/block_ssd`), `dpage_gc_dvalue`
   frees it after every GC (line 540) and leaves the pointer as it is; the hash tree's copy
   sets it to NULL. So a GC of a victim without valid pages frees the bucket of an earlier
   GC again. No line of the repository says otherwise, so this has no run of its own:
   BlockSsd reaches it (`"twice" \in mishaps`), treats it as an abort and states `GetIsRight`
   for the behaviours in which it did not happen.

Not findings, but worth knowing:

- The timed queues are not exactly sorted, which the insertion accepts for its slack;
  `WaitBounded` and `OvertakesOnlyLater` state what holds.
- `nr_cached_tpages` is incremented each time a page is listed up, also when two
  requests listed up the same page (the wait for a flying page is commented out). The
  count then stays ahead of the LRU, so the cache holds fewer pages than it may.
- DataPath is checked with room left in the partition. When the live data nearly fill
  it, the code aborts by design in `get_gc_target` ("No valid superblock for GC"). The
  guard there counts invalid grains while packing reclaims whole pages, so with values
  of several lengths and 3 ptes on two usable superblocks of 2 two-grain pages, a GC
  may reclaim no page at all; then `dp_alloc` takes a page from a full superblock,
  which `ftl_assert(!check_full)` in `get_page_num` reports only in debug builds.
- The reserve pool of the streams is filled but never taken from, although `dftl_bm.h`
  says the switch of a stream prefers it.

## What is proved

TLAPS proves the following for all values of the constants, from the named
assumptions alone; each of these is an ASSUME of the model or of the MC module that
instantiates it, so the runs evaluate it.

**Timed queue** (`DriverProofs`, from `AlgoQueueAssumption`: the slack and the bounds
are naturals).

- `TypeCorrect`: `Spec => []TypeOK`. `TypeOK` includes that no request is queued
  twice, which makes it inductive by itself.
- `WaitIsBounded`: `Spec => []WaitBounded`, inductive relative to `TypeOK`. The heart is
  lemma `InsertShape` (what the insertion does to each position) and `OneMoreSlack`: an
  entry pushed back by one position gains one `Slack`, and the inserted one is within
  one `Slack` of its predecessor.
- `OvertakingIsJustified`: `Spec => []OvertakesOnlyLater`; a new request has the highest
  insertion number, so only the entries it was put before matter, and the loop passed
  them because they are due more than `Slack` later.

**Mapping cache and mapping pages** (`MapStoreProofs`, from `MapCacheAssumption`, that the cache has room for one page, and
the assumptions of `BlockMgr` on the shape of a partition).

- `LruCorrect`: `LruIsCache`, although two requests may load and list up the same page;
  and `VictimFound`: `is_full(Cache) => lru # <<>>`, why the eviction in `list_up` never
  reaches its abort. `LruIsCache` is not inductive: `nr_cached_tpages` counts a page that
  was listed up twice twice, so its value does not bound the length of the LRU from
  below, and an eviction could pop an empty one. `LruInv` adds that `nr` never exceeds
  `max_cached_tpages` and is positive only if the LRU holds something, because
  `list_up`, the only operation that raises or lowers it, ends with the new page at the
  head.
- `LinksHold` (`TppaSound`), `CountersHold` (`CountersExact`) and `GcHasRoom` (the reserve
  is erased, no write is refused). They rest on `MapSound`, an invariant of one record of
  the partition: links, counters, the device's line pointers in step with `wp_offt`, a
  reserve that is erased, an active superblock that is neither free nor the reserve, and
  exactly the pages below the write pointers programmed. No part of it is inductive
  without the others: a GC erases its victim because the counters say nothing in it is
  valid any more, and the counters stay right because the oob leads to the cmt of each
  page. The first part of the module shows for each operation of the block manager and of `dftl_pg.c`
  that it keeps `MapSound` (`OpenSound`, `PutSound`, `WriteSound`), with the loop of the
  GC as a fold over the victim's pages, one step at a time.
- `AbortsNever` (`NeverAborts`) and `MappingsFound` (`FoundUnlessLate`), under one more
  hypothesis, `Roomy`: the superblocks of the partition without the reserve hold all
  mapping pages, `NrTPages <= (ESblk - SSblk) * PagesPerSblk`. Without it the code
  aborts by design, since a GC finds nothing to reclaim. The device of the repository
  has 699,050 mapping pages (`dftl_cache.c:322`) and superblocks 0 to 58 of 65,536 pages
  for them (`dftl_bm.c:61`). That a victim with an invalid page exists is an argument by
  counting (lemma `VictimExists`).
- `NewerReachesFlash` (`NewerIsDirty`, and that a dirty page has no copy) and
  `CacheTypes`. The store's invariant `StoreOf` relates the cache with the partition:
  what is not cached and not late is on flash.

**KV requests** (`KvStreamsProofs`, from `KvAssumption`: hashes within the table, sizes
positive, keys and requests not 0, the value of an empty field).

- `Reachable` (`StoredReachable`), `NoKeyLost` (the action property `NothingLost`),
  `GetMissesNothing` (`NotFoundIsAbsent`), `OneAnswer` (`AnsweredOnce`), `OverflowTaken`
  (`OverflowIsFull`), `GetFindsStored` (a get finds only what was stored) and `KvTypes`.
- The invariant `KvInv` is the table's (`TableSound`), the cache's, the flush's
  (`FlushSound`), that of each request (`ReqSound`, `GetSound`) and `OverflowIsFull`. The
  argument: an entry of the table never changes its key once it has one, so what a probe
  sequence has passed stays passed, however long it is parked and whatever is flushed
  meanwhile. `Behind` says of a request or entry at its n-th probe that the entries
  before are taken by other keys; with the invariant that `max_try` is at least every
  stored key's number of probes, a get that comes to the end has passed every entry the
  key could be in.

**Driver** (`DriverProofs`, from `DriverAssumption`).

- `OneHolderHolds` (`OneHolder`), `CounterExactHolds` (`CounterExact`) and
  `RmwAtomicOnceHolds` (`RmwAtomicOnce`), for any number of workers, completion threads
  and requests and any room in the rings. `OneHolder` alone is not inductive, because it
  does not say that a request that is not free has a holder, nor how often a handler will
  still answer. `HolderInv` does: a request is in one place, among the workers' hands, the
  queues, `algo_thread`'s hand and the completion threads, exactly when it is not free,
  and each action moves one request from one place to the next. `DriverInv` adds that
  `tr_nr_ios` counts the places the worker's requests occupy, with room for one more while
  the worker is between the test and the increment.

**Rings** (`RteRingProofs`, from `RteRingAssumption`: the word of the counters is a whole
number of turns of the ring, of at least two; a ring with a single producer or consumer
has only one; and `MaxItems + Size <= Word`).

- `RingIsFifo` (`IsFifo`): the ring implements BoundedFifo, for any number of producers
  and consumers, single or multi, and any place where the counters stand, their wrap
  included. `CountedHolds` (`CountedIsThere`), `DisjointHolds` (`SlotsDisjoint`),
  `CapacityHolds` (`WithinCapacity`).
- The variables alone do not tell enough: a wrapped counter does not say how far apart two
  threads are, nor a slot whether its object is the one of this turn. `RingInv` says that
  there are *ghosts*: the numbers the four counters and the threads' copies of a head stand
  for, and the object of each position ever handed out, such that the counters are those
  numbers modulo the word and in order (`InOrder`), the threads between head and tail have
  all the positions between them, each its own (`Covered`, `Apart`), a slot that was
  published holds the object of its position (`Contents`) and no object has two positions
  (`Tickets`). Each step is shown to lead from ghosts to ghosts; that a compare-and-set
  cannot succeed on a head that went round is where `MaxItems + Size <= Word` is needed.
- The refinement: an enqueue takes effect when its tail moves, a dequeue when its head
  does, all other steps are stutters but the call and the return. The hard steps are the
  refusal, for which the entries a stale head misses must still be somewhere in the crowd
  of the ring (counted with `Tickets`), and `UpdateProdTail`, where the abstract queue
  grows by exactly what this producer offered.
- `MaxItems + Size <= Word` makes this a theorem about runs with fewer than 2^32 - size
  objects. A longer run can be had only if a thread is known to be not stalled for a whole
  turn of the counters between its load and its compare-and-set, which the code relies on
  and nothing in it guarantees.

**Data pages and flush** (`DataPathProofs`, from the assumptions of BlockMgr, DataPages and
DataPath: at least three superblocks, a page a whole number of grains, no value longer
than a page).

- `TableAlwaysSound` (`TableSound`), `GcAlwaysReady` (`GcReady`) and the invariant they
  follow from, `DataInvariant`.
- `DataInv` says of the partition and the table together (`DataSound`): every pte and every
  entry that waits for its pte has a value whose grains are its own, and the valid grains
  are exactly theirs; a valid grain whose oob has a length starts such a value, and that
  oob names its pte; a page not handed out yet holds nothing; the reserve is erased and
  is not the active superblock; `valid_cnt` and `invalid_cnt` count what they should. The
  parts need each other: the GC finds values by the lengths in the oob, so what it copies
  is complete and nothing else only if the oobs are right; its copies hit no other value
  only if the reserve was erased; and the counters stay exact because no grain is
  invalidated for two values.
- The flush. `PackResult` says that the packing of `_do_wb_assign_ppa` gives each item one place,
  within a page and beside the others. The loop is a function of the number of steps, and
  the proof takes the first step after which `PackSound` would not hold. The pages are then
  written one by one, with a GC before any of them.
- The GC: each value of the victim is collected once (`CollectedOnce`), packed on pages of
  the reserve (`MovesPacked`), its pte is found by the oob and repointed (`GcRepoints`), and
  what results is sound with the victim as the new reserve (`GcKeeps`).
- As the properties do, `DataInv` says nothing of the table once a GC has collected an entry
  of the very flush that started it (`early`): that value has no pte yet, and the code
  goes on with the old address (see "Findings").

**NAND device** (`NandDeviceProofs`, from `NandDeviceAssumption`: at least one page in a
line, commands of bounded length).

- `PrefixAlways` (`WrittenPrefix`): the programmed pages of a line are those below its
  write pointer, and `RunIsLoop`: the closed form of a bulk write, which DataPages and
  DataPath use, is what the loop of `ssd_write_ppa` over its pages does, wherever in a line
  the command starts, however many lines it runs over and at whatever page it is refused.
  Both hold of every device whose state is a prefix (`DevInv`), so that the lemmas serve
  the clients of the device as well. `AppendsOrErases` is the action property: a command
  continues lines where they stood or erases one.

**Flush and device** (the second half of `DataPathProofs`, from the assumptions of DataPath).

- `DeviceAlwaysFollows` (`DeviceFollows`), `FlushAlwaysTaken` (no `Flush` ends in the
  `abort()` of `_do_wb_flush`), and the invariant they follow from, `DeviceInvariant`. The
  device is ahead or behind of the block manager while a flush is under way, because the
  pages handed out in `assign_ppa` are programmed at its end only, and a GC in between
  programs and erases others. `DeviceInv` says which: the pages handed out and not
  programmed are those of the runs in `fl`, each in one run, and the runs of a superblock
  continue it where the device stands, in their order (`RunsSound`). It is inductive only
  with the reason why no GC comes in between: a superblock with pages that are not
  programmed holds an entry of the flush, so that a GC that collects it is one of those the
  property excludes (`early`).
- The writing of the runs is a function of their number, and the proof takes the first run
  after which the device would not have the pages of all runs before it.
- `AssertionsHold`: no `ftl_assert` of the block manager fails, unless a GC collected an
  entry of the flush that started it, or the program gave up. That it does not give up, the
  other half of `AssertsHold`, is no theorem for every instance: it needs room in the
  partition, and that the values a GC moves fit into the reserve, for which the packing of
  their grains must not need more pages than they came from. The greedy packing of
  `_do_wb_assign_ppa` gives no such bound for every page size: with ten grains to a
  page, six pages that each hold values of 4, 3 and 3 grains take seven when packed longest
  first. For the instance of the run, with two grains to a page, TLC shows it.

**Hot table** (`HotTableProofs`, from `HotTableAssumption`: the hot part and the cold one
have room for `chunk_tpages` each, the hot part is capped below the whole, and the warm
entries are those from some heat above 0 and below the highest).

- `CountsAlwaysExact` (`CountsExact`), `ResizeAlwaysKeepsWarm` (`ResizeKeepsWarm`),
  `PoolIsSplit` (each page of the pool belongs to the hot part, the cold part or the key
  budget, and the first two keep their least; without `VERIFY_CACHE` nothing uses the pages
  of the key budget) and `VictimThere` (the eviction in `list_up` never reaches its
  `abort()`).
- They follow from `HotInvariant`. Of the table, `HotInv` says that nothing lies beyond the
  pages in use (`Within`), that the histogram counts the entries of each heat
  (`HeatsExact`), and that `hot_valid_entries` is at least their number: it is no equality,
  because a rehash counts an entry again that replaces its duplicate. Of the LRU, it says
  that it lists pages once, no more than `nr_cached_tpages`, and some when that is positive
  (`Resident`): the count runs ahead of the list when a page is listed twice.
- All changes of the table are `Put`s of one slot, so the counts are shown for a `Put` once
  (`PutExact`, `PutSound`) and carried through the loops: what each turn of a promotion, a
  clearing or a rehash keeps, the whole keeps (`LoopStays`).
- A rehash loses nothing warm because there is always a slot for the next entry: it has one
  turn for each slot of the table, after i turns the table holds at most i entries, and its
  search goes on from the probing to every slot. Shrinking clears the pages it gives up
  before, so the rehash has again one turn for each slot that is left.
- What a rehash leaves can be found. `AllReached` says that each entry lies on the way of a
  hit's probing, or else all places of that probing are taken. The long probing of the rehash
  begins with the places of a hit, in the same order (`SameChain`), so an entry is put
  elsewhere only when those are taken, and no place is emptied while the others are put
  (`PlaceReaches`). `ResizeKeepsWarm` asks for this as well, and that the histogram counts
  the new table exactly.

**Streams** (`KvStreamsProofs`, from `StreamsAssumption`: two superblocks for each
stream and two more, sizes positive, and a write buffer that makes each flush open a page).

- `PoolsAlwaysSound` (`PoolsSound`): after any switches, GCs and flushes each stream owns the
  superblock it writes to, alone, the reserve keeps one for each stream, and `free_sblk_cnt`
  is the number of erased superblocks in neither pool, until the program aborts.
- The pools are not inductive by themselves; `Pool` adds two things. A superblock in neither
  pool that is not erased has the stream that filled it, so that the stream a GC writes to
  exists. And a page with grains left belongs to the superblock its stream writes to, below
  `wp_offt`, so that the next grain lies on a page that was handed out.
- A switch takes an erased superblock, though the search only asks for one that is not full:
  the one it comes from is full, and what is in neither pool is full or erased
  (`OwnSound`, `SwitchIs`). That is why `free_sblk_cnt` is lowered by each switch and raised by
  each trim, and stays exact.
- While a GC runs (`Apart`), its victim stays full and in neither pool, so that no switch takes
  it, and it loses its valid grains first and gets none, although the local `ppa` is still 0
  where a half-filled page is continued; so the trim erases nothing that is valid. The
  loop over its grains, those over pages and lists, and that of `dftl_bm_init` are functions
  of the number of turns, shown to exist and to stay within what each turn keeps
  (`LoopExists`, `LoopStays`).
- `dftl_bm_init` finds a superblock at each of its searches because the partition has two
  more than the streams take (`StageSearch`).

**Block SSD** (`BlockSsdProofs`, from `BlockSsdAssumption`: sizes positive, and the
partition without the reserve has room for every lpa and a flush,
`NrLpas + MaxWb <= (ESblk - SSblk) * PagesPerSblk`). The code has superblocks 118 to 2355 of
65,536 pages (`dftl_bm.c:64`), 146.6 million pages beside the reserve, for 68.2 million of
logical space (`dftl_settings.h:25`) and a flush of a few hundred entries.

- `NodesStaySound` (`NodesSound`), always; `ReadsAreRight` (`GetIsRight`), which excludes what
  follows when a GC collects a page of the flush that called it or frees `gc_bucket` twice
  (findings 2 and 7). `mishaps` records which of them happened, and each action that adds to
  it leaves `BlockInv` with nothing to say.
- The LRU may hold several nodes of one page. `NodesMatch` says which of them is the page's
  own: each cached page has one, no other page has any. That the head is a node of a cached
  page is kept because an eviction is always followed by the push of the page that needed
  room.
- `BlockInv` ties three owners of pages together. The valid pages are those the table maps to
  and those of flush entries without a mapping, each for one lpa (`MapSound`); the pages
  handed out and not yet programmed are those of the flush (`DevSound`); a superblock that is
  not the active one is erased or full, and `free` counts the erased ones (`Pools`).
- A GC always finds a full superblock with something to reclaim by counting: were all pages
  outside the reserve valid, there would be more of them than lpas and entries
  (`NrLpas + MaxWb`). Its copies go to pages of their own in the erased reserve (`CopyIs`), and
  the mappings follow them, whether the mapping page is cached, on flash or neither
  (`GcMaps`).
- The flush hands out pages from the greatest lpa down and programs them in that order, so in
  each superblock smaller lpas lie behind greater ones, and the device, which takes only the
  next page of a superblock, takes every one (`ProgramIs`). A GC between two entries would
  break this only by collecting a superblock with pages of the flush, the excluded case.
- What a read waits for is there when it resumes: a page with mappings is dirty in the
  cache, has a copy, or was updated after it left (`LooksUp`).

The invariants were checked by TLC before they were proved: `MapSound` and `Opened` on all states of
`map_cache_reader`, `DriverInv` on those of `threads`, `KvInv` on those of `kv_requests`,
`Sound` with the ghosts as history variables on small rings of every kind, `DataInv` and
`DeviceInv` on the 13,678 states of an instance with 3 superblocks of 2 pages, 2 ptes and 2 entries,
`HotInv` on those that `data_path` has of the hot table, `Pool` on the 25,769
that `kv_requests` has of the streams, `BlockInv` on all those that `structures` has of the
Block SSD.

Only model-checked: liveness under fairness (`EventuallyServed`, `EventuallyDrained`,
`AcceptedEnds`, `RequestAnswered`), which is out of the prover's reach, as is what a
recursive definition computes for every input (how few pages the packing uses,
`FewestPages`, and the walks along pointers in AlgoList and LruList), which needs an
induction over data. The half of `AssertsHold` that speaks of aborts, that values are readable with streams
(`StreamsReadable`), the invariants of LsmTree and SkipList and the refinements by
AlgoList and LruList are checked on small instances only.

## Notes per component

**Hot table.** The instance does not reach a rehash that has to look beyond its probing,
duplicates, a victim that is the page itself, or more pages to promote than
`COLD_LRU_PROMOTE_TOP_K`; the proofs cover them. `HotIsCurrent` fails in the code (see
"Findings") and has no theorem. `coldPressure` is subsumed by `lowUse` in the code's
conditions. Where the comments
disagree with the code, the code is modelled: a victim of state 2 counts as evicted from
the hot part, since the threshold of `demand.h:54` is `DEFAULT_STATE`, while the comment
above it says states 3 to 5 do; and the promotion window is 50 % where the comment
beside it says 5 %. `hot_valid_entries` over-counts after a rehash that met
duplicates.

**LSM tree.** `lsm_get` looks in the memtable and then goes to `end_req` whatever it found,
so it never searches the levels and no action reads them. `NewestIsHeld` is about the levels
themselves, and about how far `lsm_find_run` would get: it is modelled as an operator, and
ends at the first level on flash that has a run, without looking whether its page has the key
(`lsmtree.c:342-349`); it also returns there for keys that only the second level on flash
has, and `lsm_get` uses the result of `find_keyset` without testing it (`lsmtree.c:248-250`).
The property therefore says that the search gets to the level that holds the last version or
ends at a level on flash above it. `lsm_set` with `memtable->size == FLUSH_CHECK_NUM` returns without
`finish_q`. The compaction thread waits with `pthread_cond_wait` under an `if`. A change
of level is made in two halves, which the model keeps apart. Nothing is ever freed, so a
full partition ends in an abort. Not modelled: the towers of `skiplist_divide`.

**Block SSD.** A double free of `gc_bucket` (finding 7) counts as an abort. The head of the LRU is always a node of a cached page, so that `lru_pop_hot`
finds a victim. The flush ignores what the device answers. Where mapping pages
lie is abstracted to whether a page has a copy.

**Streams.** A GC writes to the stream its victim belongs to. Two conditions end a
behaviour (`early`, `stray`). `stray` is unlikely with the 73 superblocks of a real
partition, and with `MAX_WRITE_BUF` 256 each flush opens a page in every stream. A stream
that finds no superblock aborts though other streams may have garbage. `page_remain` and
`active_sblk_offset` are used by nobody.

**Driver.** Workers end after `usleep` of two seconds instead of waiting for their
counter. The scans of YCSB E name their keys with "%lu", the loads with `generate_key`,
which differ with `--variable_keylen`.

**Rings.** `free_entries` may exceed the capacity for a moment, between two reads of
counters that others move; what was reserved never does.

**Identical files.** The three trees share `rte_ring.h`, `algo_queue.c`, `request.c`,
`pqueue`, `d_htable`, `skiplist.c`, `fifo_queue` and `bloomfilter`, and `lower/ssd.c` but
for one constant; each is modelled once.

## Not modelled

- The NAND latency model (`ssd_advance_status`), statistics and logging: every client
  model lets requests resume in any order instead.
- The prefill path, which repeats the modelled operations with another exit.
- `pqueue`, `fifo_queue` and `bloomfilter`, which nobody uses; hash functions, which are
  opaque.
- `src/lsmtree_kvssd/dftl` and `src/lsmtree_kvssd/tools`, which the build leaves out.
- `test_blktrace.c`: it replays a trace; `IO_TYPE_TRIM` is not handled there.
- The other workload generators, option parsing and the scripts.

## Plan

Modelled as planned. Left for proofs, in this order: `StreamsReadable`, the levels of
LsmTree.
