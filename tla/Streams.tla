------------------------------ MODULE Streams ------------------------------
(***************************************************************************)
(* Where values go in the build with DATA_SEGREGATION: _do_wb_assign_ppa,  *)
(* mapping_update and flush of dftl_wb.c, dp_alloc and the data GC of      *)
(* dftl_pg.c, and the streams and pools of dftl_bm.c, all inside the       *)
(* #ifdef.  Each stream writes to a superblock of its own; a page is       *)
(* filled grain by grain over several calls.  Values are of one grain, as  *)
(* in every workload, and the mapping table is taken without its cache.    *)
(*                                                                         *)
(* One thread runs everything, and a read changes nothing here (what       *)
(* flush_ppa and flush_page are for: they spare a read its latency).  Two  *)
(* keys do not share an lpa: probing would only change the stream.         *)
(*                                                                         *)
(* data is a record:                                                       *)
(*    wp, free, next    as in BlockMgr (next: active_sblk of the search)   *)
(*    owned, rsv, nrRsv, of   is_owned, is_rsv, rsv_sblk_cnt, stream_idx   *)
(*    active, page, remain    active_sblk, active_ppa, grain_remain        *)
(*    fl        the pages in fl_stream[], in order                         *)
(*    ppa       the local of that name in _do_bulk_write_valid_items       *)
(*    oob       the lpa in the oob of each valid grain; its domain are the *)
(*              valid grains                                               *)
(*    dev       the pages of each superblock the device has programmed     *)
(*    table     the grain each lpa is mapped to                            *)
(*    fate      "full": GC found nothing to reclaim and aborted; "failed": *)
(*              any other abort() or failed assertion                      *)
(*    early, stray   history: GC collected grains of the flush that called *)
(*              it; GC wrote to another stream that was in use             *)
(*    unwritten      history: valid grains that no write has carried       *)
(***************************************************************************)
EXTENDS Integers, FiniteSetsExt, SequencesExt

CONSTANTS NrStreams,         \* MAX_GC_STREAM
          SSblk, ESblk,      \* the DATA partition, part[1]
          PagesPerSblk,      \* _PPS
          GrainsPerPage,     \* GRAIN_PER_PAGE
          EntriesPerPage,    \* EPP
          NrLpas,            \* lpas the workload uses
          MaxWriteBuf,       \* MAX_WRITE_BUF
          MaxFlushes         \* bound: how often the write buffer is flushed

StreamsAssumption ==
    /\ NrStreams \in Nat \ {0} /\ SSblk \in Nat \ {0} /\ ESblk \in Nat
    /\ ESblk - SSblk >= 2 * NrStreams + 1
    /\ PagesPerSblk \in Nat \ {0} /\ GrainsPerPage \in Nat \ {0}
    /\ EntriesPerPage \in Nat \ {0} /\ NrLpas \in Nat \ {0} /\ MaxWriteBuf \in 1 .. NrLpas
    /\ MaxFlushes \in Nat
    /\ MaxWriteBuf > NrStreams * (GrainsPerPage - 1)      \* each flush opens a page: any_dirty

VARIABLES data,      \* see above
          flushes,   \* flushes begun
          entry      \* each lpa's entry of the write buffer: its state, and its grain

streamVars == <<data, flushes, entry>>

AllStreams == 0 .. NrStreams - 1
Lpas == 0 .. NrLpas - 1
Sblks == SSblk .. ESblk
NoSblk == -1
Page0 == <<0, 0>>            \* of the MAP partition
NoGrain == <<NoSblk, 0, 0>>
Out == [at |-> "out", grain |-> NoGrain]

StreamOf(l) == (l \div EntriesPerPage) % NrStreams

check_full(d, i) == d.wp[i] >= PagesPerSblk

valid_cnt(d, i) == Cardinality({ g \in DOMAIN d.oob : g[1] = i })

-----------------------------------------------------------------------------
(***************************************************************************)
(* dftl_bm.c.  The search takes a superblock of neither pool, after the    *)
(* last one found or else before it.                                       *)
(***************************************************************************)
Unused(d) == { i \in Sblks \ (d.owned \cup d.rsv) : ~check_full(d, i) }

SearchStart(d) == IF d.next # NoSblk THEN d.next
                  ELSE Min({ i \in Sblks \ {SSblk} : ~check_full(d, i) })

AfterElseBefore(start, unused) ==
    IF \E i \in unused : i > start THEN { i \in unused : i > start } ELSE unused \ {start}

Found(d, choice) ==
    IF choice = {} THEN [d EXCEPT !.next = NoSblk, !.fate = "failed"]
    ELSE [d EXCEPT !.next = Min(choice), !.free = IF d.wp[Min(choice)] = 0 THEN @ - 1 ELSE @]

get_active_superblock(d) == Found(d, AfterElseBefore(SearchStart(d), Unused(d)))

\* Stream k takes the superblock just found.
Own(d, k) ==
    IF d.fate # "runs" THEN d
    ELSE [d EXCEPT !.owned = @ \cup {d.next}, !.of[d.next] = k, !.active[k] = d.next,
                   !.page[k] = <<d.next, d.wp[d.next]>>, !.remain[k] = 0]

Switches(d, k) == \/ check_full(d, d.active[k])
                  \/ d.active[k] \notin d.owned \/ d.of[d.active[k]] # k

switch_keeps_old(d, k) ==              \* mutant: the full superblock stays owned
    IF Switches(d, k) THEN Own(get_active_superblock(d), k) ELSE d

get_stream_superblock(d, k) ==
    IF Switches(d, k) THEN Own(get_active_superblock([d EXCEPT !.owned = @ \ {d.active[k]}]), k)
    ELSE d

isgc_needed(d) == d.free <= NrStreams + 1

\* get_gc_target: the first of the full superblocks of stream k with the fewest valid
\* grains; of all full ones when k has none.  An owned one is never full for long.
Full(d) == { i \in Sblks \ (d.owned \cup d.rsv) : check_full(d, i) }

Candidates(d, k) == IF \E i \in Full(d) : d.of[i] = k THEN { i \in Full(d) : d.of[i] = k }
                    ELSE Full(d)

FewestValid(d, S) == { i \in S : /\ \A j \in S : valid_cnt(d, i) <= valid_cnt(d, j)
                                 /\ valid_cnt(d, i) < d.wp[i] * GrainsPerPage }

GcTargets(d, k) == FewestValid(d, Candidates(d, k))

\* dftl_bm_init: a reserve for each stream, then an active superblock for each.
Reserved(new) == [new EXCEPT !.rsv = @ \cup {new.next}, !.nrRsv = @ + 1]

blank == [wp |-> [i \in Sblks |-> 0], free |-> ESblk - SSblk + 1, next |-> NoSblk,
          owned |-> {}, rsv |-> {}, nrRsv |-> 0, of |-> [i \in Sblks |-> -1],
          active |-> [k \in AllStreams |-> NoSblk], page |-> [k \in AllStreams |-> Page0],
          remain |-> [k \in AllStreams |-> 0], fl |-> [k \in AllStreams |-> <<>>],
          ppa |-> Page0, oob |-> <<>>, dev |-> [i \in Sblks |-> 0],
          table |-> [l \in Lpas |-> NoGrain], fate |-> "runs",
          early |-> FALSE, stray |-> FALSE, unwritten |-> {}]

dftl_bm_init ==
    LET after[n \in 0 .. 2 * NrStreams] ==
            IF n = 0 THEN blank
            ELSE IF n <= NrStreams THEN Reserved(get_active_superblock(after[n - 1]))
            ELSE Own(get_active_superblock(after[n - 1]), n - NrStreams - 1)
    IN  after[2 * NrStreams]

SegInit == data = dftl_bm_init /\ flushes = 0 /\ entry = [l \in Lpas |-> Out]

-----------------------------------------------------------------------------
(***************************************************************************)
(* The steps both writers share: a page of the stream's superblock, the    *)
(* next grain of a page, a write of one page.                              *)
(***************************************************************************)
TakePage(d, k) ==
    IF d.fate # "runs" THEN d
    ELSE [d EXCEPT !.page[k] = <<d.active[k], d.wp[d.active[k]]>>, !.wp[d.active[k]] = @ + 1,
                   !.remain[k] = GrainsPerPage]

NextGrain(d, k, p) == <<p[1], p[2], GrainsPerPage - d.remain[k]>>

PutGrain(d, k, g, l) ==
    [d EXCEPT !.remain[k] = @ - 1,
              !.oob = [h \in DOMAIN @ \cup {g} |-> IF h = g THEN l ELSE @[h]],
              !.unwritten = @ \cup {g}, !.fate = IF g \in DOMAIN d.oob THEN "failed" ELSE @]

Program(d, p) ==
    IF d.dev[p[1]] # p[2] THEN [d EXCEPT !.fate = "failed"]
    ELSE [d EXCEPT !.dev[p[1]] = @ + 1, !.unwritten = { g \in @ : <<g[1], g[2]>> # p }]

WriteAll(d, pages) ==
    LET after[i \in 0 .. Len(pages)] == IF i = 0 THEN d ELSE Program(after[i - 1], pages[i])
    IN  after[Len(pages)]

(***************************************************************************)
(* dpage_gc_dvalue.  The valid grains of the target are invalidated and    *)
(* written, in their order, to the stream the target belongs to, whoever   *)
(* called.  A page is opened when that stream has no grain left; ppa stays *)
(* 0 until the first one.  Then the mapping is updated, the pages are      *)
(* written, and the target is trimmed and goes back to a pool.             *)
(***************************************************************************)
\* The grains of superblock v by number, and the valid ones of them.
GrainAt(v, i) == <<v, (i - 1) \div GrainsPerPage, (i - 1) % GrainsPerPage>>

Moved(d, v) == { g \in DOMAIN d.oob : g[1] = v }

\* s.d is the record, s.new the pages opened so far.
Opened(s, t, k) == IF t.fate # "runs" THEN [s EXCEPT !.d = t]
                   ELSE [d |-> [t EXCEPT !.ppa = t.page[k]], new |-> Append(s.new, t.page[k])]

gc_dp_alloc(s, k) ==
    IF s.d.remain[k] > 0 \/ s.d.fate # "runs" THEN s
    ELSE Opened(s, TakePage(get_stream_superblock(s.d, k), k), k)

PlacedUnmapped(d, g, l) == d             \* mutant: the mapping keeps the old grain
PlacedAt(d, g, l) == [d EXCEPT !.table[l] = g]

MoveOne(s, k, l) ==
    IF s.d.fate # "runs" THEN s
    ELSE [s EXCEPT !.d = PlacedAt(PutGrain(@, k, NextGrain(@, k, @.ppa), l),
                                  NextGrain(@, k, @.ppa), l)]

Trimmed(d, v) ==
    [d EXCEPT !.wp[v] = 0, !.dev[v] = 0, !.of[v] = -1,
              !.rsv = IF d.nrRsv < NrStreams THEN @ \cup {v} ELSE @,
              !.nrRsv = IF d.nrRsv < NrStreams THEN @ + 1 ELSE @,
              !.free = IF d.nrRsv < NrStreams THEN @ ELSE @ + 1]

InFlush(v) == \E l \in Lpas : entry[l].grain[1] = v

\* The grains moved are taken out first; t is the stream that gets them.
TakenOut(d, k, t, v) ==
    [d EXCEPT !.ppa = Page0,
              !.oob = [g \in DOMAIN d.oob \ Moved(d, v) |-> d.oob[g]],
              !.unwritten = @ \ Moved(d, v),
              !.early = @ \/ InFlush(v),
              !.stray = @ \/ /\ Moved(d, v) # {} /\ t # k
                             /\ d.remain[t] > 0 \/ d.fl[t] # <<>>]

\* oob is the one from before.
Rewrite(s, t, g, oob) == IF g \in DOMAIN oob THEN MoveOne(gc_dp_alloc(s, t), t, oob[g]) ELSE s

Rewritten(d, t, v, oob) ==
    LET after[i \in 0 .. PagesPerSblk * GrainsPerPage] ==
            IF i = 0 THEN [d |-> d, new |-> <<>>]
            ELSE Rewrite(after[i - 1], t, GrainAt(v, i), oob)
    IN  after[PagesPerSblk * GrainsPerPage]

WrittenOut(s) == WriteAll(s.d, s.new)

Collect(d, k, v) ==
    Trimmed(WrittenOut(Rewritten(TakenOut(d, k, d.of[v], v), d.of[v], v, d.oob)), v)

CollectFrom(d, k, targets) ==
    IF targets = {} THEN [d EXCEPT !.fate = "full"] ELSE Collect(d, k, Min(targets))

dpage_gc_dvalue(d, k) == CollectFrom(d, k, GcTargets(d, k))

BeforeAlloc(d, k) ==
    IF check_full(d, d.active[k]) /\ isgc_needed(d) THEN dpage_gc_dvalue(d, k) ELSE d

OnStream(d, k) == IF d.fate = "runs" THEN TakePage(get_stream_superblock(d, k), k) ELSE d

dp_alloc(d, k) == OnStream(BeforeAlloc(d, k), k)

-----------------------------------------------------------------------------
\* Bound: what follows once GC was early or stray is not explored.
Runs == data.fate = "runs" /\ ~data.early /\ ~data.stray

Entries == { l \in Lpas : entry[l].at # "out" }

\* A request finds the write buffer full, of the lpas B.
FlushStart(B) ==
    /\ Runs /\ Entries = {} /\ flushes < MaxFlushes
    /\ flushes' = flushes + 1
    /\ entry' = [l \in Lpas |-> IF l \in B THEN [Out EXCEPT !.at = "buffer"] ELSE Out]
    /\ UNCHANGED data

\* Only an entry that opens a page enters it in the list of its stream.
Listed(d, k) == IF d.fate = "runs" THEN [d EXCEPT !.fl[k] = Append(@, d.page[k])] ELSE d

WithRoom(k) == IF data.remain[k] > 0 THEN data ELSE Listed(dp_alloc(data, k), k)

\* One entry in _do_wb_assign_ppa; keys are hashed, so their order says nothing of lpas.
Assign(l) ==
    /\ Runs /\ entry[l].at = "buffer"
    /\ \E k \in {StreamOf(l)} : \E d \in {WithRoom(k)} : \E g \in {NextGrain(d, k, d.page[k])} :
          IF d.fate = "runs"
          THEN /\ data' = PutGrain(d, k, g, l)
               /\ entry' = [entry EXCEPT ![l] = [at |-> "placed", grain |-> g]]
          ELSE data' = d /\ UNCHANGED entry
    /\ UNCHANGED flushes

\* The mapping updates: they park and resume in any order, each is of another lpa.
MappingUpdate ==
    /\ Runs /\ Entries # {} /\ \A l \in Entries : entry[l].at = "placed"
    /\ LET old == { data.table[l] : l \in Entries } \ {NoGrain}
       IN  data' = [data EXCEPT
               !.table = [l \in Lpas |-> IF l \in Entries THEN entry[l].grain ELSE @[l]],
               !.oob = [g \in DOMAIN @ \ old |-> @[g]],
               !.unwritten = @ \ old,
               !.fate = IF old \subseteq DOMAIN data.oob THEN @ ELSE "failed"]
    /\ entry' = [l \in Lpas |-> IF l \in Entries THEN [entry[l] EXCEPT !.at = "mapped"] ELSE Out]
    /\ UNCHANGED flushes

\* The lists of the streams one after the other.
FlushPages ==
    LET upTo[k \in 0 .. NrStreams] == IF k = 0 THEN <<>> ELSE upTo[k - 1] \o data.fl[k - 1]
    IN  upTo[NrStreams]

Flush ==
    /\ Runs /\ Entries # {} /\ \A l \in Entries : entry[l].at = "mapped"
    /\ data' = [WriteAll(data, FlushPages) EXCEPT !.fl = [k \in AllStreams |-> <<>>]]
    /\ entry' = [l \in Lpas |-> Out]
    /\ UNCHANGED flushes

SegNext == \/ \E B \in kSubset(MaxWriteBuf, Lpas) : FlushStart(B)
           \/ \E l \in Lpas : Assign(l)
           \/ MappingUpdate \/ Flush

SegSpec == SegInit /\ [][SegNext]_streamVars

-----------------------------------------------------------------------------
(***************************************************************************)
(* The pools of the block manager through switches and GC: every stream    *)
(* writes to a superblock it owns and no other does, the pools are         *)
(* disjoint, the reserve keeps one superblock for each stream, a           *)
(* superblock in no pool is erased or full, and free_sblk_cnt, which       *)
(* decides about GC, is the number of the erased ones.                     *)
(***************************************************************************)
PoolsSound ==
    data.fate = "runs" =>
        /\ \A k \in AllStreams : data.active[k] \in data.owned /\ data.of[data.active[k]] = k
        /\ Cardinality(data.owned) = NrStreams
        /\ data.owned \cap data.rsv = {}
        /\ Cardinality(data.rsv) = NrStreams /\ data.nrRsv = NrStreams
        /\ LET rest == Sblks \ (data.owned \cup data.rsv)
           IN  /\ \A i \in rest : data.wp[i] \in {0, PagesPerSblk}
               /\ data.free = Cardinality({ i \in rest : data.wp[i] = 0 })
        /\ \A g \in DOMAIN data.oob : g[1] \in Sblks => g[2] < data.wp[g[1]]

(***************************************************************************)
(* Between flushes each mapped value is where the table says, on a grain   *)
(* of its own with its lpa in the oob, in a programmed page; and nothing   *)
(* is refused by the device or aborts on the way.  All of this unless GC   *)
(* was early or stray.                                                     *)
(***************************************************************************)
StreamsReadable ==
    ~data.early /\ ~data.stray =>
        /\ data.fate # "failed"
        /\ Runs /\ Entries = {} =>
              LET mapped == { l \in Lpas : data.table[l] # NoGrain }
              IN  /\ DOMAIN data.oob = { data.table[l] : l \in mapped }
                  /\ \A l \in mapped : LET g == data.table[l]
                                       IN  data.oob[g] = l /\ g[2] < data.dev[g[1]]

(***************************************************************************)
(* The comment of _do_wb_assign_ppa has every entry end up in the list of  *)
(* its stream, which flush writes: afterwards no value has still to be     *)
(* written.                                                                *)
(***************************************************************************)
FlushWritesAll == Runs /\ Entries = {} => data.unwritten = {}

=============================================================================
