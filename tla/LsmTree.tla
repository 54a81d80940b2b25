------------------------------- MODULE LsmTree -------------------------------
(***************************************************************************)
(* The write path of the LSM-tree store: algo_thread executes lsm_set, and *)
(* the compaction thread executes compaction_main.  A set that finds the   *)
(* memtable full cuts a header's worth off it, hands the cut table to the  *)
(* compaction thread and waits; the compaction thread writes the values,   *)
(* merges the table into level 0 and full levels into the next one, and    *)
(* lets the set go on.                                                     *)
(*                                                                         *)
(* A value is known by its version, a count of the sets of its key.        *)
(* Latencies, counters of the report and the bytes themselves are left     *)
(* out; so is the value packing for values smaller than a page, which no   *)
(* workload has.                                                           *)
(***************************************************************************)
EXTENDS Integers, FiniteSets, SequencesExt

CONSTANTS Keys,            \* the keys, numbers in the order of KEYCMP
          KeyLen,          \* KEYLEN
          PageRoom,        \* PAGESIZE - KEYBITMAP
          NumLimit,        \* entries a header can point at
          FlushCheckNum,   \* FLUSH_CHECK_NUM
          LevelCaching,    \* how many levels stay in memory
          SizeFactor,      \* llp.size_factor
          CqSize,          \* CQSIZE
          PagesPerSblk, LastMapSblk, LastSblk,
          MaxVer           \* bound, for a tree of each shape: how often a key is set

INSTANCE LevelArray
INSTANCE LsmPages

\* Below FLUSH_CHECK_NUM keys a memtable never fills a header, and what is left of it when
\* a header is cut off does not either.
LsmTreeAssumption ==
    /\ Keys \subseteq Nat /\ \A k \in Keys : KeyLen[k] * FlushCheckNum <= PageRoom
    /\ FlushCheckNum >= 2 /\ NumLimit >= FlushCheckNum
    /\ \A shape \in DOMAIN MaxVer : Len(shape) > LevelCaching
    /\ LevelCaching >= 1 /\ SizeFactor >= 2 /\ LsmPagesAssumption

VARIABLES
  memtable,        \* LSM.memtable: version of each key that is in it
  apc, req,        \* where algo_thread is in lsm_set, and with which key
  is_compacting,   \* req->is_compacting
  finished,        \* how many requests were put on finish_q
  cq,              \* the compaction queue: the cut tables
  cpc,             \* where the compaction thread is
  lnode,           \* the table it has written, as a level of one run
  disk,            \* the levels
  m_num,           \* disk[i]->m_num of each level: the runs it can hold
  moving,          \* between the two halves of level_change: the new level, and its index
  bm,              \* block manager
  store,           \* version that each DATA page was written with
  invalid,         \* the pages whose oob says isvalid
  latest           \* history: the version last set of each key

vars == <<memtable, apc, req, is_compacting, finished, cq, cpc, lnode, disk, m_num, moving, bm,
          store, invalid, latest>>

LevelN == Len(m_num)
Levels == 0 .. LevelN - 1
MNum(i) == m_num[i + 1]
NoKey == 0
Nowhere == [to |-> 0, runs |-> <<>>]

Init ==                                                   \* lsm_create
    /\ memtable = << >> /\ apc = "idle" /\ req = NoKey /\ is_compacting = FALSE
    /\ finished = 0 /\ cq = <<>> /\ cpc = "idle" /\ lnode = <<>>
    /\ m_num \in DOMAIN MaxVer /\ disk = [i \in Levels |-> <<>>] /\ moving = Nowhere
    /\ bm = lsm_page_init /\ store = << >> /\ invalid = {}
    /\ latest = [k \in Keys |-> 0]

-----------------------------------------------------------------------------
(***************************************************************************)
(* algo_thread                                                             *)
(***************************************************************************)
KeysOf(table) == SetToSortSeq(DOMAIN table, LAMBDA i, j : i < j)
Length(table) == FoldLeft(LAMBDA n, k : n + KeyLen[k], 0, KeysOf(table))
Without(table, K) == [k \in DOMAIN table \ K |-> table[k]]
With(table, k, v) == [j \in DOMAIN table \cup {k} |-> IF j = k THEN v ELSE table[j]]

\* skiplist_cutting_header returns the list itself.
Uncut(table) == Length(table) < PageRoom /\ Cardinality(DOMAIN table) < NumLimit

\* The keys it cuts off: in order, until the next one would fill the page.
FirstKeys(table, n) == ToSet(SubSeq(KeysOf(table), 1, n))

StopsLate(table, n) ==                \* mutant: the key that fills the page is taken too
    n >= NumLimit \/ n = Cardinality(DOMAIN table) \/ Length([k \in FirstKeys(table, n) |-> 0]) >= PageRoom

StopsAt(table, n) ==
    \/ n >= NumLimit \/ n = Cardinality(DOMAIN table)
    \/ Length([k \in FirstKeys(table, n + 1) |-> 0]) >= PageRoom

CutKeys(table) ==
    FirstKeys(table, CHOOSE n \in 1 .. Cardinality(DOMAIN table) :
                         StopsAt(table, n) /\ \A m \in 1 .. n - 1 : ~StopsAt(table, m))

\* compaction_check
CompactionNeeded == Cardinality(DOMAIN memtable) >= FlushCheckNum /\ ~Uncut(memtable)

\* skiplist_insert, and the rest of lsm_set: with exactly FLUSH_CHECK_NUM keys in the
\* memtable the request is not put on finish_q.
InsertAndAnswer(k) ==
    /\ latest' = [latest EXCEPT ![k] = @ + 1]
    /\ memtable' = With(memtable, k, latest'[k])
    /\ finished' = IF Cardinality(DOMAIN memtable') = FlushCheckNum THEN finished ELSE finished + 1
    /\ req' = NoKey /\ apc' = "idle"

\* A set that needs no compaction.
SetInserts(k) ==
    /\ apc = "idle" /\ latest[k] < MaxVer[m_num][k] /\ ~CompactionNeeded
    /\ InsertAndAnswer(k)
    /\ UNCHANGED <<is_compacting, cq, cpc, lnode, disk, moving, bm, store, invalid>>

SetCompacts(k) ==
    /\ apc = "idle" /\ latest[k] < MaxVer[m_num][k] /\ CompactionNeeded
    /\ req' = k /\ apc' = "cut"
    /\ UNCHANGED <<memtable, is_compacting, finished, cq, cpc, lnode, disk, moving, bm, store,
                   invalid, latest>>

\* compaction_check's loop: cut, compaction_assign; once more while what is left is too much.
CutTable ==
    /\ apc = "cut" /\ Len(cq) < CqSize
    /\ LET cut == CutKeys(memtable)
       IN  /\ cq' = Append(cq, Without(memtable, DOMAIN memtable \ cut))
           /\ memtable' = Without(memtable, cut)
    /\ is_compacting' = TRUE
    /\ apc' = IF Uncut(memtable') THEN "set" ELSE "cut"
    /\ UNCHANGED <<req, finished, cpc, lnode, disk, moving, bm, store, invalid, latest>>

\* lsm_set sets req->is_compacting itself, once more.
SetCompacting ==
    /\ apc = "set"
    /\ is_compacting' = TRUE /\ apc' = "wait"
    /\ UNCHANGED <<memtable, req, finished, cq, cpc, lnode, disk, moving, bm, store, invalid, latest>>

\* The loop on req->is_compacting ends.
SetGoesOn ==
    /\ apc = "wait" /\ ~is_compacting
    /\ InsertAndAnswer(req)
    /\ UNCHANGED <<is_compacting, cq, cpc, lnode, disk, moving, bm, store, invalid>>

-----------------------------------------------------------------------------
(***************************************************************************)
(* The compaction thread                                                   *)
(***************************************************************************)
\* q_pick; then compaction_data_write: every value goes to a DATA page of its own, in the
\* order of the keys.
PickAndWrite ==
    /\ cpc = "idle" /\ cq # <<>>
    /\ LET ks == KeysOf(Head(cq))
           new == GetPages(bm, "DATA", Len(ks))
       IN  /\ lnode' = <<[page |-> [i \in DOMAIN ks |-> [key |-> ks[i], ppa |-> new.ppas[i]]],
                          pbn |-> NoPpa]>>
           /\ bm' = new.bm
           /\ store' = [p \in DOMAIN store \cup ToSet(new.ppas) |->
                            IF p \in DOMAIN store THEN store[p]
                            ELSE Head(cq)[ks[CHOOSE i \in DOMAIN ks : new.ppas[i] = p]]]
    /\ cpc' = "flush"
    /\ UNCHANGED <<memtable, apc, req, is_compacting, finished, cq, disk, moving, invalid, latest>>

\* def_full_chk
def_full_chk(i) ==
    LET n == Len(disk[i])
        share == (MNum(i) \div SizeFactor) * (SizeFactor - 1)
    IN  n >= IF i = 0 THEN MNum(0) - 2
             ELSE IF i >= LevelCaching /\ MNum(i) >= 100 THEN (share * 95) \div 100 ELSE share

\* The runs of a flash level, each with a MAP page; a run that has one keeps it.
OnFlash(runs, ppas) == [i \in DOMAIN runs |-> [runs[i] EXCEPT !.pbn = ppas[i]]]

\* compaction_empty_level: the runs go to the next level as they are, and to flash when
\* that level is not in memory and they were.
MoveRuns(runs, cached, to) ==
    LET new == GetPages(bm, "MAP", Len(runs))
    IN  IF to >= LevelCaching /\ cached THEN [runs |-> OnFlash(runs, new.ppas), bm |-> new.bm, dead |-> {}]
        ELSE [runs |-> runs, bm |-> bm, dead |-> {}]

\* partial_leveling, compaction_subprocessing: every run of both is merged and cut again.
MergeRuns(runs, to) ==
    LET merged == array_pipe_merger(Stream(runs), Stream(disk[to]))
        pages == Cutter(merged.out)
        cut == [i \in DOMAIN pages |-> [page |-> pages[i], pbn |-> NoPpa]]
        new == GetPages(bm, "MAP", Len(pages))
    IN  IF to >= LevelCaching THEN [runs |-> OnFlash(cut, new.ppas), bm |-> new.bm, dead |-> merged.dead]
        ELSE [runs |-> cut, bm |-> bm, dead |-> merged.dead]

\* leveling, up to the middle of level_change: the upper level, if it is one, is replaced
\* by an empty one; the lower one is still the old one.
leveling(runs, cached, to) ==
    LET new == IF disk[to] = <<>> THEN MoveRuns(runs, cached, to) ELSE MergeRuns(runs, to)
    IN  /\ moving' = [to |-> to, runs |-> new.runs]
        /\ bm' = new.bm
        /\ invalid' = invalid \cup new.dead               \* invalidate_PPA
        /\ cpc' = "publish"
        /\ UNCHANGED <<memtable, apc, req, is_compacting, finished, cq, store, latest>>

Flush ==
    /\ cpc = "flush"
    /\ leveling(lnode, TRUE, 0)
    /\ lnode' = <<>>
    /\ UNCHANGED disk

\* compaction_cascading: from level 0 on, while the level just written is full and is not
\* the last one.
Full(i) == def_full_chk(i) /\ i + 1 < LevelN

Cascade(i) ==
    /\ cpc = "cascade" /\ moving.to = i /\ Full(i)
    /\ leveling(disk[i], i < LevelCaching, i + 1)
    /\ disk' = [disk EXCEPT ![i] = <<>>]
    /\ UNCHANGED lnode

\* The other half of level_change.
Publish ==
    /\ cpc = "publish"
    /\ disk' = [disk EXCEPT ![moving.to] = moving.runs]
    /\ moving' = [moving EXCEPT !.runs = <<>>]
    /\ cpc' = "cascade"
    /\ UNCHANGED <<memtable, apc, req, is_compacting, finished, cq, lnode, bm, store, invalid, latest>>

\* The end of compaction_main's loop: the set may go on, then q_dequeue.
Release ==
    /\ cpc = "cascade" /\ ~Full(moving.to)
    /\ is_compacting' = FALSE /\ cpc' = "dequeue" /\ moving' = Nowhere
    /\ UNCHANGED <<memtable, apc, req, finished, cq, lnode, disk, bm, store, invalid, latest>>

Dequeue ==
    /\ cpc = "dequeue"
    /\ cq' = Tail(cq) /\ cpc' = "idle"
    /\ UNCHANGED <<memtable, apc, req, is_compacting, finished, lnode, disk, moving, bm, store,
                   invalid, latest>>

lsm_set == (CutTable \/ SetCompacting \/ SetGoesOn) /\ UNCHANGED m_num

algo_thread == ((\E k \in Keys : SetInserts(k) \/ SetCompacts(k)) /\ UNCHANGED m_num) \/ lsm_set

compaction_main == /\ \/ PickAndWrite \/ Flush \/ Publish \/ Release \/ Dequeue
                      \/ \E i \in Levels : Cascade(i)
                   /\ UNCHANGED m_num

Next == algo_thread \/ compaction_main

Spec == /\ Init /\ [][Next]_vars
        /\ WF_vars(lsm_set) /\ WF_vars(compaction_main)

-----------------------------------------------------------------------------
\* What level i holds for a key: the run of array_find_run, and in its page
\* array_find_keyset.
Found(i, k) == IF disk[i] = <<>> THEN {}
               ELSE array_find_keyset(disk[i][array_find_run(disk[i], k) + 1].page, k)

\* The level at which lsm_find_run ends, from level 0 down: one in memory that has the key,
\* or the first one on flash that has a run, whatever is in it; LevelN for NOTFOUND.
EndsAt(i, k) == disk[i] # <<>> /\ (i < LevelCaching => Found(i, k) # {})

lsm_find_run(k) == Min({LevelN} \cup { i \in Levels : EndsAt(i, k) })

\* Whenever algo_thread takes up a request, the memtable or else the first level that has
\* the key at all holds its last version: no table is lost, overtaken or half-way between
\* two levels while a request can be served.  lsm_find_run gets to that level, unless
\* it ends at one on flash above it.
Holds(i, k) == /\ \E e \in Found(i, k) : store[e.ppa] = latest[k]
               /\ \A j \in 0 .. i - 1 : Found(j, k) = {}

NewestIsHeld ==
    apc = "idle" => \A k \in Keys :
        latest[k] # 0 =>
            IF k \in DOMAIN memtable THEN memtable[k] = latest[k]
            ELSE \E i \in Levels : /\ Holds(i, k)
                                   /\ lsm_find_run(k) = i \/ lsm_find_run(k) \in LevelCaching .. i - 1

\* array_insert never aborts with "level full!!!!", no header is written past its page, the
\* runs of a level are in order and apart, every run of a flash level has its own MAP page,
\* and the partitions do not run out within the bound on the sets.
FitsLevel(i, runs) ==
    /\ Len(runs) <= MNum(i) /\ Sorted(runs) /\ PagesFit(runs)
    /\ i >= LevelCaching => \A m, n \in DOMAIN runs : runs[m].pbn # NoPpa /\ (runs[m].pbn = runs[n].pbn => m = n)

LevelsFit == /\ \A i \in Levels : FitsLevel(i, disk[i])
             /\ FitsLevel(moving.to, moving.runs) /\ PagesFit(lnode) /\ ~bm.aborted

\* A DATA page is marked by invalidate_PPA exactly when no run names it any more: the merge
\* misses no replaced entry, and gives up none that is still needed.
Named == LET levels == { disk[i] : i \in IF cpc = "publish" THEN Levels \ {moving.to} ELSE Levels }
         IN  { e.ppa : e \in UNION { ToSet(Stream(runs)) : runs \in levels \cup {lnode, moving.runs} } }

InvalidatedIsDead == invalid = DOMAIN store \ Named

\* A set that waits for its compaction goes on.
SetResumes == apc = "wait" ~> apc # "wait"
=============================================================================
