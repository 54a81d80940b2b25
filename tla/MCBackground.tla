---- MODULE MCBackground ----
(***************************************************************************)
(* Two stores whose writes go on in the background, and the structures     *)
(* they keep their pages and keys in; a behaviour runs one of the parts,   *)
(* and the others stay in their initial state.                             *)
(*                                                                         *)
(*  "cmt"  MapCache with a cache of one mapping page, two readers and two  *)
(*         entries of a flush in flight                                    *)
(*  "lsm"  LsmTree, where a header holds two or three keys: with three     *)
(*         levels, two of them in memory, so that a level has up to three  *)
(*         runs and every kind of move between levels happens; and with    *)
(*         four, of which those in memory pass every table on at once, so  *)
(*         that both levels on flash fill up                               *)
(*  "lru"  LruList, the list of cached mapping pages, with three pages     *)
(*  "skip" SkipList, the write buffer of the hash tree, with four keys     *)
(***************************************************************************)
EXTENDS MapCache, TLC

CONSTANTS pg1, pg2, pg3,       \* mapping pages in the LRU
          n1, n2, n3,          \* nodes of the list
          NULL

VARIABLES part,
          memtable, apc, req, is_compacting, finished, cq, cpc, lnode, disk, m_num, moving, bm,
          store, invalid, latest,
          head, tail, size, next, prev, data, out, heat, marked,
          level, skSize, height, list, back, value, inserted

\* Two shapes, the numbers of runs in each level.  Half of the keys are set twice in the
\* first: with three flushes between, old versions lie two levels below the new one.
Lsm == INSTANCE LsmTree
    WITH Keys <- 1 .. 6, KeyLen <- <<1, 1, 2, 2, 2, 2>>, PageRoom <- 4, NumLimit <- 3,
         FlushCheckNum <- 2, LevelCaching <- 2, SizeFactor <- 2,
         CqSize <- 2, PagesPerSblk <- 4, LastMapSblk <- 5, LastSblk <- 10,
         MaxVer <- <<4, 4, 8>> :> <<2, 1, 1, 1, 2, 2>> @@ <<3, 2, 4, 8>> :> <<2, 1, 1, 1, 2, 1>>

Lru == INSTANCE LruList
    WITH Pages <- {pg1, pg2, pg3}, Nodes <- {n1, n2, n3}, MaxHeat <- 2, TopPct <- 50, MaxPick <- 2

Skip == INSTANCE SkipList
    WITH Keys <- 1 .. 4, Values <- {1, 2}, MaxLevel <- 3, size <- skSize, latest <- inserted

ASSUME Lsm!LsmTreeAssumption /\ Lru!LruListAssumption /\ Skip!SkipListAssumption

Symmetry == Permutations(Readers) \cup Permutations(Entries)

lsmVars == <<memtable, apc, req, is_compacting, finished, cq, cpc, lnode, disk, m_num, moving, bm,
             store, invalid, latest>>

lruVars == <<head, tail, size, next, prev, data, out, heat, marked>>
skipVars == <<level, skSize, height, list, back, value, inserted>>

\* The pages of the list are interchangeable and keep their heat: they are named in its order.
MCInit == /\ part \in {"cmt", "lsm", "lru", "skip"}
          /\ Init /\ Lsm!Init /\ Lru!Init /\ Skip!skiplist_init
          /\ IF part = "lru" THEN heat[pg1] <= heat[pg2] /\ heat[pg2] <= heat[pg3]
             ELSE marked = {} /\ heat = [p \in {pg1, pg2, pg3} |-> 0]
          /\ part = "lsm" \/ Len(m_num) = 3

MCNext == /\ \/ part = "cmt" /\ Next /\ UNCHANGED <<lsmVars, lruVars, skipVars>>
             \/ part = "lsm" /\ Lsm!Next /\ UNCHANGED <<vars, lruVars, skipVars>>
             \/ part = "lru" /\ Lru!Next /\ UNCHANGED <<vars, lsmVars, skipVars>>
             \/ part = "skip" /\ Skip!Next /\ UNCHANGED <<vars, lsmVars, lruVars>>
          /\ UNCHANGED part

MCSpec == MCInit /\ [][MCNext]_<<part, vars, lsmVars, lruVars, skipVars>>

-----------------------------------------------------------------------------
\* The memtable or the first level that has a key holds the version last set.
NewestIsHeld == Lsm!NewestIsHeld

\* No level and no header holds more than its room.
LevelsFit == Lsm!LevelsFit

\* The pages given up are exactly those that nothing names any more.
InvalidatedIsDead == Lsm!InvalidatedIsDead

\* The LRU list keeps the order of use: ImplementsOrder of LruList, and no other part touches
\* the list.
ImplementsOrder == Lru!Order!Init /\ [][part = "lru" /\ Lru!Order!Next]_(Lru!Order!vars)

\* The skip list is a sorted map.
IsMap == part = "skip" => Skip!IsMap
====
