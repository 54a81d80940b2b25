------------------------------ MODULE BlockMgr ------------------------------
(***************************************************************************)
(* The block manager hash_hot_cmt/dftl_bm.c for one partition, in the      *)
(* build without DATA_SEGREGATION.  Its operators take the state of the    *)
(* partition, a record b:                                                  *)
(*                                                                         *)
(*    b.wp[i]    pages handed out of superblock i          (wp_offt)       *)
(*    b.vcnt[i]  valid units counted in superblock i       (valid_cnt)     *)
(*    b.rsv      the superblock kept erased for GC         (sblk_rsv)      *)
(*    b.active   where the search for a free one stopped   (active_sblk)   *)
(*    b.free     the count of superblocks never opened     (free_sblk_cnt) *)
(*                                                                         *)
(* A unit is a grain in the DATA partition; in the MAP partition, where    *)
(* the grains of a page change together, it is a page.                     *)
(***************************************************************************)
EXTENDS Integers, FiniteSetsExt

CONSTANTS SSblk, ESblk,      \* first and last superblock (s_sblk, e_sblk)
          PagesPerSblk,      \* _PPS
          UnitsPerPage       \* GRAIN_PER_PAGE, or 1 for mapping pages

\* dftl_bm_init gives each partition its reserve and at least two others; with
\* one other, the first get_active_superblock already returns NULL.
ASSUME BlockMgrAssumption == /\ SSblk \in Nat /\ ESblk \in Nat
                             /\ ESblk >= SSblk + 2
                             /\ PagesPerSblk \in Nat \ {0}
                             /\ UnitsPerPage \in Nat \ {0}

Sblks == SSblk .. ESblk

NoSblk == -1          \* a NULL superblock pointer, and active_sblk = -1

Partition == [wp : [Sblks -> 0 .. PagesPerSblk],
              vcnt : [Sblks -> Nat],
              rsv : Sblks,
              active : Sblks \cup {NoSblk},
              free : 0 .. ESblk - SSblk + 1]

\* The count of free superblocks starts with the reserve in it.
dftl_bm_init == [wp     |-> [i \in Sblks |-> 0],
                 vcnt   |-> [i \in Sblks |-> 0],
                 rsv    |-> SSblk,
                 active |-> NoSblk,
                 free   |-> ESblk - SSblk + 1]

-----------------------------------------------------------------------------
check_full(b, i) == b.wp[i] >= PagesPerSblk

\* get_page_num: the offset handed out is b.wp[i], then the pointer advances.
get_page_num(b, i) == [b EXCEPT !.wp[i] = @ + 1]

(***************************************************************************)
(* get_active_superblock(false): the next usable superblock after the one  *)
(* of the last search, else the first one before it.  The very first       *)
(* search starts behind the lowest usable superblock.                      *)
(***************************************************************************)
Usable(b) == { i \in Sblks : i # b.rsv /\ ~check_full(b, i) }

NextUsable(b) ==
    LET start  == IF b.active # NoSblk THEN b.active ELSE Min(Usable(b))
        after  == { i \in Usable(b) : i > start }
        before == { i \in Usable(b) : i < start }
    IN  CASE after # {} -> Min(after)
          [] after = {} /\ before # {} -> Min(before)
          [] OTHER -> NoSblk

get_active_sblk(b) ==
    LET next == NextUsable(b)
    IN  [b EXCEPT !.active = next,
                  !.free = IF next # NoSblk /\ b.wp[next] = 0 THEN @ - 1 ELSE @]

isgc_never_needed(b) == b.free <= 0     \* mutant: the reserve counts as free

isgc_needed(b) == b.free <= 1

(***************************************************************************)
(* get_gc_target: the first full superblock, the reserve aside, with the   *)
(* fewest valid units.  NoSblk stands for its two abort()s: no full one,   *)
(* or nothing invalid in the best one.                                     *)
(***************************************************************************)
GcCandidates(b) == { i \in Sblks : i # b.rsv /\ check_full(b, i) }

FewestValid(b) ==
    LET best == { i \in GcCandidates(b) :
                    \A j \in GcCandidates(b) : b.vcnt[i] <= b.vcnt[j] }
    IN  Min(best)

get_gc_target(b) ==
    IF GcCandidates(b) # {}
       /\ b.vcnt[FewestValid(b)] < b.wp[FewestValid(b)] * UnitsPerPage
    THEN FewestValid(b)
    ELSE NoSblk

trim_keeps_count(b, i) == [b EXCEPT !.wp[i] = 0]   \* mutant: valid_cnt kept

\* The counters of trim_segment; the device and the oob are the caller's.
trim_segment(b, i) == [b EXCEPT !.wp[i] = 0, !.vcnt[i] = 0]

change_reserve(b, i) == [b EXCEPT !.rsv = i]

=============================================================================
