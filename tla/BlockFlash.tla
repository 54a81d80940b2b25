----------------------------- MODULE BlockFlash -----------------------------
(***************************************************************************)
(* Where the Block SSD keeps values: dp_alloc and dpage_gc_dvalue of       *)
(* block_ssd/dftl_block/dftl_pg.c over the block manager of the same tree. *)
(* A page holds one value (GRAIN_PER_PAGE is 1), so a grain address is a   *)
(* page: the pair of a superblock and an offset.                           *)
(*                                                                         *)
(* The operators take the record f of the DATA partition:                  *)
(*    f.wp, f.free, f.rsv, f.next  as in BlockMgr (next: active_sblk)      *)
(*    f.lpa      the lpa in the oob of each valid page; its domain are the *)
(*               valid pages (no other oob is ever read)                   *)
(*    f.active   d_active                                                  *)
(*    f.dev      the pages of each superblock the device has programmed    *)
(*    f.newest   the page that really holds the newest flushed value of    *)
(*               each lpa (history)                                        *)
(*    f.moved    where the last dp_alloc moved the value of an lpa, for     *)
(*               each lpa it found in the oob of a value it moved          *)
(*    f.freed    gc_bucket points at memory that a GC freed                *)
(*    f.refused  the device refused a write; nobody looks at its answer    *)
(*    f.fault    an abort(), a NULL pointer or a failed ftl_assert         *)
(***************************************************************************)
EXTENDS Integers, FiniteSetsExt, SequencesExt

CONSTANTS SSblk, ESblk,      \* the DATA partition, part[1] of dftl_bm_init
          PagesPerSblk,      \* _PPS
          NrLpas             \* lpas the workload uses

BlockFlashAssumption == /\ SSblk \in Nat /\ ESblk \in Nat /\ ESblk >= SSblk + 2
                        /\ PagesPerSblk \in Nat \ {0} /\ NrLpas \in Nat \ {0}

Lpas == 0 .. NrLpas - 1
Sblks == SSblk .. ESblk
Pages == Sblks \X (0 .. PagesPerSblk - 1)
NoSblk == -1
NoPage == <<NoSblk, 0>>       \* UINT32_MAX

Flash == [wp : [Sblks -> 0 .. PagesPerSblk], free : 0 .. ESblk - SSblk + 1,
          rsv : Sblks, next : Sblks \cup {NoSblk}, active : Sblks \cup {NoSblk},
          lpa : UNION { [P -> Lpas] : P \in SUBSET Pages },
          dev : [Sblks -> 0 .. PagesPerSblk],
          newest : [Lpas -> Pages \cup {NoPage}],
          moved : UNION { [L -> Pages] : L \in SUBSET Lpas }, freed : BOOLEAN,
          refused : BOOLEAN, fault : BOOLEAN]

dftl_bm_init == [wp |-> [i \in Sblks |-> 0], free |-> ESblk - SSblk + 1,
                 rsv |-> SSblk, next |-> NoSblk, active |-> NoSblk, lpa |-> <<>>,
                 dev |-> [i \in Sblks |-> 0], newest |-> [l \in Lpas |-> NoPage],
                 moved |-> <<>>, freed |-> FALSE, refused |-> FALSE, fault |-> FALSE]

-----------------------------------------------------------------------------
Valid(f) == DOMAIN f.lpa

validate(f, p, l) ==
    [f EXCEPT !.lpa = [q \in Valid(f) \cup {p} |-> IF q = p THEN l ELSE f.lpa[q]],
              !.fault = @ \/ p \in Valid(f)]

invalidate(f, p) == [f EXCEPT !.lpa = [q \in Valid(f) \ {p} |-> f.lpa[q]],
                              !.fault = @ \/ p \notin Valid(f)]

check_full(f, i) == f.wp[i] >= PagesPerSblk

ValidIn(f, i) == { p \in Valid(f) : p[1] = i }

valid_cnt(f, i) == Cardinality(ValidIn(f, i))

\* get_active_superblock: the usable superblock after the last one found, else before.
get_active_sblk(f) ==
    LET usable == { i \in Sblks \ {f.rsv} : ~check_full(f, i) }
        start  == IF f.next # NoSblk THEN f.next ELSE Min(usable)
        after  == { i \in usable : i > start }
        other  == usable \ {start}
        next   == IF after # {} THEN Min(after) ELSE IF other # {} THEN Min(other) ELSE NoSblk
    IN  IF next = NoSblk THEN [f EXCEPT !.fault = TRUE]
        ELSE [f EXCEPT !.next = next, !.active = next,
                       !.free = IF f.wp[next] = 0 THEN @ - 1 ELSE @]

isgc_needed(f) == f.free <= 1

\* get_gc_target: of the full superblocks the first with the fewest valid pages, unless
\* even that one has nothing to reclaim.
Full(f) == { i \in Sblks \ {f.rsv} : check_full(f, i) }

GcTargets(f) == { i \in Full(f) : /\ valid_cnt(f, i) < f.wp[i]
                                  /\ \A j \in Full(f) : valid_cnt(f, i) <= valid_cnt(f, j) }

(***************************************************************************)
(* dpage_gc_dvalue, up to the mapping update: the valid pages of the       *)
(* target are read in order and, as the bucket is emptied from its end,    *)
(* written to the reserve in the opposite order, in one command.  Then the *)
(* target is trimmed and becomes the reserve, the reserve becomes active.  *)
(* A bucket is only allocated for a target with valid pages, and gc_bucket *)
(* keeps its value after the free: a later GC of a target without any      *)
(* frees that bucket once more.                                            *)
(***************************************************************************)
\* The copy of p: the pages of its superblock behind it come before it.
CopyOf(f, p) ==
    <<f.rsv, f.wp[f.rsv] + Cardinality({ q \in ValidIn(f, p[1]) : q[2] > p[2] })>>

\* What was on page p sits where it was, in its copy, or is gone with the erased target v.
AfterGc(f, v, p) ==
    IF p[1] # v THEN p ELSE IF p \in Valid(f) THEN CopyOf(f, p) ELSE NoPage

\* The oob of the copies and of the pages that stay.
OobAfterGc(f, v) ==
    LET copies == { CopyOf(f, p) : p \in ValidIn(f, v) }
    IN  [q \in (Valid(f) \ ValidIn(f, v)) \cup copies |->
            IF q \in copies THEN f.lpa[CHOOSE p \in ValidIn(f, v) : CopyOf(f, p) = q] ELSE f.lpa[q]]

Moved(f, v) ==
    [l \in { f.lpa[p] : p \in ValidIn(f, v) } |->
        CopyOf(f, CHOOSE p \in ValidIn(f, v) : f.lpa[p] = l)]

FreesAgain(f, v) == f.freed /\ valid_cnt(f, v) = 0

Collect(f, v) ==
    LET n == valid_cnt(f, v)
    IN  [f EXCEPT !.wp[f.rsv] = @ + n, !.wp[v] = 0,
                  !.dev[f.rsv] = @ + n, !.dev[v] = 0,
                  !.lpa = OobAfterGc(f, v),
                  !.newest = [l \in Lpas |-> AfterGc(f, v, @[l])],
                  !.moved = Moved(f, v), !.freed = @ \/ n > 0,
                  !.refused = @ \/ f.dev[f.rsv] # f.wp[f.rsv],
                  !.fault = @ \/ f.wp[f.rsv] + n > PagesPerSblk \/ FreesAgain(f, v),
                  !.active = f.rsv, !.rsv = v]

dpage_gc_dvalue(f) == IF GcTargets(f) = {} THEN [f EXCEPT !.fault = TRUE]
                      ELSE Collect(f, Min(GcTargets(f)))

(***************************************************************************)
(* dp_alloc.  The page it returns is NewPage of the result; the caller     *)
(* advances the write pointer with TakePage.                               *)
(***************************************************************************)
NeedsSblk(f) == f.active = NoSblk \/ check_full(f, f.active)

RunsGc(f) == NeedsSblk(f) /\ isgc_needed(f)

dp_alloc(f) == LET g == [f EXCEPT !.moved = <<>>]
               IN  IF RunsGc(f) THEN dpage_gc_dvalue(g)
                   ELSE IF NeedsSblk(f) THEN get_active_sblk(g) ELSE g

NewPage(f) == <<f.active, f.wp[f.active]>>

TakePage(f) == [f EXCEPT !.wp[f.active] = @ + 1, !.fault = @ \/ check_full(f, f.active)]

\* The device takes a page only when it is the next of its superblock.
Program(f, p) == IF f.dev[p[1]] = p[2] THEN [f EXCEPT !.dev[p[1]] = @ + 1]
                 ELSE [f EXCEPT !.refused = TRUE]

=============================================================================
