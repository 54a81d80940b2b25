------------------------------ MODULE LsmPages ------------------------------
(***************************************************************************)
(* The pages of the LSM tree's flash: the superblocks of lsm_bm.c, divided *)
(* into a MAP and a DATA partition, and lsm_get_page, which hands their    *)
(* pages out one after the other.  No page is ever taken back: the calls   *)
(* that would collect garbage are commented out in lsm_get_page.  The      *)
(* state is a record, and every operator returns the state it leaves.      *)
(***************************************************************************)
EXTENDS Integers, Sequences, FiniteSetsExt

CONSTANTS PagesPerSblk,     \* _PPS
          LastMapSblk,      \* sblk_master[MAP].max_sblk_idx
          LastSblk          \* _NOS

LsmPagesAssumption == /\ PagesPerSblk \in Nat \ {0}
                      /\ LastMapSblk >= 2 /\ LastSblk >= LastMapSblk + 2

MinSblk(type) == IF type = "MAP" THEN 1 ELSE LastMapSblk + 1
MaxSblk(type) == IF type = "MAP" THEN LastMapSblk ELSE LastSblk
ReserveSblk(type) == MinSblk(type)

NoSblk == 0       \* active_sblk = -1

lsm_check_full(bm, s) == bm.wp_offt[s] >= PagesPerSblk

\* The first block from the active one on, the active one too, that has a page left.
lsm_get_active_sblk(bm, type) ==
    LET start == IF bm.active[type] = NoSblk THEN MinSblk(type) ELSE bm.active[type]
        open == { s \in start .. MaxSblk(type) : s # ReserveSblk(type) /\ ~lsm_check_full(bm, s) }
    IN  IF open = {} THEN [bm EXCEPT !.aborted = TRUE]
        ELSE [bm EXCEPT !.active[type] = Min(open),
                        !.free[type] = IF bm.wp_offt[Min(open)] = 0 THEN @ - 1 ELSE @]

lsm_bm_init ==
    [wp_offt |-> [s \in 1 .. LastSblk |-> 0],
     active |-> [type \in {"MAP", "DATA"} |-> NoSblk],
     free |-> [MAP |-> LastMapSblk, DATA |-> LastSblk - (LastMapSblk + 1)],
     open |-> [type \in {"MAP", "DATA"} |-> FALSE],    \* page.map_active, page.data_active
     aborted |-> FALSE]

\* The reserve blocks page.map_reserve and page.data_reserve are taken with the call that
\* makes a block the active one, and are not used.
lsm_page_init == lsm_get_active_sblk(lsm_get_active_sblk(lsm_bm_init, "DATA"), "MAP")

\* lsm_get_page: one page; its number is the last one in ppas.
lsm_get_page(s, type) ==
    LET bm == IF s.bm.open[type] /\ ~lsm_check_full(s.bm, s.bm.active[type]) THEN s.bm
              ELSE [lsm_get_active_sblk(s.bm, type) EXCEPT !.open[type] = TRUE]
        blk == bm.active[type]
    IN  IF bm.aborted THEN [s EXCEPT !.bm = bm, !.ppas = Append(@, 0)]
        ELSE [bm |-> [bm EXCEPT !.wp_offt[blk] = @ + 1],
              ppas |-> Append(s.ppas, blk * PagesPerSblk + bm.wp_offt[blk])]

\* n calls of it: the new state and the pages.
GetPages(bm, type, n) ==
    LET after[i \in 0 .. n] ==
            IF i = 0 THEN [bm |-> bm, ppas |-> <<>>] ELSE lsm_get_page(after[i - 1], type)
    IN  after[n]
=============================================================================
