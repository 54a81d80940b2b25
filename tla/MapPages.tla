------------------------------ MODULE MapPages ------------------------------
(***************************************************************************)
(* Where mapping pages live on flash: the MAP partition, with tp_alloc and *)
(* tpage_gc of hash_hot_cmt/dftl_pg.c over the block manager and the NAND  *)
(* device.  A mapping page is named by the index of its cmt; a physical    *)
(* page is the pair of its superblock and its offset.                      *)
(*                                                                         *)
(* The operators take and return the record m:                             *)
(*    m.b         the partition as the block manager sees it               *)
(*    m.valid     the physical pages whose valid bits are set              *)
(*    m.oob       the lpa field of each page's oob (0 when never set)      *)
(*    m.dev       the NAND device                                          *)
(*    m.tppa      t_ppa of each mapping page                               *)
(*    m.tActive, m.tReserve   the superblocks t_active and t_reserve       *)
(*    m.refused   a write was refused and its return code ignored          *)
(*    m.aborted   the program called abort() or used a NULL superblock     *)
(***************************************************************************)
EXTENDS BlockMgr, FiniteSets

CONSTANT NrTPages        \* nr_valid_tpages

ASSUME MapPagesAssumption == /\ NrTPages \in Nat \ {0}
                             /\ UnitsPerPage = 1

TPages == 0 .. NrTPages - 1

Dev == INSTANCE Nand WITH Lines <- Sblks, PagesPerLine <- PagesPerSblk

Offsets == 0 .. PagesPerSblk - 1
Pages == Sblks \X Offsets
NoPpa == <<NoSblk, 0>>          \* UINT32_MAX

MapStore == [b : Partition, valid : SUBSET Pages, oob : [Pages -> TPages],
             dev : Dev!Device, tppa : [TPages -> Pages \cup {NoPpa}],
             tActive : Sblks \cup {NoSblk}, tReserve : Sblks,
             refused : BOOLEAN, aborted : BOOLEAN]

\* dftl_bm_init and dftl_page_init, the MAP half: every t_ppa unset.
map_init == [b |-> dftl_bm_init, valid |-> {}, oob |-> [p \in Pages |-> 0],
             dev |-> Dev!ssd_init, tppa |-> [c \in TPages |-> NoPpa],
             tActive |-> NoSblk, tReserve |-> SSblk,
             refused |-> FALSE, aborted |-> FALSE]

Abort(m) == [m EXCEPT !.aborted = TRUE]

\* IS_INITIAL_PPA of t_ppa, negated: the page has a copy on flash.
OnFlash(m, c) == m.tppa[c] # NoPpa

forget_tpage(m, c) == [m EXCEPT !.tppa[c] = NoPpa]   \* mutant: stays valid

\* invalidate_page of a mapping page's copy, then t_ppa = UINT32_MAX.
invalidate_tpage(m, c) ==
    [m EXCEPT !.valid = @ \ {m.tppa[c]}, !.b.vcnt[m.tppa[c][1]] = @ - 1,
              !.tppa[c] = NoPpa]

-----------------------------------------------------------------------------
(***************************************************************************)
(* tpage_gc.  _do_bulk_read_valid_tpages collects the valid pages of the   *)
(* victim in offset order and invalidates them; _do_bulk_write_valid_tpages *)
(* gives them consecutive pages of the reserve, validates them, copies the *)
(* lpa of the oob, points the t_ppa of the cmt that lpa names at the copy  *)
(* and writes them in one command.  Then the victim is trimmed, the        *)
(* reserve becomes active and the victim becomes the reserve.              *)
(***************************************************************************)
Moved(m, v) == { o \in Offsets : <<v, o>> \in m.valid }

Rank(S, o) == Cardinality({ q \in S : q < o })

MovedOf(m, v, c) == { o \in Moved(m, v) : m.oob[<<v, o>>] = c }

Dest(m, v, o) == <<m.tReserve, m.b.wp[m.tReserve] + Rank(Moved(m, v), o)>>

gc_valid(m, v) ==
    { p \in m.valid : p[1] # v } \cup { Dest(m, v, o) : o \in Moved(m, v) }

gc_oob(m, v) ==
    [p \in Pages |->
        IF p[1] = v THEN 0
        ELSE IF \E o \in Moved(m, v) : Dest(m, v, o) = p
        THEN m.oob[<<v, CHOOSE o \in Moved(m, v) : Dest(m, v, o) = p>>]
        ELSE m.oob[p]]

gc_tppa_stale(m, v) == m.tppa        \* mutant: t_ppa keeps the old page

gc_tppa(m, v) ==
    [c \in TPages |->
        IF MovedOf(m, v, c) # {} THEN Dest(m, v, Max(MovedOf(m, v, c)))
        ELSE m.tppa[c]]

\* The reserve after it took n pages: get_page_num and validate_page each time.
Filled(b, r, n) == [b EXCEPT !.wp[r] = @ + n, !.vcnt[r] = @ + n]

gc_counters(m, v) ==
    trim_segment(Filled(m.b, m.tReserve, Cardinality(Moved(m, v))), v)

gc_partition(m, v) == change_reserve(gc_counters(m, v), v)

tpage_gc(m) ==
    LET v == get_gc_target(m.b)
        r == m.tReserve
        n == Cardinality(Moved(m, v))
        base == m.b.wp[r]
    IN  IF v = NoSblk THEN Abort(m)
        ELSE IF \E o \in Moved(m, v) : ~Dev!Readable(m.dev, v, o) THEN Abort(m)
        ELSE [m EXCEPT !.b = gc_partition(m, v),
                       !.valid = gc_valid(m, v),
                       !.oob = gc_oob(m, v),
                       !.tppa = gc_tppa(m, v),
                       !.dev = Dev!ssd_trim_block(Dev!WriteRun(m.dev, r, base, n), v),
                       !.refused = @ \/ Dev!Accepted(m.dev, r, base, n) # n,
                       !.tActive = r,
                       !.tReserve = v]

(***************************************************************************)
(* tp_alloc, up to the page number it returns: GC when the active          *)
(* superblock is full and no free one is left, the next free one else.     *)
(***************************************************************************)
open_sblk(m) ==
    IF m.tActive # NoSblk /\ ~check_full(m.b, m.tActive) THEN m
    ELSE IF isgc_needed(m.b) THEN tpage_gc(m)
    ELSE LET b == get_active_sblk(m.b)
         IN  IF b.active = NoSblk THEN Abort(m)
             ELSE [m EXCEPT !.b = b, !.tActive = b.active]

(***************************************************************************)
(* Every writer of a mapping page does the same: tp_alloc, validate_page,  *)
(* write, set_oob, with t_ppa set to the new page.                         *)
(***************************************************************************)
write_tpage(m, c) ==
    LET a == open_sblk(m)
        s == a.tActive
        o == a.b.wp[s]
    IN  IF a.aborted THEN a
        ELSE [a EXCEPT !.b = [get_page_num(a.b, s) EXCEPT !.vcnt[s] = @ + 1],
                       !.valid = @ \cup {<<s, o>>},
                       !.oob[<<s, o>>] = c,
                       !.tppa[c] = <<s, o>>,
                       !.dev = Dev!WriteRun(a.dev, s, o, 1),
                       !.refused = @ \/ Dev!Accepted(a.dev, s, o, 1) # 1]

=============================================================================
