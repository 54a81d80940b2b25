------------------------------ MODULE DataPages ------------------------------
(***************************************************************************)
(* Where values live on flash, in the build without DATA_SEGREGATION:      *)
(* dp_alloc and dpage_gc_dvalue of hash_hot_cmt/dftl_pg.c over the block   *)
(* manager and the NAND device.  A grain address (pga) is the triple of a  *)
(* superblock, a page offset and a grain of the page; the address of a     *)
(* value is that of its first grain.                                       *)
(*                                                                         *)
(* The operators take the record d:                                        *)
(*    d.b       the DATA partition as the block manager sees it            *)
(*    d.valid   the grains whose valid bit is set                          *)
(*    d.oob     lpa and length at each grain (0, 0 when never set)         *)
(*    d.dev     the NAND device                                            *)
(*    d.table   the ppa field of each pte of mem_table                     *)
(*    d.active, d.reserve    the superblocks d_active and d_reserve        *)
(*    d.refused   the device refused a GC write, whose code is ignored     *)
(*    d.misuse    an ftl_assert of the block manager failed                *)
(*    d.aborted   the program called abort() or used a NULL superblock     *)
(*                                                                         *)
(* The mapping cache is module MapCache's; here a pte is simply there.     *)
(***************************************************************************)
EXTENDS BlockMgr, SequencesExt

CONSTANT NrLpas          \* ptes of the table

ASSUME DataPagesAssumption == NrLpas \in Nat \ {0}

Lpas == 0 .. NrLpas - 1

Pk == INSTANCE Packing WITH GrainsPerPage <- UnitsPerPage

Dev == INSTANCE Nand WITH Lines <- Sblks, PagesPerLine <- PagesPerSblk

Offsets == 0 .. PagesPerSblk - 1
Grains == Sblks \X Offsets \X (0 .. UnitsPerPage - 1)
NoPga == <<NoSblk, 0, 0>>             \* UINT32_MAX
NoOob == [lpa |-> 0, len |-> 0]

DataStore == [b : Partition, valid : SUBSET Grains,
              oob : [Grains -> [lpa : Lpas, len : 0 .. UnitsPerPage]],
              dev : Dev!Device, table : [Lpas -> Grains \cup {NoPga}],
              active : Sblks \cup {NoSblk}, reserve : Sblks,
              refused : BOOLEAN, misuse : BOOLEAN, aborted : BOOLEAN]

\* dftl_bm_init and dftl_page_init, the DATA half: nothing mapped.
data_init == [b |-> dftl_bm_init, valid |-> {}, oob |-> [g \in Grains |-> NoOob],
              dev |-> Dev!ssd_init, table |-> [l \in Lpas |-> NoPga],
              active |-> NoSblk, reserve |-> SSblk,
              refused |-> FALSE, misuse |-> FALSE, aborted |-> FALSE]

Abort(d) == [d EXCEPT !.aborted = TRUE]

\* The grains of a value of n grains at address g (IS_INITIAL_PPA: none).
Extent(g, n) == { <<g[1], g[2], g[3] + i>> : i \in 0 .. n - 1 }

ItemAt(d, g) == Extent(g, d.oob[g].len)

\* mutant: only the first grain of the value
invalidate_first(d, g) ==
    [d EXCEPT !.valid = @ \ {g}, !.b.vcnt[g[1]] = @ - 1]

invalidate_value(d, g) ==
    [d EXCEPT !.valid = @ \ ItemAt(d, g),
              !.b.vcnt[g[1]] = @ - d.oob[g].len,
              !.misuse = @ \/ ~(ItemAt(d, g) \subseteq d.valid)]

\* The calls of validate_grain for the placements in S, one for each grain of each.
GrainCalls(S) == UNION { {p} \X (0 .. p.item.len - 1) : p \in S }

-----------------------------------------------------------------------------
(***************************************************************************)
(* dpage_gc_dvalue.  The values of the victim are collected in address     *)
(* order and invalidated, packed into pages of the reserve from its write  *)
(* pointer on, and written in one command; the pte of the lpa in the oob   *)
(* of each is pointed at the copy.  The victim is trimmed and becomes the  *)
(* reserve, the reserve becomes active.                                    *)
(***************************************************************************)
Before(g, h) == \/ g[2] < h[2]
                \/ g[2] = h[2] /\ g[3] < h[3]

Heads(d, v) == { g \in d.valid : g[1] = v /\ d.oob[g].len > 0 }

\* Every valid grain belongs to a value: else "no corresponding oob data".
AllCollected(d, v) ==
    { g \in d.valid : g[1] = v } = UNION { ItemAt(d, g) : g \in Heads(d, v) }

Collected(d, v) ==
    LET heads == Heads(d, v)
        at(i) == CHOOSE g \in heads : Cardinality({ h \in heads : Before(h, g) }) = i - 1
    IN  [i \in 1 .. Cardinality(heads) |-> [from |-> at(i), lpa |-> d.oob[at(i)].lpa,
                                            len |-> d.oob[at(i)].len]]

\* Where p, a placement of Pack, ends up in the reserve.
CopyOf(d, p) == <<d.reserve, d.b.wp[d.reserve] + p.page, p.off>>

gc_valid(d, v, placed) ==
    { g \in d.valid : g[1] # v }
      \cup UNION { Extent(CopyOf(d, p), p.item.len) : p \in placed }

gc_oob(d, v, placed) ==
    [g \in Grains |->
        IF g[1] = v THEN NoOob
        ELSE IF \E p \in placed : CopyOf(d, p) = g
        THEN LET p == CHOOSE p \in placed : CopyOf(d, p) = g
             IN  [lpa |-> p.item.lpa, len |-> p.item.len]
        ELSE d.oob[g]]

(***************************************************************************)
(* The tables _do_bulk_mapping_update can leave: qsort orders values of    *)
(* one lpa arbitrarily, and the last of them wins.                         *)
(***************************************************************************)
gc_tables_stale(d, placed) == {d.table}        \* mutant: table not updated

gc_tables(d, placed) ==
    LET copies(l) == { CopyOf(d, p) : p \in { p \in placed : p.item.lpa = l } }
    IN  { t \in [Lpas -> { CopyOf(d, p) : p \in placed }
                           \cup { d.table[l] : l \in Lpas }] :
            \A l \in Lpas : IF copies(l) = {} THEN t[l] = d.table[l]
                            ELSE t[l] \in copies(l) }

gc_counters(d, v, placed) ==
    trim_segment([d.b EXCEPT !.wp[d.reserve] = @ + Pk!PagesUsed(placed),
                             !.vcnt[d.reserve] = @ + Cardinality(GrainCalls(placed))], v)

gc_dev_untrimmed(d, v, n) ==                   \* mutant: no li->trim_block
    Dev!WriteRun(d.dev, d.reserve, d.b.wp[d.reserve], n)

gc_dev(d, v, n) ==
    Dev!ssd_trim_block(Dev!WriteRun(d.dev, d.reserve, d.b.wp[d.reserve], n), v)

\* Everything but the table.
moved(d, v, placed) ==
    LET n == Pk!PagesUsed(placed)
        base == d.b.wp[d.reserve]
    IN  [d EXCEPT !.b = change_reserve(gc_counters(d, v, placed), v),
                  !.valid = gc_valid(d, v, placed),
                  !.oob = gc_oob(d, v, placed),
                  !.dev = gc_dev(d, v, n),
                  !.refused = @ \/ Dev!Accepted(d.dev, d.reserve, base, n) # n,
                  !.active = d.reserve,
                  !.reserve = v]

\* The reserve takes all the pages: else an ftl_assert of get_page_num fails.
Fits(d, placed) == d.b.wp[d.reserve] + Pk!PagesUsed(placed) <= PagesPerSblk

\* The possible results of the GC, with the superblock it collected.
dpage_gc_dvalue(d) ==
    LET v == get_gc_target(d.b)
        placed == Pk!Pack(Collected(d, v))
    IN  IF v = NoSblk \/ ~AllCollected(d, v) THEN {Abort(d)}
        ELSE IF ~Fits(d, placed) THEN {[Abort(d) EXCEPT !.misuse = TRUE]}
        ELSE { [moved(d, v, placed) EXCEPT !.table = t] : t \in gc_tables(d, placed) }

(***************************************************************************)
(* dp_alloc up to its page number: the possible data stores it leaves.     *)
(***************************************************************************)
NeedsSblk(d) == d.active = NoSblk \/ check_full(d.b, d.active)

RunsGc(d) == NeedsSblk(d) /\ isgc_needed(d.b)

dp_alloc(d) ==
    IF ~NeedsSblk(d) THEN {d}
    ELSE IF isgc_needed(d.b) THEN dpage_gc_dvalue(d)
    ELSE LET b == get_active_sblk(d.b)
         IN  IF b.active = NoSblk THEN {Abort(d)}
             ELSE {[d EXCEPT !.b = b, !.active = b.active]}

=============================================================================
