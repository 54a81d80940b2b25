------------------------------- MODULE Packing -------------------------------
(***************************************************************************)
(* How values of 1 to GRAIN_PER_PAGE grains are packed into pages: the     *)
(* loop that _do_wb_assign_ppa runs over the entries of a flush and        *)
(* _do_bulk_write_valid_items over the values GC moves.  A value never     *)
(* crosses a page.  Each page takes, again and again, the longest value    *)
(* that still fits, the last one collected first.                          *)
(***************************************************************************)
EXTENDS Integers, SequencesExt

CONSTANT GrainsPerPage    \* GRAIN_PER_PAGE

PackingAssumption == GrainsPerPage \in Nat \ {0}

\* The values that fit into the room left on the page.

Fitting(items, room) == { i \in DOMAIN items : items[i].len <= room }

ShortestFirst(items, S) ==               \* mutant: buckets scanned upwards
    CHOOSE i \in S : \A j \in S : items[i].len <= items[j].len

LongestLast(items, S) ==
    CHOOSE i \in S : \A j \in S : \/ items[j].len < items[i].len
                                  \/ items[j].len = items[i].len /\ j <= i

\* One iteration: an item is placed, or the next page is opened.
PackStep(s) ==
    LET fit == Fitting(s.rest, GrainsPerPage - s.off)
        i == LongestLast(s.rest, fit)
    IN  IF s.rest = <<>> THEN s
        ELSE IF fit = {} THEN [s EXCEPT !.page = @ + 1, !.off = 0]
        ELSE [s EXCEPT !.placed = @ \cup {[item |-> s.rest[i], page |-> s.page, off |-> s.off]},
                       !.rest = RemoveAt(@, i),
                       !.off = @ + s.rest[i].len]

(***************************************************************************)
(* Where each item goes: records [item, page, off], pages counted from 0.  *)
(* items is a sequence of records with a field len in 1 .. GrainsPerPage.   *)
(***************************************************************************)
PackStart(items) == [placed |-> {}, rest |-> items, page |-> 0, off |-> 0]

Pack(items) ==
    LET from[n \in 0 .. 2 * Len(items)] ==
            IF n = 0 THEN PackStart(items) ELSE PackStep(from[n - 1])
    IN  from[2 * Len(items)].placed

PagesUsed(placed) == IF placed = {} THEN 0
                     ELSE 1 + Max({ p.page : p \in placed })

OnPage(placed, k) == { p \in placed : p.page = k }

=============================================================================
