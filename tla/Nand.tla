-------------------------------- MODULE Nand --------------------------------
(***************************************************************************)
(* The simulated NAND device of lower/ssd.c, as operators on a device      *)
(* value d.  A line is the erase unit of the device; the FTL calls it a    *)
(* superblock, and both have the same number of pages, so a physical page  *)
(* number pgidx is the pair of its line LINE_IDX(pgidx) and its offset in  *)
(* the line.                                                               *)
(*                                                                         *)
(*    d.state[l]  the offsets of line l that are programmed (ppa_state)    *)
(*    d.wp[l]     the next offset line l accepts             (line_wp)     *)
(*                                                                         *)
(* Latencies, the per-LUN statistics and the channel layout are left out.  *)
(***************************************************************************)
EXTENDS Integers

CONSTANTS Lines,         \* the line numbers of the device, an interval
          PagesPerLine   \* pgs_per_line, which is _PPS of the FTL

NandAssumption == /\ Lines \subseteq Nat
                  /\ PagesPerLine \in Nat \ {0}

Offsets == 0 .. PagesPerLine - 1

Device == [state : [Lines -> SUBSET Offsets], wp : [Lines -> 0 .. PagesPerLine]]

\* The device ssd_init leaves behind: nothing programmed.
ssd_init == [state |-> [l \in Lines |-> {}], wp |-> [l \in Lines |-> 0]]

\* Return codes of a write: a latency when it succeeds, -1 on the overwrite of
\* a programmed page, -2 on a page that is not the next one of its line.
Done      == 0
Overwrite == -1
OutOfOrder == -2

-----------------------------------------------------------------------------
(***************************************************************************)
(* One iteration of the loop of ssd_write_ppa, for page o of line l.       *)
(***************************************************************************)

ProgramResult(d, l, o) ==
    CASE o \in d.state[l] -> Overwrite
      [] o \notin d.state[l] /\ d.wp[l] # o -> OutOfOrder
      [] OTHER -> Done

ProgramPage(d, l, o) ==
    IF ProgramResult(d, l, o) = Done
    THEN [d EXCEPT !.state[l] = @ \cup {o}, !.wp[l] = @ + 1]
    ELSE d

(***************************************************************************)
(* The whole loop for n pages from page o of line l: it returns at the     *)
(* first page that is refused and leaves the pages before it programmed.   *)
(* The run may go on into the next line, whose pages follow in pgidx.      *)
(* after[i] is the device and the return code after i iterations.          *)
(***************************************************************************)
ssd_write_ppa(d, l, o, n) ==
    LET Line(i) == l + (o + i) \div PagesPerLine
        Offt(i) == (o + i) % PagesPerLine
        after[i \in 0 .. n] ==
            IF i = 0 THEN [dev |-> d, rc |-> Done]
            ELSE LET prev == after[i - 1] IN
                 IF prev.rc # Done THEN prev
                 ELSE [dev |-> ProgramPage(prev.dev, Line(i - 1), Offt(i - 1)),
                       rc  |-> ProgramResult(prev.dev, Line(i - 1), Offt(i - 1))]
    IN  after[n]

(***************************************************************************)
(* The same loop for a run that stays inside one line, in closed form: how *)
(* many of its pages are accepted, and the device that leaves.             *)
(***************************************************************************)

Accepted(d, l, o, n) ==
    IF d.wp[l] # o THEN 0
    ELSE CHOOSE k \in 0 .. n : /\ \A j \in 0 .. k - 1 : o + j \notin d.state[l]
                               /\ k < n => o + k \in d.state[l]

WriteRun(d, l, o, n) ==
    LET k == Accepted(d, l, o, n)
    IN  [d EXCEPT !.state[l] = @ \cup (o .. o + k - 1), !.wp[l] = @ + k]

\* ssd_read_ppa: the read of a page that is not programmed returns -1.
Readable(d, l, o) == o \in d.state[l]

TrimKeepsPointer(d, l) == [d EXCEPT !.state[l] = {}]  \* mutant: no reset

\* ssd_trim_block: every page of the line is erased, its write pointer reset.
ssd_trim_block(d, l) == [d EXCEPT !.state[l] = {}, !.wp[l] = 0]

=============================================================================
