------------------------------ MODULE DataPath ------------------------------
(***************************************************************************)
(* The flush of the write buffer, hash_hot_cmt/dftl_wb.c, over the data    *)
(* pages: __demand_set calls _do_wb_assign_ppa, _do_wb_mapping_update and  *)
(* _do_wb_flush, one after the other, when the buffer is full.  Assigning  *)
(* a page may run a GC; the values of the flush have an address from then  *)
(* on, a pte when their mapping is updated, and are programmed at the end. *)
(*                                                                         *)
(* What is abstracted: the keys.  An entry ends up at an lpa whose pte is  *)
(* free or holds its key, which any pte may be except one that an earlier  *)
(* entry of the same flush took (d_htable finds it): equal keys have been  *)
(* merged by the skiplist.                                                 *)
(***************************************************************************)
EXTENDS DataPages

CONSTANTS NrEntries,     \* max_wb_size
          ValueLens      \* the lengths in grains values have

ASSUME DataPathAssumption == /\ NrEntries \in Nat \ {0}
                             /\ ValueLens \subseteq 1 .. UnitsPerPage

VARIABLES data,      \* the record of DataPages
          entry,     \* each entry of the flush: where it is, length, address
          fl,        \* flush_list: the runs of pages to program
          early      \* entries GC collected before they had a pte (history)

vars == <<data, entry, fl, early>>

Entries == 1 .. NrEntries

Stages == {"buffer", "pending", "placed", "mapped"}

Init == /\ data = data_init
        /\ entry = [e \in Entries |-> [at |-> "buffer", len |-> 1, pga |-> NoPga]]
        /\ fl = <<>>
        /\ early = {}

AllAt(where) == \A e \in Entries : entry[e].at = where

Idle == AllAt("buffer")

-----------------------------------------------------------------------------
\* The buffer has filled up; len gives the length of each entry.
Fill(len) ==
    /\ ~data.aborted /\ Idle
    /\ entry' = [e \in Entries |-> [at |-> "pending", len |-> len[e], pga |-> NoPga]]
    /\ UNCHANGED <<data, fl, early>>

(***************************************************************************)
(* One iteration of the outer loop of _do_wb_assign_ppa: a page is         *)
(* allocated, joins the run of the page before it if it follows it, and    *)
(* takes what Pack puts on its first page.  The lpa in the oob is 0 as     *)
(* yet: "new_oob.lpa = lpa; // for data GC" comes with the mapping update. *)
(***************************************************************************)
Pending == { e \in Entries : entry[e].at = "pending" }

PendingItems ==
    LET at(i) == CHOOSE e \in Pending : Cardinality({ f \in Pending : f < e }) = i - 1
    IN  [i \in 1 .. Cardinality(Pending) |-> [id |-> at(i), len |-> entry[at(i)].len]]

NextPage == Pk!OnPage(Pk!Pack(PendingItems), 0)

At(s, o, p) == <<s, o, p.off>>

Grained(s, o, S) == UNION { Extent(At(s, o, p), p.item.len) : p \in S }

\* get_page_num, and for each placement validate_grain of its grains and set_oob.
Placed(d, s, o) ==
    [d EXCEPT !.b = [get_page_num(d.b, s) EXCEPT !.vcnt[s] = @ + Cardinality(GrainCalls(NextPage))],
              !.valid = @ \cup Grained(s, o, NextPage),
              !.misuse = @ \/ \E p \in NextPage :
                  Grained(s, o, {p}) \cap (d.valid \cup Grained(s, o, NextPage \ {p})) # {},
              !.oob = [g \in Grains |->
                  IF \E p \in NextPage : At(s, o, p) = g
                  THEN [lpa |-> 0, len |-> (CHOOSE p \in NextPage : At(s, o, p) = g).item.len]
                  ELSE @[g]]]

\* ppa = last_ppa + 1, also from one superblock into the next.
JoinsRun(s, o) ==
    /\ fl # <<>>
    /\ LET run == Last(fl)
       IN  run.s * PagesPerSblk + run.o + run.n = s * PagesPerSblk + o

AddPage(s, o) ==
    IF JoinsRun(s, o)
    THEN [fl EXCEPT ![Len(fl)].n = @ + 1]
    ELSE Append(fl, [s |-> s, o |-> o, n |-> 1])

AssignPage ==
    /\ ~data.aborted /\ Pending # {}
    /\ \E d \in dp_alloc(data) :
         LET s == d.active
             o == d.b.wp[s]
         IN  IF d.aborted THEN data' = d /\ UNCHANGED <<entry, fl>>
             ELSE IF o >= PagesPerSblk      \* ftl_assert of get_page_num
             THEN data' = [d EXCEPT !.misuse = TRUE, !.aborted = TRUE]
                  /\ UNCHANGED <<entry, fl>>
             ELSE /\ data' = Placed(d, s, o)
                  /\ fl' = AddPage(s, o)
                  /\ entry' = [e \in Entries |->
                        IF \E p \in NextPage : p.item.id = e
                        THEN LET p == CHOOSE p \in NextPage : p.item.id = e
                             IN  [entry[e] EXCEPT !.at = "placed",
                                                  !.pga = <<s, o, p.off>>]
                        ELSE entry[e]]
    /\ early' = IF RunsGc(data)
                THEN early \cup { e \in Entries : /\ entry[e].at = "placed"
                                                  /\ entry[e].pga[1] = get_gc_target(data.b) }
                ELSE early

(***************************************************************************)
(* _do_wb_mapping_update of entry e, from wb_update or wb_direct_update    *)
(* on: the value the pte had is invalidated, the pte updated, the lpa      *)
(* stored in the oob.  The entries finish in any order.                    *)
(***************************************************************************)
Taken(l) == \E e \in Entries : /\ entry[e].at = "mapped"
                               /\ entry[e].pga = data.table[l]

Overwritten(l) == IF data.table[l] = NoPga THEN data
                  ELSE invalidate_value(data, data.table[l])

MapEntryNoOob(e, l) ==                    \* mutant: the oob keeps lpa 0
    /\ ~data.aborted /\ Pending = {}
    /\ entry[e].at = "placed" /\ ~Taken(l)
    /\ data' = [Overwritten(l) EXCEPT !.table[l] = entry[e].pga]
    /\ entry' = [entry EXCEPT ![e].at = "mapped"]
    /\ UNCHANGED <<fl, early>>

MapEntry(e, l) ==
    /\ ~data.aborted /\ Pending = {}
    /\ entry[e].at = "placed" /\ ~Taken(l)
    /\ data' = [Overwritten(l) EXCEPT !.table[l] = entry[e].pga,
                                      !.oob[entry[e].pga].lpa = l]
    /\ entry' = [entry EXCEPT ![e].at = "mapped"]
    /\ UNCHANGED <<fl, early>>

(***************************************************************************)
(* _do_wb_flush: every run is programmed; the first refusal aborts.        *)
(***************************************************************************)
WriteOut(out, run) ==
    IF out.rc # Dev!Done THEN out ELSE Dev!ssd_write_ppa(out.dev, run.s, run.o, run.n)

WrittenOut ==
    LET after[i \in 0 .. Len(fl)] == IF i = 0 THEN [dev |-> data.dev, rc |-> Dev!Done]
                                     ELSE WriteOut(after[i - 1], fl[i])
    IN  after[Len(fl)]

Flush ==
    /\ ~data.aborted /\ AllAt("mapped")
    /\ data' = [data EXCEPT !.dev = WrittenOut.dev, !.aborted = WrittenOut.rc # Dev!Done]
    /\ fl' = <<>>
    /\ entry' = [e \in Entries |-> [at |-> "buffer", len |-> 1, pga |-> NoPga]]
    /\ early' = early

Next == \/ \E len \in [Entries -> ValueLens] : Fill(len)
        \/ AssignPage
        \/ \E e \in Entries, l \in Lpas : MapEntry(e, l)
        \/ Flush

Spec == Init /\ [][Next]_vars

-----------------------------------------------------------------------------
TypeOK == /\ data \in DataStore
          /\ entry \in [Entries -> [at : Stages, len : 1 .. UnitsPerPage,
                                    pga : Grains \cup {NoPga}]]
          /\ fl \in Seq([s : Sblks, o : Offsets, n : 1 .. NrEntries])
          /\ early \subseteq Entries

\* The values in the program's hands: behind a pte, or placed without one.
Mapped == { l \in Lpas : data.table[l] # NoPga }
Unmapped == { e \in Entries : entry[e].at = "placed" }

(***************************************************************************)
(* The table and the flash agree through every flush and GC: a pte names   *)
(* a value whose oob names that pte, no two values share a grain, and the  *)
(* valid grains are those of the mapped values and of the entries of the   *)
(* flush that have no pte yet.  (Unless GC collected such an entry.)       *)
(***************************************************************************)
Values == { ItemAt(data, data.table[l]) : l \in Mapped }
            \cup { ItemAt(data, entry[e].pga) : e \in Unmapped }

TableSound ==
    early = {} /\ ~data.aborted =>
        /\ \A l \in Mapped : /\ data.oob[data.table[l]].lpa = l
                             /\ data.oob[data.table[l]].len > 0
        /\ \A V, W \in Values : V # W => V \cap W = {}
        /\ Cardinality(Values) = Cardinality(Mapped) + Cardinality(Unmapped)
        /\ data.valid = UNION Values

(***************************************************************************)
(* The device accepts every page: between flushes its write pointers are   *)
(* those of the block manager, every mapped value lies on a programmed     *)
(* page, and a GC in the middle of a flush, when pages were handed out and *)
(* not programmed, does not come in between.                               *)
(***************************************************************************)
DeviceFollows ==
    early = {} =>
        /\ ~data.refused
        /\ Idle => \A i \in Sblks : data.dev.wp[i] = data.b.wp[i]
        /\ Idle /\ ~data.aborted =>
               \A l \in Mapped : Dev!Readable(data.dev, data.table[l][1], data.table[l][2])

(***************************************************************************)
(* No ftl_assert of the block manager fails (no grain is validated twice,  *)
(* no invalid one invalidated, no page handed out of a full superblock),   *)
(* and no abort() is reached: dp_alloc finds a page, GC a victim, and the  *)
(* device accepts the pages of the flush.                                  *)
(***************************************************************************)
AssertsHold == early = {} => ~data.misuse /\ ~data.aborted

(***************************************************************************)
(* The reserve is erased and valid_cnt exact, so GC picks a superblock it  *)
(* can empty.                                                              *)
(***************************************************************************)
GcReady ==
    early = {} =>
        /\ data.b.wp[data.reserve] = 0 /\ data.b.rsv = data.reserve
        /\ \A i \in Sblks :
              data.b.vcnt[i] = Cardinality({ g \in data.valid : g[1] = i })

(***************************************************************************)
(* The assertion of _do_wb_flush, which aborts the program when the device *)
(* refuses one of its writes, whatever GC collected.                      *)
(***************************************************************************)
FlushAccepted == [][Flush => ~data'.aborted]_vars

=============================================================================
