----------------------------- MODULE LevelArray -----------------------------
(***************************************************************************)
(* A level of the LSM tree (array.c, array_level.c, pipe.c): an array of   *)
(* runs, each a page of (key, ppa) entries.  Here a level is a sequence of *)
(* records [page, pbn], a page a sequence of entries [key, ppa] that       *)
(* bitmap[1] .. bitmap[bitmap[0]] point at.  A key is a number: its place  *)
(* in the order of KEYCMP.  Array indexes count from 0 as in the code.     *)
(***************************************************************************)
EXTENDS Integers, SequencesExt

CONSTANTS KeyLen,         \* KEYLEN: the bytes an entry of this key takes
          PageRoom,       \* PAGESIZE - KEYBITMAP
          NumLimit        \* KEYBITMAP / sizeof(uint16_t) - 2

NoPpa == -1               \* pbn of a run that is only in memory

FirstKey(run) == run.page[1].key            \* run->key
LastKey(run) == Last(run.page).key          \* run->end

Half(i) == IF i < 0 THEN 0 ELSE i \div 2    \* C divides towards zero

\* The binary search for the run a key belongs to: the one with that first key, else where
\* the search ends, wherever the key lies.  NoRun for an empty level.
NoRun == -1

array_find_run(runs, k) ==
    LET search[s \in 0 .. Len(runs), e \in -1 .. Len(runs) - 1] ==
            LET mid == Half(s + e)
                first == FirstKey(runs[mid + 1])
                s2 == IF first < k THEN mid + 1 ELSE s
                e2 == IF first > k THEN mid - 1 ELSE e
            IN  IF first = k THEN mid
                ELSE IF s2 > e2 THEN Half(s2 + e2) ELSE search[s2, e2]
    IN  IF runs = <<>> THEN NoRun ELSE search[0, Len(runs) - 1]

\* The entries of the page with this key: one or none.
array_find_keyset(page, k) ==
    LET search[s \in 1 .. Len(page) + 1, e \in 0 .. Len(page)] ==
            LET mid == Half(s + e)
            IN  IF s > e THEN {}
                ELSE IF page[mid].key = k THEN {page[mid]}
                ELSE IF page[mid].key < k THEN search[mid + 1, e] ELSE search[s, mid - 1]
    IN  search[1, Len(page)]

-----------------------------------------------------------------------------
\* array_pipe_merger: two sorted streams of entries into one.  Of two entries with one key
\* the upper level's is taken, and the lower one's ppa is invalidated.
MergeLower(upper, lower) ==           \* mutant: the lower level's entry is taken
    LET keys == { e.key : e \in ToSet(upper) \cup ToSet(lower) }
        entry(k) == CHOOSE e \in ToSet(upper) \cup ToSet(lower) :
                        e.key = k /\ (e \in ToSet(lower) \/ \A f \in ToSet(lower) : f.key # k)
    IN  [out |-> LET ks == SetToSortSeq(keys, LAMBDA i, j : i < j) IN [i \in DOMAIN ks |-> entry(ks[i])],
         dead |-> {}]

MergeForgets(upper, lower) ==         \* mutant: the entry that is kept is the one invalidated
    LET from[h \in 1 .. Len(upper) + 1, l \in 1 .. Len(lower) + 1] ==
            IF h > Len(upper) THEN [out |-> SubSeq(lower, l, Len(lower)), dead |-> {}]
            ELSE IF l > Len(lower) THEN [out |-> SubSeq(upper, h, Len(upper)), dead |-> {}]
            ELSE LET hk == upper[h].key
                     lk == lower[l].key
                     r == from[IF lk < hk THEN h ELSE h + 1, IF lk > hk THEN l ELSE l + 1]
                 IN  [out |-> <<IF lk < hk THEN lower[l] ELSE upper[h]>> \o r.out,
                      dead |-> IF lk < hk THEN {lower[l].ppa} \cup r.dead ELSE r.dead]
    IN  from[1, 1]

array_pipe_merger(upper, lower) ==
    LET from[h \in 1 .. Len(upper) + 1, l \in 1 .. Len(lower) + 1] ==
            IF h > Len(upper) THEN [out |-> SubSeq(lower, l, Len(lower)), dead |-> {}]
            ELSE IF l > Len(lower) THEN [out |-> SubSeq(upper, h, Len(upper)), dead |-> {}]
            ELSE LET hk == upper[h].key
                     lk == lower[l].key
                     r == from[IF lk < hk THEN h ELSE h + 1, IF lk > hk THEN l ELSE l + 1]
                 IN  [out |-> <<IF lk < hk THEN lower[l] ELSE upper[h]>> \o r.out,
                      dead |-> IF lk = hk THEN {lower[l].ppa} \cup r.dead ELSE r.dead]
    IN  from[1, 1]

\* Bytes of a page of entries.
PageLength(page) == FoldLeft(LAMBDA n, e : n + KeyLen[e.key], 0, page)

\* pbody_insert_new_key: into the page being filled, or a new one when it is full.
pbody_insert_new_key(pages, entry) ==
    IF \/ pages = <<>>
       \/ Len(Last(pages)) >= NumLimit - 1
       \/ PageLength(Last(pages)) + KeyLen[entry.key] > PageRoom
    THEN Append(pages, <<entry>>)
    ELSE Front(pages) \o <<Append(Last(pages), entry)>>

\* array_pipe_cutter: the pages of the merged stream.
Cutter(entries) == FoldLeft(pbody_insert_new_key, <<>>, entries)

\* data_from_run, pbody_get_next_key: all the entries of the runs, as the merger reads them.
Stream(runs) == FlattenSeq([i \in DOMAIN runs |-> runs[i].page])

-----------------------------------------------------------------------------
\* What the searches and the merger count on.
Sorted(runs) == \A i, j \in DOMAIN Stream(runs) : i < j => Stream(runs)[i].key < Stream(runs)[j].key

PagesFit(runs) == \A i \in DOMAIN runs : /\ runs[i].page # <<>>
                                         /\ PageLength(runs[i].page) <= PageRoom
                                         /\ Len(runs[i].page) <= NumLimit
=============================================================================
