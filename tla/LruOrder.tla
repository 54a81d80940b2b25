------------------------------ MODULE LruOrder ------------------------------
(***************************************************************************)
(* What the LRU list of tools/lru_list.c promises: its pages in the order  *)
(* of their last use, the most recent one first.  The heat of a page and   *)
(* whether it has an entry worth promoting belong to the page; the list    *)
(* only reads them.                                                        *)
(***************************************************************************)
EXTENDS Integers, FiniteSetsExt, SequencesExt

CONSTANTS Pages,      \* the mapping pages that may be listed
          MaxHeat,    \* bound on page_heat_sum
          TopPct,     \* COLD_LRU_PROMOTE_TOP_PCT
          MaxPick,    \* the most pages one call picks (LRU_PROMOTE_MAX_K)
          NULL

VARIABLES q,          \* the listed pages
          out,        \* what the last call returned
          heat,       \* page_heat_sum of each page
          marked      \* the pages with has_hot_entry

vars == <<q, out, heat, marked>>

\* lru_top_pct_window, of a list that is not empty.
Window(total) == Max({1, (total * TopPct + 99) \div 100})

InWindow == 1 .. Min({Len(q), Window(Len(q))})
Hottest == { i \in InWindow : /\ heat[q[i]] > 0
                              /\ \A j \in InWindow : heat[q[j]] <= heat[q[i]] }

Init == /\ q = <<>> /\ out = NULL
        /\ heat \in [Pages -> 0 .. MaxHeat] /\ marked \in SUBSET Pages

Push(p) == /\ ~Contains(q, p)
           /\ q' = <<p>> \o q /\ out' = p /\ UNCHANGED <<heat, marked>>

Pop == /\ IF q = <<>> THEN out' = NULL /\ UNCHANGED q
          ELSE out' = Last(q) /\ q' = Front(q)
       /\ UNCHANGED <<heat, marked>>

\* The first of the hottest pages near the front leaves; cold ones stay.
PopHot == /\ IF Hottest = {} THEN out' = NULL /\ UNCHANGED q
             ELSE out' = q[Min(Hottest)] /\ q' = RemoveAt(q, Min(Hottest))
          /\ UNCHANGED <<heat, marked>>

Use(p) == /\ Contains(q, p)
          /\ q' = <<p>> \o Remove(q, p) /\ out' = NULL /\ UNCHANGED <<heat, marked>>

Delete(p) == /\ Contains(q, p)
             /\ q' = Remove(q, p) /\ out' = NULL /\ UNCHANGED <<heat, marked>>

\* The marked pages near the front, up to k of them, in the order of the list.
PickMarked(k) ==
    LET found == SelectSeq(SubSeq(q, 1, Max({0} \cup InWindow)), LAMBDA p : p \in marked)
    IN  /\ out' = SubSeq(found, 1, Min({k, Len(found)}))
        /\ UNCHANGED <<q, heat, marked>>

\* Some k pages of positive heat near the front (all of them if they are fewer) such
\* that none left out is hotter than one taken.
PickTop(k) ==
    LET warm == { q[i] : i \in { j \in InWindow : heat[q[j]] > 0 } }
    IN  /\ out' \in { <<"top", S>> : S \in SUBSET warm }
        /\ Cardinality(out'[2]) = Min({k, Cardinality(warm)})
        /\ \A p \in out'[2], r \in warm \ out'[2] : heat[r] <= heat[p]
        /\ UNCHANGED <<q, heat, marked>>

Next == \/ \E p \in Pages : Push(p) \/ Use(p) \/ Delete(p)
        \/ Pop \/ PopHot
        \/ \E k \in 1 .. MaxPick : PickMarked(k) \/ PickTop(k)

Spec == Init /\ [][Next]_vars

=============================================================================
