------------------------------- MODULE LruList -------------------------------
(***************************************************************************)
(* The list of tools/lru_list.c, pointer by pointer.  It implements        *)
(* LruOrder.  A node is malloc'ed by lru_push and freed when its page      *)
(* leaves; nothing may read it then, so its fields are cleared.            *)
(***************************************************************************)
EXTENDS Integers, FiniteSetsExt, SequencesExt

CONSTANTS Pages, MaxHeat, TopPct, MaxPick,   \* as in LruOrder
          Nodes,                             \* the memory for nodes
          NULL

LruListAssumption == Cardinality(Nodes) >= Cardinality(Pages)

VARIABLES head, tail, size,         \* the LRU
          next, prev, data,         \* the fields of each NODE
          out, heat, marked         \* as in LruOrder

lru == <<head, tail, size, next, prev, data>>
vars == <<lru, out, heat, marked>>

Used == { n \in Nodes : data[n] # NULL }

lru_init ==
    /\ head = NULL /\ tail = NULL /\ size = 0
    /\ next = [n \in Nodes |-> NULL] /\ prev = [n \in Nodes |-> NULL]
    /\ data = [n \in Nodes |-> NULL]

Init == /\ lru_init /\ out = NULL
        /\ heat \in [Pages -> 0 .. MaxHeat] /\ marked \in SUBSET Pages

\* current = current->next from the head, at most k times.
Walk(k) ==
    LET from[n \in Nodes \cup {NULL}, i \in 0 .. k] ==
            IF n = NULL \/ i = 0 THEN <<>> ELSE <<n>> \o from[next[n], i - 1]
    IN  from[head, k]

TopWindow == Max({1, (size * TopPct + 99) \div 100})

\* list_up pushes a page only when it has no node (cmt->lru_ptr is NULL).
lru_push(p) ==
    /\ \A n \in Used : data[n] # p
    /\ \E now \in Nodes \ Used :
          /\ data' = [data EXCEPT ![now] = p]
          /\ next' = [next EXCEPT ![now] = head]
          /\ prev' = IF size = 0 THEN prev ELSE [prev EXCEPT ![head] = now]
          /\ head' = now
          /\ tail' = IF size = 0 THEN now ELSE tail
    /\ size' = size + 1 /\ out' = p
    /\ UNCHANGED <<heat, marked>>

\* What the node's neighbours, or the ends, point to once it is out of the list.  The
\* three cases of lru_pop_hot and lru_delete; lru_pop is the one of the tail.
UnlinkKeepsTail(now) ==                    \* mutant: the tail is not moved
    /\ head' = IF now = head THEN next[now] ELSE head
    /\ tail' = IF now = head /\ next[now] = NULL THEN NULL ELSE tail
    /\ next' = [n \in Nodes |-> IF n = now THEN NULL
                                ELSE IF n = prev[now] THEN next[now] ELSE next[n]]
    /\ prev' = [n \in Nodes |-> IF n = now THEN NULL
                                ELSE IF n = next[now] THEN prev[now] ELSE prev[n]]

Unlink(now) ==
    /\ head' = IF now = head THEN next[now] ELSE head
    /\ tail' = IF now = head /\ next[now] = NULL THEN NULL
               ELSE IF now = tail THEN prev[now] ELSE tail
    /\ next' = [n \in Nodes |-> IF n = now THEN NULL
                                ELSE IF n = prev[now] THEN next[now] ELSE next[n]]
    /\ prev' = [n \in Nodes |-> IF n = now THEN NULL
                                ELSE IF n = next[now] THEN prev[now] ELSE prev[n]]

Release(now) == /\ Unlink(now)
                /\ size' = size - 1
                /\ data' = [data EXCEPT ![now] = NULL]

lru_pop == /\ IF head = NULL \/ size = 0 THEN out' = NULL /\ UNCHANGED lru
              ELSE out' = data[tail] /\ Release(tail)
           /\ UNCHANGED <<heat, marked>>

\* One turn of the loop of lru_pop_hot: strictly hotter pages replace the target.
Hotter(best, n) == IF heat[data[n]] > best.heat
                   THEN [node |-> n, heat |-> heat[data[n]]] ELSE best

lru_pop_hot ==
    LET target == FoldLeft(Hotter, [node |-> NULL, heat |-> 0], Walk(TopWindow)).node
    IN  /\ IF size = 0 \/ target = NULL THEN out' = NULL /\ UNCHANGED lru
           ELSE out' = data[target] /\ Release(target)
        /\ UNCHANGED <<heat, marked>>

lru_update(now) ==
    /\ now \in Used
    /\ IF now = head THEN UNCHANGED lru
       ELSE /\ tail' = IF now = tail THEN prev[now] ELSE tail
            /\ next' = [n \in Nodes |-> IF n = now THEN head
                                        ELSE IF n = prev[now] THEN next[now] ELSE next[n]]
            /\ prev' = [n \in Nodes |-> IF n = now THEN NULL
                                        ELSE IF n = head THEN now
                                        ELSE IF n = next[now] THEN prev[now] ELSE prev[n]]
            /\ head' = now
            /\ UNCHANGED <<size, data>>
    /\ out' = NULL /\ UNCHANGED <<heat, marked>>

lru_delete(now) ==
    /\ now \in Used
    /\ Release(now) /\ out' = NULL /\ UNCHANGED <<heat, marked>>

\* The loop stops at target_k candidates or at the end of the window.
lru_pick_promote_hot_pages(k) ==
    LET Take(found, n) == IF Len(found) < k /\ data[n] \in marked
                          THEN Append(found, data[n]) ELSE found
    IN  /\ out' = IF size = 0 THEN <<>> ELSE FoldLeft(Take, <<>>, Walk(TopWindow))
        /\ UNCHANGED <<lru, heat, marked>>

\* lru_top_k_min_heat: the first candidate of least heat.
MinHeat(found) == CHOOSE i \in DOMAIN found :
    \A j \in DOMAIN found : \/ heat[found[i]] < heat[found[j]]
                            \/ heat[found[i]] = heat[found[j]] /\ i <= j

lru_pick_promote_top_k(k) ==
    LET Take(found, n) ==
            IF heat[data[n]] = 0 THEN found
            ELSE IF Len(found) < k THEN Append(found, data[n])
            ELSE IF heat[data[n]] > heat[found[MinHeat(found)]]
                 THEN [found EXCEPT ![MinHeat(found)] = data[n]] ELSE found
    IN  /\ out' = <<"top", ToSet(IF size = 0 THEN <<>> ELSE FoldLeft(Take, <<>>, Walk(TopWindow)))>>
        /\ UNCHANGED <<lru, heat, marked>>

Next == \/ \E p \in Pages : lru_push(p)
        \/ lru_pop \/ lru_pop_hot
        \/ \E n \in Nodes : lru_update(n) \/ lru_delete(n)
        \/ \E k \in 1 .. MaxPick : lru_pick_promote_hot_pages(k) \/ lru_pick_promote_top_k(k)

Spec == Init /\ [][Next]_vars

-----------------------------------------------------------------------------
\* The pages along next.  The other direction is what the pages leave by.
Forward == LET nodes == Walk(Cardinality(Nodes)) IN [i \in DOMAIN nodes |-> data[nodes[i]]]

Order == INSTANCE LruOrder WITH q <- Forward

\* Every call on the list is one on the order of use it stands for: lru_pop takes the
\* page used longest ago, lru_pop_hot and the picks choose as promised.
ImplementsOrder == Order!Spec

=============================================================================
