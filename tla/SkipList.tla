------------------------------ MODULE SkipList ------------------------------
(***************************************************************************)
(* The skip list of tools/skiplist.c that the write buffer is made of.  A  *)
(* node is named by its key; the header carries key_max, above every key   *)
(* of a request, which ends each search.  The height of a new node is drawn *)
(* at random (getLevel).                                                   *)
(***************************************************************************)
EXTENDS Integers, FiniteSetsExt, SequencesExt

CONSTANTS Keys,       \* the keys, in the order of KEYCMP
          Values,
          MaxLevel    \* MAX_L - 1

SkipListAssumption == Keys \subseteq Nat /\ Keys # {} /\ MaxLevel \in Nat \ {0}

VARIABLES level, size,     \* of the skiplist
          height,          \* level of each node, 0 when there is none
          list,            \* list[n][i], the successor of node n on level i
          back,            \* the predecessor on level 1
          value,           \* of each node
          latest           \* what was last inserted under each key (history)

vars == <<level, size, height, list, back, value, latest>>

Header == 1 + Max(Keys)                 \* key_max
Nodes == Keys \cup {Header}
None == 0                               \* neither a node nor a value

skiplist_init ==
    /\ level = 1 /\ size = 0
    /\ height = [k \in Keys |-> 0]
    /\ list = [n \in Nodes |-> [i \in 1 .. MaxLevel |-> Header]]
    /\ back = [n \in Nodes |-> Header]
    /\ value = [k \in Keys |-> None]
    /\ latest = [k \in Keys |-> None]

\* The while loop of a search on level i, from node x.
AdvancePast(x, i, key) ==               \* mutant: <= for <
    LET go[n \in Nodes] == IF list[n][i] # Header /\ list[n][i] <= key THEN go[list[n][i]] ELSE n
    IN  go[x]

Advance(x, i, key) ==
    LET go[n \in Nodes] == IF list[n][i] < key THEN go[list[n][i]] ELSE n
    IN  go[x]

\* update[i], the node where the search leaves level i.
Update(key) ==
    LET from[i \in 1 .. level + 1] ==
            IF i = level + 1 THEN Header ELSE Advance(from[i + 1], i, key)
    IN  from

skiplist_find(key) ==
    LET n == list[Update(key)[1]][1] IN IF size # 0 /\ n = key THEN n ELSE None

\* Linking a new node of height h behind update; the levels above that of the list
\* start at the header.
LinkNode(key, h) ==
    LET at(i) == IF i > level THEN Header ELSE Update(key)[i]
    IN  /\ list' = [n \in Nodes |-> [i \in 1 .. MaxLevel |->
                       IF i <= h /\ n = key THEN list[at(i)][i]
                       ELSE IF i <= h /\ n = at(i) THEN key ELSE list[n][i]]]
        /\ LET after == list[at(1)][1]
           IN  back' = [back EXCEPT ![key] = back[after], ![after] = key]
        /\ level' = Max({level, h})
        /\ height' = [height EXCEPT ![key] = h]
        /\ size' = size + 1

skiplist_insert(key, v) ==
    /\ IF list[Update(key)[1]][1] = key
       THEN UNCHANGED <<level, size, height, list, back>>
       ELSE \E h \in 1 .. MaxLevel : LinkNode(key, h)
    /\ value' = [value EXCEPT ![key] = v]
    /\ latest' = [latest EXCEPT ![key] = v]

\* skiplist_free and a new skiplist_init, when the write buffer has been flushed.
skiplist_free ==
    /\ size > 0
    /\ level' = 1 /\ size' = 0
    /\ height' = [k \in Keys |-> 0]
    /\ list' = [n \in Nodes |-> [i \in 1 .. MaxLevel |-> Header]]
    /\ back' = [n \in Nodes |-> Header]
    /\ value' = [k \in Keys |-> None]
    /\ latest' = [k \in Keys |-> None]

Next == \/ \E key \in Keys, v \in Values : skiplist_insert(key, v)
        \/ skiplist_free

Spec == skiplist_init /\ [][Next]_vars

-----------------------------------------------------------------------------
\* What an iterator visits: skiplist_get_next until it is back at the header.
Visited ==
    LET from[n \in Nodes, k \in 0 .. Cardinality(Keys)] ==
            IF list[n][1] = Header \/ k = 0 THEN <<>> ELSE <<list[n][1]>> \o from[list[n][1], k - 1]
    IN  from[Header, Cardinality(Keys)]

(***************************************************************************)
(* The list is the map from key to last value, whatever heights were drawn: *)
(* a search finds every key inserted and no other, under its last value,   *)
(* although it sees only some nodes on each level; an iterator visits them *)
(* in key order, each once, and back leads through them the other way.     *)
(***************************************************************************)
IsMap ==
    /\ \A k \in Keys : /\ skiplist_find(k) = (IF latest[k] = None THEN None ELSE k)
                       /\ value[k] = latest[k]
    /\ Len(Visited) = size
    /\ ToSet(Visited) = { k \in Keys : latest[k] # None }
    /\ \A i \in 1 .. Len(Visited) - 1 : Visited[i] < Visited[i + 1]
    /\ \A i \in 1 .. Len(Visited) :
          back[Visited[i]] = IF i = 1 THEN Header ELSE Visited[i - 1]

=============================================================================
