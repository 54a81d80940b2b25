---- MODULE MCDataPath ----
(***************************************************************************)
(* What other state of the FTL has to agree with: the mappings with the    *)
(* data pages, under flushes and GC ("data", DataPath), and the hot table  *)
(* with the memory it moves ("hot", HotTable).  A behaviour runs one of    *)
(* them; the other one stays in its initial state.                         *)
(***************************************************************************)
EXTENDS DataPath, HotTable

CONSTANT r1     \* a request that meets the hot table

VARIABLE part

ASSUME HotTableAssumption

MCInit == Init /\ HotInit /\ part \in {"data", "hot"}

MCNext == /\ \/ part = "data" /\ Next /\ UNCHANGED hotVars
             \/ part = "hot" /\ HotNext /\ UNCHANGED vars
          /\ UNCHANGED part

MCSpec == MCInit /\ [][MCNext]_<<part, vars, hotVars>>
====
