---- MODULE MCStructures ----
(***************************************************************************)
(* The data structures and small algorithms the FTL rests on, each against *)
(* what its clients take it for.  A behaviour runs one of them; the others *)
(* stay in their initial state.  The ring is RteRing itself, with two      *)
(* threads at either end and counters that wrap, the device NandDevice     *)
(* itself, with commands that may be refused half-way.  Two parts more are *)
(* the Block SSD:                                                          *)
(*                                                                         *)
(*  "reads"   BlockSsd itself, a read beside the writes, two cached        *)
(*            mapping pages                                                *)
(*  "flush"   two entries to a flush, a cache of one mapping page and      *)
(*            superblocks of three pages; the lpas and their mapping pages *)
(*            are the same, so that GetIsRight and NodesSound mean the     *)
(*            same in both                                                 *)
(***************************************************************************)
EXTENDS RteRing, NandDevice, BlockSsd, TLC

CONSTANTS a, b, c,             \* requests of the timed queue
          n1, n2, n3,          \* nodes of its list
          NULL

Symmetry == Permutations({n1, n2, n3})

VARIABLES part,
          now, etime, order, arrivals, head, last, size, next, prev, payload, used,
          items

algoVars == <<now, etime, order, arrivals, head, last, size, next, prev, payload, used>>

Algo == INSTANCE AlgoList
    WITH Requests <- {a, b, c}, Slack <- 1, MaxTime <- 2, MaxArrivals <- 4,
         Nodes <- {n1, n2, n3}
Pack == INSTANCE PackingCheck WITH GrainsPerPage <- 4, MaxItems <- 5

BlkFlush == INSTANCE BlockSsd
    WITH PagesPerSblk <- 3, MaxCached <- 1, MaxWb <- 2, Readers <- {}

ASSUME RteRingAssumption /\ Algo!AlgoListAssumption
ASSUME NandDeviceAssumption /\ Pack!PackingAssumption
ASSUME BlockSsdAssumption /\ BlkFlush!BlockSsdAssumption

MCInit == /\ part \in {"algo", "ring", "nand", "pack", "reads", "flush"}
          /\ Init /\ Algo!Init /\ NandInit /\ Pack!Init
          /\ IF part = "flush" THEN BlkFlush!BlockInit ELSE BlockInit

structVars == <<vars, algoVars, nandVars, items>>

MCNext == /\ \/ /\ part = "ring" /\ Next
                /\ UNCHANGED <<algoVars, nandVars, items, blockVars>>
             \/ /\ part = "algo" /\ Algo!Next
                /\ UNCHANGED <<vars, nandVars, items, blockVars>>
             \/ /\ part = "nand" /\ NandNext
                /\ UNCHANGED <<vars, algoVars, items, blockVars>>
             \/ /\ part = "pack" /\ Pack!Next
                /\ UNCHANGED <<vars, algoVars, nandVars, blockVars>>
             \/ part = "reads" /\ BlockNext /\ UNCHANGED structVars
             \/ part = "flush" /\ BlkFlush!BlockNext /\ UNCHANGED structVars
          /\ UNCHANGED part

MCSpec == MCInit /\ [][MCNext]_<<part, structVars, blockVars>>

-----------------------------------------------------------------------------
\* The linked list of algo_queue.c is the timed queue of module AlgoQueue: ImplementsQueue of
\* AlgoList, and no other part touches the list.
ImplementsQueue ==
    Algo!Queue!QueueInit /\ [][part = "algo" /\ Algo!Queue!QueueNext]_(Algo!Queue!queueVars)

\* The packing of values into pages places each apart from the others, in as few pages
\* as any packing could.
FewestPages == part = "pack" => Pack!PlacedApart /\ Pack!FewestPages
====
