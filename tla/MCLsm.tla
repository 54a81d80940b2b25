---- MODULE MCLsm ----
(***************************************************************************)
(* LsmTree on a small instance: as in MCBackground, but with as many sets  *)
(* as one compaction needs.                                                *)
(***************************************************************************)
EXTENDS LsmTree, TLC

SmallKeyLen == <<1, 1, 2, 2, 2, 2>>
Once == <<4, 4, 8>> :> <<1, 1, 1, 1, 0, 0>>
====
