---------------------------- MODULE PackingCheck ----------------------------
(***************************************************************************)
(* Packing against its reference: every collection of up to MaxItems       *)
(* values, built one value at a time in the order of collection.           *)
(***************************************************************************)
EXTENDS Packing

CONSTANT MaxItems         \* bound on the values packed together

VARIABLE items            \* the values collected so far

Init == items = <<>>

Next == /\ Len(items) < MaxItems
        /\ \E n \in 1 .. GrainsPerPage :
              items' = Append(items, [id |-> Len(items) + 1, len |-> n])

Spec == Init /\ [][Next]_items

Lens == [i \in 1 .. Len(items) |-> items[i].len]

\* The grains a placed value covers on its page.
Extent(p) == p.off .. p.off + p.item.len - 1

(***************************************************************************)
(* Every value is placed exactly once, inside a page, on grains no other   *)
(* value of that page has: two values of one flush never share a grain.    *)
(***************************************************************************)
PlacedApart ==
    LET placed == Pack(items) IN
    /\ { p.item : p \in placed } = { items[i] : i \in DOMAIN items }
    /\ Cardinality(placed) = Len(items)
    /\ \A p \in placed : Extent(p) \subseteq 0 .. GrainsPerPage - 1
    /\ \A p1, p2 \in placed :
          p1 # p2 /\ p1.page = p2.page => Extent(p1) \cap Extent(p2) = {}

(***************************************************************************)
(* No packing needs fewer pages.  GC relies on it without saying so: what  *)
(* it collects from the pages of one superblock must fit into the pages of *)
(* the reserve, which has no more of them.                                 *)
(***************************************************************************)
FitsIn(n) ==
    \E where \in [1 .. Len(items) -> 1 .. n] :
        \A k \in 1 .. n :
            FoldSet(LAMBDA i, sum : sum + Lens[i], 0,
                    { i \in 1 .. Len(items) : where[i] = k }) <= GrainsPerPage

FewestPages ==
    items # <<>> => LET used == PagesUsed(Pack(items))
                    IN  used = 1 \/ ~FitsIn(used - 1)

=============================================================================
