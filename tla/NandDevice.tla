----------------------------- MODULE NandDevice -----------------------------
(***************************************************************************)
(* The device of module Nand under arbitrary commands of its client: every *)
(* write (well formed or not) and every trim the FTL could issue.          *)
(***************************************************************************)
EXTENDS Nand

CONSTANT MaxRun      \* bound on the pages of one write command

NandDeviceAssumption == NandAssumption /\ MaxRun \in Nat

VARIABLES dev,       \* the device
          rc         \* what the last write returned

nandVars == <<dev, rc>>

NandInit == dev = ssd_init /\ rc = Done

\* The pages of a command stay on the device (check_addr).
OnDevice(l, o, n) == l + (o + n - 1) \div PagesPerLine \in Lines

Write(l, o, n) ==
    /\ OnDevice(l, o, n)
    /\ LET w == ssd_write_ppa(dev, l, o, n)
       IN  dev' = w.dev /\ rc' = w.rc

Trim(l) == dev' = ssd_trim_block(dev, l) /\ rc' = Done

NandNext == \/ \E l \in Lines, o \in Offsets, n \in 1 .. MaxRun : Write(l, o, n)
            \/ \E l \in Lines : Trim(l)

NandSpec == NandInit /\ [][NandNext]_nandVars

-----------------------------------------------------------------------------
NandTypeOK == dev \in Device /\ rc \in {Done, Overwrite, OutOfOrder}

(***************************************************************************)
(* The two records the device keeps of a line, ppa_state and line_wp, agree *)
(* after every command, also after one that was refused half-way: the      *)
(* programmed pages are exactly those below the write pointer.             *)
(***************************************************************************)
PrefixWritten == \A l \in Lines : dev.state[l] = 0 .. dev.wp[l] - 1

(***************************************************************************)
(* The closed form the FTL modules use for a run inside a line is the loop *)
(* of the code: same device, and all pages accepted exactly when the loop  *)
(* returns a latency.                                                      *)
(***************************************************************************)
RunIsLoop ==
    \A l \in Lines, o \in Offsets, n \in 1 .. MaxRun :
        o + n <= PagesPerLine =>
            LET w == ssd_write_ppa(dev, l, o, n)
            IN  /\ w.dev = WriteRun(dev, l, o, n)
                /\ (w.rc = Done) <=> (Accepted(dev, l, o, n) = n)

\* Both: what the device records, and what the next command will do.
WrittenPrefix == PrefixWritten /\ RunIsLoop

(***************************************************************************)
(* A command appends to lines or erases one.  A write that the loop of     *)
(* ssd_write_ppa refuses at some page keeps its earlier pages, and these   *)
(* continue the line where it stood: no command ever leaves a hole or      *)
(* programs a page a second time between two trims.                        *)
(***************************************************************************)
AppendOrErase ==
    [][\A l \in Lines :
          \/ dev'.wp[l] = 0 /\ dev'.state[l] = {}
          \/ dev'.state[l] \ dev.state[l] = dev.wp[l] .. dev'.wp[l] - 1]_nandVars

=============================================================================
