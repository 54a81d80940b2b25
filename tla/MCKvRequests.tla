---- MODULE MCKvRequests ----
(***************************************************************************)
(* The requests for keys, KvRequests, and where their values go in the     *)
(* build with DATA_SEGREGATION, Streams.  A behaviour runs one part; the   *)
(* state of the other stays as it is initially.                            *)
(*                                                                         *)
(*  "keys"    KvRequests: keys 1, 2 and 4 have the same hash, 1 and 2 the  *)
(*            same fingerprint too; the second probe of all three is the   *)
(*            first of key 3; key 5 is never stored, has the fingerprint   *)
(*            of an initial entry and the page of the others' first probe. *)
(*            A key has three probes, and the buffer is flushed when it    *)
(*            holds two keys                                               *)
(*  "live"    the same with fewer requests, for keys 1 and 2, and with the *)
(*            fairness of algo_thread                                      *)
(*  "streams" Streams with two streams of two lpas, and a flush of three   *)
(*            entries, so that each flush continues pages of the last one  *)
(***************************************************************************)
EXTENDS KvRequests, Streams

CONSTANT Few               \* requests of "live"

VARIABLE part

\* Of keys 1 to 5.
HashClash == <<0, 0, 2, 0, 1>>
FpClash == <<1, 1, 2, 3, 0>>

ASSUME KvAssumption /\ StreamsAssumption

MCInit == Init /\ SegInit /\ part \in {"keys", "live", "streams"}

\* What is submitted: keys 3 and 4 are there to be in the way of others, and are not got.
InPart == \A r \in Requests : op'[r] # NoOp =>
    /\ op'[r].key \in {3, 4} => op'[r].type = "set"
    /\ op'[r].key = 5 => op'[r].type = "get"
    /\ part = "live" => r <= Few /\ op'[r].key <= 2

MCNext == /\ \/ /\ part \in {"keys", "live"} /\ Next /\ InPart
                /\ UNCHANGED streamVars
             \/ part = "streams" /\ SegNext /\ UNCHANGED vars
          /\ UNCHANGED part

MCvars == <<part, vars, streamVars>>

Fairness == WF_MCvars(part = "live" /\ algo_thread /\ UNCHANGED <<part, streamVars>>)

MCSpec == MCInit /\ [][MCNext]_MCvars /\ Fairness

-----------------------------------------------------------------------------
\* Every submitted request is answered, unless the program aborts (EventuallyAnswered of
\* KvRequests).
RequestAnswered == \A r \in 1 .. Few :
    (part = "live" /\ op[r] # NoOp) ~> (part = "live" /\ (answers[r] # <<>> \/ aborted))
====
