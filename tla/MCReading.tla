----------------------------- MODULE MCReading -----------------------------
(***************************************************************************)
(* Constants for module Reading: three requests, of the receiver of two    *)
(* notifications or of somebody else.                                      *)
(***************************************************************************)
EXTENDS Reading, TLC

CONSTANTS n1, n2, r1, r2, r3

MCUsers == {"ann", "bob"}
MCNotifs == {n1, n2}
MCMalformed == {"not-a-uuid"}
MCReceiver == [n \in MCNotifs |-> "ann"]
MCRequests == {r1, r2, r3}
Interchangeable == Permutations(MCNotifs) \cup Permutations(MCRequests)
=============================================================================
