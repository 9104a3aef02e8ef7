----------------------------- MODULE MCPresence -----------------------------
(***************************************************************************)
(* Two instances, two users.  The first user has two slots on instance a   *)
(* and one on b; the second user has one slot on each.                     *)
(***************************************************************************)
EXTENDS Presence

MCInstances == {"a", "b"}
MCUsers == {"ann", "bob"}
MCSockets == {"ann-a1", "ann-a2", "ann-b", "bob-a", "bob-b"}
MCOwner == [s \in MCSockets |-> IF s \in {"bob-a", "bob-b"} THEN "bob" ELSE "ann"]
MCHome == [s \in MCSockets |-> IF s \in {"ann-b", "bob-b"} THEN "b" ELSE "a"]
=============================================================================
