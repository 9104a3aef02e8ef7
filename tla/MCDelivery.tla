----------------------------- MODULE MCDelivery -----------------------------
(***************************************************************************)
(* Constants for module Delivery: two instances and a notification for     *)
(* ann, who has one device on each instance, or one next to a device of    *)
(* bob.                                                                    *)
(***************************************************************************)
EXTENDS Delivery

CONSTANTS a1, b1, b2, n1

MCInstances == {"a", "b"}
MCUsers == {"ann", "bob"}

OneNotif == {n1}

BothInstances == {a1, b1}
BothUsers == {b1, b2}

MCOwner == [s \in Sockets |-> IF s = b2 THEN "bob" ELSE "ann"]
MCHome == [s \in Sockets |-> IF s = a1 THEN "a" ELSE "b"]
MCReceiver == [n \in Notifs |-> "ann"]
=============================================================================
