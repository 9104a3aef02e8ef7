--------------------------- MODULE MCReadReceipts ---------------------------
(***************************************************************************)
(* Constants for module ReadReceipts: two instances, with a device of the  *)
(* sender on each, and three reads, two handled by a and one by b.         *)
(***************************************************************************)
EXTENDS ReadReceipts

MCInstances == {"a", "b"}
MCDevices == {"phone", "laptop"}
MCHome == [d \in MCDevices |-> IF d = "phone" THEN "a" ELSE "b"]
MCRequests == 1..3
MCVia == [r \in MCRequests |-> IF r = 2 THEN "b" ELSE "a"]
=============================================================================
