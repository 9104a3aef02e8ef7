------------------------------ MODULE MCTyping ------------------------------
(***************************************************************************)
(* Constants for module Typing: two instances, with a device of the        *)
(* receiver on each; the sender types on one of them, or on both.          *)
(***************************************************************************)
EXTENDS Typing

MCInstances == {"a", "b"}
OneSender == {"a"}
TwoSenders == {"a", "b"}
MCDevices == {"phone", "laptop"}
MCHome == [d \in MCDevices |-> IF d = "phone" THEN "a" ELSE "b"]
=============================================================================
