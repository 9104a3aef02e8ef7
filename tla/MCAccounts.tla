----------------------------- MODULE MCAccounts -----------------------------
(***************************************************************************)
(* Constants for module Accounts: three requests on two instances; of the  *)
(* four passwords two agree in their first 72 bytes, and one is weak.      *)
(***************************************************************************)
EXTENDS Accounts

MCRequests == {"r1", "r2", "r3"}
MCInstances == {"a", "b"}
MCAt == [r \in MCRequests |-> IF r = "r3" THEN "b" ELSE "a"]
MCEmails == {"ram", "siya"}
MCPasswords == {"long1", "long2", "other", "weak"}
MCStrong == MCPasswords \ {"weak"}
MCFirst72 == [p \in MCPasswords |-> IF p \in {"long1", "long2"} THEN "long" ELSE p]
=============================================================================
