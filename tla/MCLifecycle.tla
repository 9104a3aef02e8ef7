----------------------------- MODULE MCLifecycle -----------------------------
(***************************************************************************)
(* Constants for module Lifecycle: two client connections, and two signals *)
(* to each process, be they different ones or the same one twice.          *)
(***************************************************************************)
EXTENDS Lifecycle, TLC

CONSTANTS c1, c2

MCClients == {c1, c2}
MCSignals == {"first signal", "second signal"}

\* A single interruption, as in the documented test.
OneSignal == {"first signal"}
=============================================================================
