----------------------------- MODULE MCListing -----------------------------
(***************************************************************************)
(* Constants for module Listing: four rows, enough for two full pages and *)
(* for insertions before, between and after; some values are not valid.    *)
(***************************************************************************)
EXTENDS Listing, TLC

CONSTANTS n1, n2, n3, n4

MCIds == {n1, n2, n3, n4}
MCPages == 0..5
MCLimits == {0, 1, 2, 101}
Interchangeable == Permutations(MCIds)
=============================================================================
