--------------------------- MODULE MCLookupHistory ---------------------------
(* The instances of MCCuckooFilter, with the history of the lookups. *)
EXTENDS LookupHistory, MCCuckooFilter
=============================================================================
