--------------------------- MODULE MCCuckooFilterSet ---------------------------
(***************************************************************************)
(* The instances of MCCuckooFilter for the refinement of CuckooSet.        *)
(***************************************************************************)
EXTENDS MCCuckooFilter, CuckooFilterSet
=============================================================================
