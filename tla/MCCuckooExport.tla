---------------------------- MODULE MCCuckooExport ----------------------------
(***************************************************************************)
(* The instances of MCCuckooFilter for the filter and its export.          *)
(***************************************************************************)
EXTENDS MCCuckooFilter, CuckooExport
=============================================================================
