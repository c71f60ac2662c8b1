----------------------------- MODULE MCCuckooScan -----------------------------
(***************************************************************************)
(* The instances of MCCuckooFilter with rounds of scans.                   *)
(***************************************************************************)
EXTENDS MCCuckooFilter, CuckooScan

\* Only the scanners scan.
NoPartitions == {}
=============================================================================
