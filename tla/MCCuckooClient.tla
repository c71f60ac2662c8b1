---------------------------- MODULE MCCuckooClient ----------------------------
(***************************************************************************)
(* The instances of MCCuckooFilter with the programs that use the filter.  *)
(***************************************************************************)
EXTENDS MCCuckooFilter, CuckooClient

\* Every thread uses all keys.
AllOwn == [t \in Threads |-> Keys]
=============================================================================
