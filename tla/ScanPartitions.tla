--------------------------- MODULE ScanPartitions ---------------------------
(***************************************************************************)
(* How the scans split the Vec of buckets between the threads of a caller  *)
(* (src/src/filter.rs, scan_and_update_full_partition and its siblings):   *)
(* partition index of total is a range of positions in a Vec of length len.*)
(***************************************************************************)
EXTENDS Integers

div_ceil(a, b) == (a + b - 1) \div b

\* Mutant: partitions are rounded down.
part_size_down(len, total) == len \div total

part_size(len, total) == div_ceil(len, total)

part_start(len, total, index) == index * part_size(len, total)

part_end(len, total, index) ==
  LET end == (index + 1) * part_size(len, total) IN IF end < len THEN end ELSE len

partition(len, total, index) ==
  part_start(len, total, index) .. part_end(len, total, index) - 1
=============================================================================
