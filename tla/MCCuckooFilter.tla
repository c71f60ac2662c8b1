---------------------------- MODULE MCCuckooFilter ----------------------------
(***************************************************************************)
(* Small instances of the filter for TLC.                                  *)
(***************************************************************************)
EXTENDS CuckooFilter, TLC

ThreadSymmetry == Permutations(Threads)

\* In a filter of two buckets "a", "b" and "d" share one pair of buckets, "b" and
\* "d" from the end where "a" has its second index; "c" and "e" have both indices in
\* one bucket; "a2" is a second key with the fingerprint and the pair of "a", the
\* other way round (its hash gives fingerprint 0, moved up to 1).  In a filter of
\* four buckets "c" has position 1, "d" positions 1 and 2, "f" 3 and 2.
KeyHashes ==
  [k \in Keys |->
     CASE k = "a"  -> [hi |-> 1, lo |-> {}]
       [] k = "f"  -> [hi |-> 4, lo |-> {0, 1}]
       [] k = "a2" -> [hi |-> 8, lo |-> {0, 5}]
       [] k = "b"  -> [hi |-> 3, lo |-> {0}]
       [] k = "c"  -> [hi |-> 2, lo |-> {0}]
       [] k = "d"  -> [hi |-> 5, lo |-> {0}]
       [] k = "e"  -> [hi |-> 6, lo |-> {}]]

FpHashes ==
  [fp \in Fingerprint |->
     CASE fp \in {2, 6} -> {3}
       [] fp = 5        -> {0, 1}
       [] OTHER         -> {0, 7}]

DefaultInsert == {[ttl |-> None, counter |-> None]}
DefaultLookup == {[ttl |-> None, counter_diff |-> None]}

TtlInsert == {[ttl |-> None, counter |-> None], [ttl |-> 3, counter |-> None]}
TtlLookup == {[ttl |-> None, counter_diff |-> None], [ttl |-> 1, counter_diff |-> None]}

WholeFilter == {<<1, 0>>}
=============================================================================
