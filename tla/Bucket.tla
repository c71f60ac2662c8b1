-------------------------------- MODULE Bucket --------------------------------
(***************************************************************************)
(* A bucket (src/src/bucket.rs): a fixed array of slots.  Every method is  *)
(* an operator from the bucket before it to the bucket after it, together  *)
(* with the condition under which it returns true.  The filter runs each   *)
(* of them with the bucket's mutex held, so each is one atomic step.       *)
(***************************************************************************)
EXTENDS DataBlock, FiniteSets

CONSTANT BucketSize

ASSUME BucketSizeIsPositive == BucketSize \in Nat \ {0}

Slots == 0 .. BucketSize - 1

BucketStates == [Slots -> DataBlocks]

EmptyBucket == [i \in Slots |-> ResetBlock]

\* The methods scan the slots upwards and act on the first that qualifies.
first(S) == CHOOSE i \in S : \A j \in S : i <= j

holding(b, fp) == {i \in Slots : b[i].fp = fp}

-----------------------------------------------------------------------------
(* insert: the scan stops at a slot with this fingerprint or at an empty    *)
(* one, whichever comes first; it merges into the former and fills the      *)
(* latter.  insert returns false when there is no such slot.                *)

\* Mutant: the scan does not go on at a slot held by another fingerprint.
landing_anywhere(b, fp) == Slots

landing(b, fp) == {i \in Slots : b[i].fp = fp \/ is_empty(b[i].fp)}

inserts(b, d) == landing(b, d.fp) # {}

insert(b, d) ==
  [b EXCEPT ![first(landing(b, d.fp))] =
     IF @.fp = d.fp THEN merge_associated_from(@, d) ELSE d]

-----------------------------------------------------------------------------
(* Kicks swap the caller's block with the block of slot i. *)

swap(b, i, d) == [b EXCEPT ![i] = d]

\* kick_random picks any slot, occupied or not.
kick_random(b) == Slots

\* Mutant: a block as much used as the one in hand may be kicked.
kick_lru_ties(b, d, new_item) ==
  LET lowest == {i \in Slots : /\ new_item \/ b[i].lru <= d.lru
                               /\ \A j \in Slots : b[i].lru <= b[j].lru}
  IN  {i \in lowest : \A j \in lowest : i <= j}

\* Mutant: a new item, too, only kicks a block less used than it is itself.
kick_lru_no_guarantee(b, d, new_item) ==
  LET lowest == {i \in Slots : /\ b[i].lru < d.lru
                               /\ \A j \in Slots : b[i].lru <= b[j].lru}
  IN  {i \in lowest : \A j \in lowest : i <= j}

\* kick_lru picks the first slot with the lowest counter, provided it is
\* below the counter of the block in hand (below u32::MAX for a new item).
kick_lru(b, d, new_item) ==
  LET min    == IF new_item THEN U32Max ELSE d.lru
      lowest == {i \in Slots : /\ b[i].lru < min
                               /\ \A j \in Slots : b[i].lru <= b[j].lru}
  IN  {i \in lowest : \A j \in lowest : i <= j}

-----------------------------------------------------------------------------
contains(b, fp) == holding(b, fp) # {}

\* contains and get_associated_data update the first block they find.
look_up(b, fp, update) ==
  [b EXCEPT ![first(holding(b, fp))] = touch(@, update)]

remove(b, fp) == [b EXCEPT ![first(holding(b, fp))] = ResetBlock]

age_lru_counters(b) ==
  [i \in Slots |-> IF occupied(b[i]) THEN age_lru_counter(b[i]) ELSE b[i]]

age_ttl_counters(b) ==
  [i \in Slots |-> IF occupied(b[i]) THEN age_ttl_counter(b[i]) ELSE b[i]]

\* Mutant: every slot the aging leaves empty counts as one it has emptied.
cleared_or_empty(before, after) ==
  Cardinality({i \in Slots : ~occupied(after[i])})

\* The number both aging methods return: the blocks they have reset.
cleared(before, after) ==
  Cardinality({i \in Slots : occupied(before[i]) /\ ~occupied(after[i])})
=============================================================================
