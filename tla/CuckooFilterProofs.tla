-------------------------- MODULE CuckooFilterProofs --------------------------
(***************************************************************************)
(* Theorems about the filter, for any number of threads, keys, buckets,    *)
(* slots and kicks, any hash functions and any widths of the fields, after *)
(* the lemmas on what the operations on blocks and buckets return: what    *)
(* holds of its state, what may leave it, and what its counter counts.     *)
(***************************************************************************)
EXTENDS CuckooFilter, Arithmetic

-----------------------------------------------------------------------------
(* Fields. *)

\* Masking a value leaves one that fits the field (data_block.rs, store_bits).
LEMMA StoredFits ==
  ASSUME NEW mask \in Nat, NEW value \in Int
  PROVE  store_bits(mask, value) \in 0 .. mask
BY DEF store_bits

\* So does saturating it at the mask (data_block.rs, value_mask as maximum).
LEMMA SaturatedFits ==
  ASSUME NEW mask \in Nat, NEW value \in Nat
  PROVE  saturate(mask, value) \in 0 .. mask
BY DEF saturate

\* The saturating operations of u32 do not leave u32.
LEMMA SaturatingStays ==
  /\ \A a, b \in Nat : saturating_add(a, b) \in Nat
  /\ \A a \in Nat, by \in Int : saturating_add_signed(a, by) \in Nat
BY ConstantsAreU32 DEF saturating_add, saturating_add_signed

\* The masks are numbers, and 0 is a value of every field.
LEMMA Masks ==
  /\ FpMask \in Nat /\ FpMask > 0 /\ LruMask \in Nat /\ TtlMask \in Nat /\ CounterMask \in Nat
  /\ LruStartingValue \in Nat /\ LruIncrement \in Nat /\ LruDecrement \in Nat
  /\ TtlDefault \in Nat /\ ChangeOnInsert \in Int /\ ChangeOnLookup \in Int
BY ConstantsAreU32 DEF U32, I32

\* The values of u32 and i32 are numbers.
LEMMA Numbers == (\A x \in U32 : x \in Nat) /\ (\A x \in I32 : x \in Int)
BY ConstantsAreU32 DEF U32, I32

\* The fingerprint of a key is a value of the field, and not 0, which marks an
\* empty slot (data_block.rs, Fingerprint::new).
LEMMA FingerprintNew ==
  ASSUME NEW hash \in Nat
  PROVE  fingerprint_new(hash, FpMask) \in Fingerprint \ {0}
BY Masks DEF fingerprint_new, Fingerprint

-----------------------------------------------------------------------------
(* Blocks. *)

\* A reset block is a block (data_block.rs, reset).
LEMMA ResetBlockType == ResetBlock \in DataBlocks
BY Masks DEF ResetBlock, DataBlocks, Fingerprint

\* Changing the counter of a block keeps it in its field and leaves the
\* fingerprint alone (data_block.rs, update_counter).
LEMMA UpdateCounterType ==
  ASSUME NEW d \in DataBlocks, NEW by \in Int
  PROVE  /\ update_counter(d, by) \in DataBlocks
         /\ update_counter(d, by).fp = d.fp
<1>1. d.counter \in Nat
  BY Masks DEF DataBlocks
<1>2. saturate(CounterMask, saturating_add_signed(d.counter, by)) \in 0 .. CounterMask
  BY <1>1, Masks, SaturatingStays, SaturatedFits
<1>. QED
  BY <1>2 DEF update_counter, DataBlocks

\* So does setting the TTL, which is masked (data_block.rs, set_ttl).
LEMMA SetTtlType ==
  ASSUME NEW d \in DataBlocks, NEW ttl \in Int
  PROVE  /\ set_ttl(d, ttl) \in DataBlocks
         /\ set_ttl(d, ttl).fp = d.fp
BY Masks, StoredFits DEF set_ttl, DataBlocks

\* So do the first and the next value of the LRU counter (data_block.rs,
\* init_lru_counter and inc_lru_counter).
LEMMA LruCounterType ==
  ASSUME NEW d \in DataBlocks
  PROVE  /\ init_lru_counter(d) \in DataBlocks /\ init_lru_counter(d).fp = d.fp
         /\ inc_lru_counter(d) \in DataBlocks /\ inc_lru_counter(d).fp = d.fp
<1>1. d.lru \in Nat
  BY Masks DEF DataBlocks
<1>2. /\ saturate(LruMask, LruStartingValue) \in 0 .. LruMask
      /\ saturate(LruMask, saturating_add(d.lru, LruIncrement)) \in 0 .. LruMask
  BY <1>1, Masks, SaturatingStays, SaturatedFits
<1>. QED
  BY <1>2 DEF init_lru_counter, inc_lru_counter, DataBlocks

\* The block of an insertion carries the fingerprint of its key
\* (filter.rs, new_data_block).
LEMMA NewDataBlockType ==
  ASSUME NEW fp \in Fingerprint, NEW defaults \in InsertValues
  PROVE  /\ new_data_block(fp, defaults) \in DataBlocks
         /\ new_data_block(fp, defaults).fp = fp
<1> DEFINE stored  == [ResetBlock EXCEPT !.fp = store_bits(FpMask, fp)]
           timed   == set_ttl(stored, unwrap_or(defaults.ttl, TtlDefault))
           counted == update_counter(timed, unwrap_or(defaults.counter, ChangeOnInsert))
<1>1. store_bits(FpMask, fp) = fp
  BY Masks DEF store_bits, Fingerprint
<1>2. stored \in DataBlocks /\ stored.fp = fp
  BY <1>1, ResetBlockType DEF DataBlocks, ResetBlock
<1>3. /\ unwrap_or(defaults.ttl, TtlDefault) \in Int
      /\ unwrap_or(defaults.counter, ChangeOnInsert) \in Int
  <2>1. /\ defaults.ttl \in U32 \cup {None}
        /\ defaults.counter \in I32 \cup {None}
    BY DEF InsertValues
  <2>. QED
    BY <2>1, Masks, Numbers DEF unwrap_or
<1> HIDE DEF stored
<1>4. timed \in DataBlocks /\ timed.fp = fp
  BY <1>2, <1>3, SetTtlType
<1> HIDE DEF timed
<1>5. counted \in DataBlocks /\ counted.fp = fp
  BY <1>3, <1>4, UpdateCounterType
<1> HIDE DEF counted
<1>6. init_lru_counter(counted) \in DataBlocks /\ init_lru_counter(counted).fp = fp
  BY <1>5, LruCounterType
<1>. QED
  BY <1>6 DEF new_data_block, counted, timed, stored

\* A lookup changes the counters of a block, not its fingerprint
\* (bucket.rs, contains and get_associated_data).
LEMMA TouchType ==
  ASSUME NEW d \in DataBlocks, NEW update \in LookupValues
  PROVE  touch(d, update) \in DataBlocks /\ touch(d, update).fp = d.fp
<1> DEFINE counted == update_counter(d, unwrap_or(update.counter_diff, ChangeOnLookup))
           timed   == IF update.ttl = None THEN counted ELSE set_ttl(counted, update.ttl)
<1>1. unwrap_or(update.counter_diff, ChangeOnLookup) \in Int
  <2>1. update.counter_diff \in I32 \cup {None}
    BY DEF LookupValues
  <2>. QED
    BY <2>1, Masks, Numbers DEF unwrap_or
<1>2. counted \in DataBlocks /\ counted.fp = d.fp
  BY <1>1, UpdateCounterType
<1> HIDE DEF counted
<1>3. update.ttl # None => update.ttl \in Int
  <2>1. update.ttl \in U32 \cup {None}
    BY DEF LookupValues
  <2>. QED
    BY <2>1, Numbers
<1>4. timed \in DataBlocks /\ timed.fp = d.fp
  BY <1>2, <1>3, SetTtlType
<1> HIDE DEF timed
<1>5. inc_lru_counter(timed) \in DataBlocks /\ inc_lru_counter(timed).fp = d.fp
  BY <1>4, LruCounterType
<1>. QED
  BY <1>5 DEF touch, timed, counted

\* Merging keeps the fingerprint of the stored block, and every field in its
\* bits (data_block.rs, merge_associated_from).
LEMMA MergeType ==
  ASSUME NEW d \in DataBlocks, NEW other \in DataBlocks
  PROVE  /\ merge_associated_from(d, other) \in DataBlocks
         /\ merge_associated_from(d, other).fp = d.fp
<1>1. /\ d.lru \in Nat /\ other.lru \in Nat
      /\ d.counter \in Nat /\ other.counter \in Nat
  BY Masks DEF DataBlocks
<1>2. /\ saturate(LruMask, saturating_add(d.lru, other.lru)) \in 0 .. LruMask
      /\ saturate(CounterMask, saturating_add(d.counter, other.counter)) \in 0 .. CounterMask
  BY <1>1, Masks, SaturatingStays, SaturatedFits
<1>. QED
  BY <1>2 DEF merge_associated_from, DataBlocks

\* Aging keeps a block or resets it (data_block.rs, age_lru_counter and
\* age_ttl_counter).
LEMMA AgeType ==
  ASSUME NEW d \in DataBlocks
  PROVE  /\ age_lru_counter(d) \in DataBlocks /\ age_lru_counter(d).fp \in {d.fp, 0}
         /\ age_ttl_counter(d) \in DataBlocks /\ age_ttl_counter(d).fp \in {d.fp, 0}
<1>1. d.lru \in Nat /\ d.ttl \in Nat
  BY Masks DEF DataBlocks
<1>2. age_value(d.lru) \in Int
  <2>1. d.lru \div 2 \in Int
    BY <1>1
  <2>2. saturating_sub(d.lru, LruDecrement) \in Int
    BY <1>1, Masks DEF saturating_sub
  <2>. QED
    BY <2>1, <2>2 DEF age_value
<1>3. store_bits(LruMask, age_value(d.lru)) \in 0 .. LruMask
  BY <1>2, Masks, StoredFits
<1>4. saturating_sub(d.ttl, 1) \in 0 .. TtlMask
  BY <1>1, Masks DEF saturating_sub, DataBlocks
<1>5. age_lru_counter(d) \in DataBlocks /\ age_lru_counter(d).fp \in {d.fp, 0}
  BY <1>3, ResetBlockType DEF age_lru_counter, DataBlocks, ResetBlock
<1>6. age_ttl_counter(d) \in DataBlocks /\ age_ttl_counter(d).fp \in {d.fp, 0}
  BY <1>4, ResetBlockType DEF age_ttl_counter, DataBlocks, ResetBlock
<1>. QED
  BY <1>5, <1>6

-----------------------------------------------------------------------------
(* Buckets. *)

\* A bucket has slots, and they are numbered from 0.
LEMMA SlotNumbers == (\A i \in Slots : i \in Nat) /\ Slots # {} /\ 0 \in Slots
BY BucketSizeIsPositive DEF Slots

\* A slot of a bucket holds a block.
LEMMA BlockOf ==
  ASSUME NEW b \in BucketStates, NEW i \in Slots
  PROVE  b[i] \in DataBlocks /\ b[i].fp \in Fingerprint
BY DEF BucketStates, DataBlocks

\* The scan over the slots stops at the first that qualifies, if any does.
LEMMA FirstIsLeast ==
  ASSUME NEW S \in SUBSET Nat, S # {}
  PROVE  first(S) \in S /\ \A r \in S : first(S) <= r
<1>1. PICK x \in S : \A r \in S : x <= r
  BY Least
<1>. QED
  BY <1>1 DEF first

\* In particular, it stops at a slot.
LEMMA FirstSlot ==
  ASSUME NEW S \in SUBSET Slots, S # {}
  PROVE  first(S) \in S
BY FirstIsLeast, SlotNumbers

\* A bucket starts with empty slots (bucket.rs, new).
LEMMA EmptyBucketType ==
  /\ EmptyBucket \in BucketStates
  /\ \A i \in Slots : EmptyBucket[i].fp = 0
BY ResetBlockType DEF EmptyBucket, BucketStates, ResetBlock

\* A kick exchanges one slot and leaves the others (bucket.rs, kick_random and
\* kick_lru).
LEMMA SwapType ==
  ASSUME NEW b \in BucketStates, NEW i \in Slots, NEW d \in DataBlocks
  PROVE  /\ swap(b, i, d) \in BucketStates
         /\ \A j \in Slots : swap(b, i, d)[j] = IF j = i THEN d ELSE b[j]
BY DEF swap, BucketStates

\* insert writes one slot, which was empty or had the fingerprint of the block,
\* and which has it afterwards (bucket.rs, insert).
LEMMA InsertType ==
  ASSUME NEW b \in BucketStates, NEW d \in DataBlocks, inserts(b, d)
  PROVE  /\ insert(b, d) \in BucketStates
         /\ \E i \in Slots : /\ b[i].fp \in {0, d.fp}
                             /\ insert(b, d)[i].fp = d.fp
                             /\ \A j \in Slots \ {i} : insert(b, d)[j] = b[j]
<1> DEFINE i == first(landing(b, d.fp))
           new == IF b[i].fp = d.fp THEN merge_associated_from(b[i], d) ELSE d
<1>1. i \in landing(b, d.fp)
  BY FirstSlot DEF inserts, landing
<1>2. i \in Slots /\ b[i].fp \in {0, d.fp} /\ b[i] \in DataBlocks
  BY <1>1, BlockOf DEF landing, is_empty
<1>3. new \in DataBlocks /\ new.fp = d.fp
  BY <1>2, MergeType
<1>4. insert(b, d) = [b EXCEPT ![i] = new]
  BY DEF insert
<1> HIDE DEF i, new
<1>. QED
  BY <1>2, <1>3, <1>4 DEF BucketStates

\* A lookup changes no fingerprint (bucket.rs, contains, get_associated_data).
LEMMA LookUpType ==
  ASSUME NEW b \in BucketStates, NEW fp, NEW update \in LookupValues, contains(b, fp)
  PROVE  /\ look_up(b, fp, update) \in BucketStates
         /\ \A j \in Slots : look_up(b, fp, update)[j].fp = b[j].fp
         /\ first(holding(b, fp)) \in Slots
<1> DEFINE i == first(holding(b, fp))
           new == touch(b[i], update)
<1>1. i \in Slots
  BY FirstSlot DEF contains, holding
<1>2. new \in DataBlocks /\ new.fp = b[i].fp
  BY <1>1, BlockOf, TouchType
<1>3. look_up(b, fp, update) = [b EXCEPT ![i] = new]
  BY DEF look_up
<1> HIDE DEF new, i
<1>4. first(holding(b, fp)) \in Slots
  BY <1>1 DEF i
<1>. QED
  BY <1>1, <1>2, <1>3, <1>4 DEF BucketStates

\* remove empties one slot, one that had the fingerprint (bucket.rs, remove).
LEMMA RemoveType ==
  ASSUME NEW b \in BucketStates, NEW fp, contains(b, fp)
  PROVE  /\ remove(b, fp) \in BucketStates
         /\ \E i \in Slots : /\ b[i].fp = fp
                             /\ remove(b, fp) = [b EXCEPT ![i] = ResetBlock]
<1>1. first(holding(b, fp)) \in holding(b, fp)
  BY FirstSlot DEF contains, holding
<1>2. first(holding(b, fp)) \in Slots /\ b[first(holding(b, fp))].fp = fp
  BY <1>1 DEF holding
<1>. QED
  BY <1>2, ResetBlockType DEF remove, BucketStates

\* Aging empties slots, and changes no fingerprint otherwise.
LEMMA AgeBucketType ==
  ASSUME NEW b \in BucketStates
  PROVE  /\ age_lru_counters(b) \in BucketStates /\ age_ttl_counters(b) \in BucketStates
         /\ \A j \in Slots : /\ age_lru_counters(b)[j].fp \in {b[j].fp, 0}
                             /\ age_ttl_counters(b)[j].fp \in {b[j].fp, 0}
<1>1. \A j \in Slots : /\ age_lru_counter(b[j]) \in DataBlocks
                       /\ age_ttl_counter(b[j]) \in DataBlocks
                       /\ age_lru_counter(b[j]).fp \in {b[j].fp, 0}
                       /\ age_ttl_counter(b[j]).fp \in {b[j].fp, 0}
                       /\ b[j] \in DataBlocks
  BY BlockOf, AgeType
<1>. QED
  BY <1>1 DEF age_lru_counters, age_ttl_counters, BucketStates

\* Aging reports a number of blocks, at most one per slot (bucket.rs,
\* age_lru_counters and age_ttl_counters).
LEMMA ClearedType ==
  ASSUME NEW before, NEW after
  PROVE  cleared(before, after) \in Nat
<1>1. IsFiniteSet(Slots)
  BY BucketSizeIsPositive, FS_Interval DEF Slots
<1>2. IsFiniteSet({i \in Slots : occupied(before[i]) /\ ~occupied(after[i])})
  BY <1>1, FS_Subset
<1>. QED
  BY <1>2, FS_CardinalityType DEF cleared

\* kick_lru picks a slot, and its counter is below that of the block in hand
\* unless that one is new (bucket.rs, kick_lru).
LEMMA KickLruType ==
  ASSUME NEW b, NEW d, NEW is_new, NEW s \in kick_lru(b, d, is_new)
  PROVE  s \in Slots /\ (~is_new => b[s].lru < d.lru)
BY DEF kick_lru

\* A new item finds a victim wherever it looks, unless a counter can reach
\* u32::MAX, and the first of those with the lowest counter is it (bucket.rs,
\* kick_lru).
LEMMA KickLruOfNew ==
  ASSUME NEW b \in BucketStates, NEW d, LruMask < U32Max
  PROVE  kick_lru(b, d, TRUE) # {}
<1> DEFINE Values == {b[i].lru : i \in Slots}
           least  == first(Values)
           Lowest == {i \in Slots : b[i].lru = least}
<1>1. \A i \in Slots : b[i].lru \in 0 .. LruMask
  BY BlockOf DEF DataBlocks
<1>2. Values \in SUBSET Nat /\ Values # {}
  BY <1>1, SlotNumbers, Masks
<1>3. least \in Values /\ \A v \in Values : least <= v
  BY <1>2, FirstIsLeast
<1> HIDE DEF least
<1>4. Lowest # {} /\ Lowest \in SUBSET Nat
  BY <1>3, SlotNumbers
<1>5. first(Lowest) \in Lowest /\ \A i \in Lowest : first(Lowest) <= i
  BY <1>4, FirstIsLeast
<1>6. U32Max \in Nat /\ LruMask \in Nat
  BY ConstantsAreU32, Masks
<1> DEFINE lowest == {i \in Slots : b[i].lru < U32Max /\ \A j \in Slots : b[i].lru <= b[j].lru}
<1>7. lowest = Lowest
  <2>1. \A i \in Slots : b[i].lru < U32Max
    BY <1>1, <1>6
  <2>2. \A i \in Slots : (\A j \in Slots : b[i].lru <= b[j].lru) <=> b[i].lru = least
    BY <1>1, <1>2, <1>3
  <2>. QED
    BY <2>1, <2>2
<1>8. kick_lru(b, d, TRUE) = {i \in lowest : \A j \in lowest : i <= j}
  BY DEF kick_lru
<1>. QED
  BY <1>5, <1>7, <1>8

-----------------------------------------------------------------------------
(* TTLs. *)

\* A stored block has a TTL that is not used up.
TtlLeft(d) == d.fp # 0 => d.ttl > 0

\* The TTL that a caller passes, if any, is positive and fits its field.
TtlFits(option) == option \in {None} \cup (1 .. TtlMask)

\* A value that fits is stored as it is (data_block.rs, set_ttl).
LEMMA SetTtlFits ==
  ASSUME NEW d \in DataBlocks, NEW ttl \in 1 .. TtlMask
  PROVE  set_ttl(d, ttl).ttl = ttl
<1>1. store_bits(TtlMask, ttl) = ttl
  BY Masks DEF store_bits
<1>. QED
  BY <1>1 DEF set_ttl, DataBlocks

\* Counting leaves the TTL alone (data_block.rs, update_counter,
\* init_lru_counter and inc_lru_counter).
LEMMA CountersLeaveTtl ==
  ASSUME NEW d \in DataBlocks
  PROVE  /\ \A by : update_counter(d, by).ttl = d.ttl
         /\ init_lru_counter(d).ttl = d.ttl /\ inc_lru_counter(d).ttl = d.ttl
BY DEF update_counter, init_lru_counter, inc_lru_counter, DataBlocks

\* A new block has time left (filter.rs, new_data_block).
LEMMA NewTtl ==
  ASSUME NEW fp \in Fingerprint, NEW defaults \in InsertValues,
         TtlFits(TtlDefault), TtlFits(defaults.ttl)
  PROVE  new_data_block(fp, defaults).ttl > 0
<1> DEFINE stored  == [ResetBlock EXCEPT !.fp = store_bits(FpMask, fp)]
           ttl     == unwrap_or(defaults.ttl, TtlDefault)
           by      == unwrap_or(defaults.counter, ChangeOnInsert)
           timed   == set_ttl(stored, ttl)
           counted == update_counter(timed, by)
<1>1. stored \in DataBlocks
  BY Masks, StoredFits, ResetBlockType DEF DataBlocks, Fingerprint
<1>2. ttl \in 1 .. TtlMask
  BY NoneIsNotANumber, Masks DEF TtlFits, unwrap_or
<1>3. by \in Int
  <2>1. defaults.counter \in I32 \cup {None}
    BY DEF InsertValues
  <2>. QED
    BY <2>1, Masks, Numbers DEF unwrap_or
<1> HIDE DEF stored, ttl, by
<1>4. timed \in DataBlocks /\ timed.ttl = ttl
  BY <1>1, <1>2, SetTtlType, SetTtlFits
<1> HIDE DEF timed
<1>5. counted \in DataBlocks /\ counted.ttl = ttl
  BY <1>3, <1>4, UpdateCounterType, CountersLeaveTtl
<1> HIDE DEF counted
<1>6. init_lru_counter(counted).ttl = ttl
  BY <1>5, CountersLeaveTtl
<1>. QED
  BY <1>2, <1>6 DEF new_data_block, counted, timed, stored, ttl, by

\* A lookup sets the TTL to a positive one or leaves it (bucket.rs, contains and
\* get_associated_data).
LEMMA TouchTtl ==
  ASSUME NEW d \in DataBlocks, NEW update \in LookupValues, TtlFits(update.ttl), TtlLeft(d)
  PROVE  TtlLeft(touch(d, update))
<1> DEFINE by      == unwrap_or(update.counter_diff, ChangeOnLookup)
           counted == update_counter(d, by)
           timed   == IF update.ttl = None THEN counted ELSE set_ttl(counted, update.ttl)
<1>1. by \in Int
  <2>1. update.counter_diff \in I32 \cup {None}
    BY DEF LookupValues
  <2>. QED
    BY <2>1, Masks, Numbers DEF unwrap_or
<1> HIDE DEF by
<1>2. counted \in DataBlocks /\ counted.fp = d.fp /\ counted.ttl = d.ttl
  BY <1>1, UpdateCounterType, CountersLeaveTtl
<1> HIDE DEF counted
<1>3. timed \in DataBlocks /\ timed.fp = d.fp /\ (timed.fp # 0 => timed.ttl > 0)
  <2>1. CASE update.ttl = None
    BY <1>2, <2>1 DEF TtlLeft
  <2>2. CASE update.ttl \in 1 .. TtlMask
    <3>1. /\ set_ttl(counted, update.ttl) \in DataBlocks
          /\ set_ttl(counted, update.ttl).fp = d.fp
          /\ set_ttl(counted, update.ttl).ttl = update.ttl
      BY <1>2, <2>2, SetTtlType, SetTtlFits
    <3>2. update.ttl # None /\ update.ttl > 0
      BY <2>2, NoneIsNotANumber, Masks
    <3>. QED
      BY <3>1, <3>2
  <2>. QED
    BY <2>1, <2>2 DEF TtlFits
<1> HIDE DEF timed
<1>4. touch(d, update) = inc_lru_counter(timed)
  BY DEF touch, timed, counted, by
<1>. QED
  BY <1>3, <1>4, LruCounterType, CountersLeaveTtl DEF TtlLeft

\* Merging takes the longer of two TTLs (data_block.rs, merge_associated_from).
LEMMA MergeTtl ==
  ASSUME NEW d \in DataBlocks, NEW other \in DataBlocks, TtlLeft(d)
  PROVE  TtlLeft(merge_associated_from(d, other))
<1>1. /\ d.ttl \in Nat /\ other.ttl \in Nat
      /\ merge_associated_from(d, other).fp = d.fp
      /\ merge_associated_from(d, other).ttl = IF other.ttl > d.ttl THEN other.ttl ELSE d.ttl
  BY Masks DEF merge_associated_from, DataBlocks
<1>. QED
  BY <1>1 DEF TtlLeft

\* Aging a TTL empties the slot before it reaches 0, and aging an LRU counter
\* leaves it alone (data_block.rs, age_ttl_counter and age_lru_counter).
LEMMA AgeTtl ==
  ASSUME NEW d \in DataBlocks, TtlLeft(d)
  PROVE  TtlLeft(age_lru_counter(d)) /\ TtlLeft(age_ttl_counter(d))
<1>1. TtlLeft(ResetBlock)
  BY DEF TtlLeft, ResetBlock
<1>2. TtlLeft(age_lru_counter(d))
  <2>1. CASE LruRemoveOnZero /\ d.lru = 0
    BY <1>1, <2>1 DEF age_lru_counter
  <2>2. CASE ~(LruRemoveOnZero /\ d.lru = 0)
    <3>1. age_lru_counter(d).fp = d.fp /\ age_lru_counter(d).ttl = d.ttl
      BY <2>2 DEF age_lru_counter, DataBlocks
    <3>. QED
      BY <3>1 DEF TtlLeft
  <2>. QED
    BY <2>1, <2>2
<1>3. TtlLeft(age_ttl_counter(d))
  <2> DEFINE left == saturating_sub(d.ttl, 1)
  <2>1. left \in Nat
    BY Masks DEF saturating_sub, DataBlocks
  <2>2. CASE left = 0
    BY <1>1, <2>2 DEF age_ttl_counter
  <2>3. CASE left # 0
    <3>1. age_ttl_counter(d).ttl = left
      BY <2>3 DEF age_ttl_counter, DataBlocks
    <3>. QED
      BY <2>1, <2>3, <3>1 DEF TtlLeft
  <2>. QED
    BY <2>2, <2>3
<1>. QED
  BY <1>2, <1>3

\* So the operations on a bucket leave every block of it time (bucket.rs).
BucketTtlLeft(b) == \A s \in Slots : TtlLeft(b[s])

\* insert, when the block that comes in has time left.
LEMMA InsertTtl ==
  ASSUME NEW b \in BucketStates, NEW d \in DataBlocks, inserts(b, d),
         BucketTtlLeft(b), TtlLeft(d)
  PROVE  BucketTtlLeft(insert(b, d))
<1> DEFINE i   == first(landing(b, d.fp))
           new == IF b[i].fp = d.fp THEN merge_associated_from(b[i], d) ELSE d
<1>1. i \in Slots
  BY FirstSlot DEF inserts, landing
<1>2. TtlLeft(new)
  BY <1>1, BlockOf, MergeTtl DEF BucketTtlLeft
<1>3. insert(b, d) = [b EXCEPT ![i] = new]
  BY DEF insert
<1> HIDE DEF i, new
<1>. QED
  BY <1>1, <1>2, <1>3 DEF BucketTtlLeft, BucketStates

\* contains_and_update, when the new TTL fits.
LEMMA LookUpTtl ==
  ASSUME NEW b \in BucketStates, NEW fp, NEW update \in LookupValues, contains(b, fp),
         BucketTtlLeft(b), TtlFits(update.ttl)
  PROVE  BucketTtlLeft(look_up(b, fp, update))
<1> DEFINE i   == first(holding(b, fp))
           new == touch(b[i], update)
<1>1. i \in Slots
  BY FirstSlot DEF contains, holding
<1>2. TtlLeft(new)
  BY <1>1, BlockOf, TouchTtl DEF BucketTtlLeft
<1>3. look_up(b, fp, update) = [b EXCEPT ![i] = new]
  BY DEF look_up
<1> HIDE DEF i, new
<1>. QED
  BY <1>1, <1>2, <1>3 DEF BucketTtlLeft, BucketStates

\* remove, and both agings.
LEMMA EmptyingTtl ==
  ASSUME NEW b \in BucketStates, BucketTtlLeft(b)
  PROVE  /\ \A fp : contains(b, fp) => BucketTtlLeft(remove(b, fp))
         /\ BucketTtlLeft(age_lru_counters(b)) /\ BucketTtlLeft(age_ttl_counters(b))
<1>1. TtlLeft(ResetBlock)
  BY DEF TtlLeft, ResetBlock
<1>2. ASSUME NEW fp, contains(b, fp) PROVE BucketTtlLeft(remove(b, fp))
  <2>1. PICK i \in Slots : remove(b, fp) = [b EXCEPT ![i] = ResetBlock]
    BY <1>2, RemoveType
  <2>. QED
    BY <1>1, <2>1 DEF BucketTtlLeft, BucketStates
<1>3. \A s \in Slots : TtlLeft(age_lru_counter(b[s])) /\ TtlLeft(age_ttl_counter(b[s]))
  BY BlockOf, AgeTtl DEF BucketTtlLeft
<1>4. BucketTtlLeft(age_lru_counters(b)) /\ BucketTtlLeft(age_ttl_counters(b))
  BY <1>3 DEF BucketTtlLeft, age_lru_counters, age_ttl_counters
<1>. QED
  BY <1>2, <1>4

-----------------------------------------------------------------------------
(* Indices. *)

\* No index leads out of the Vec of buckets: alt_index masks its result, and a
\* scan computes its positions from the number of buckets (filter.rs).
LEMMA IndexTypes ==
  /\ \A fp \in Fingerprint, i \in Buckets : alt_index(fp, i) \in Buckets
  /\ \A n : position(n) \in Buckets
BY DEF alt_index, Buckets, position

\* A key has a fingerprint that marks no empty slot and the index of a bucket
\* (filter.rs, get_fingerprint_and_index).
LEMMA KeyTypes ==
  ASSUME NEW k \in Keys
  PROVE  /\ get_fingerprint_and_index(k).fp \in Fingerprint \ {0}
         /\ get_fingerprint_and_index(k).index \in Buckets
<1>1. KeyHash[k].hi \in Nat
  BY FilterConstants
<1>2. KeyHash[k].lo \cap MaskBits \in Buckets
  BY DEF Buckets
<1>. QED
  BY <1>1, <1>2, FingerprintNew DEF get_fingerprint_and_index

\* alt_index leads from either bucket of a pair to the other, so the pair is
\* the same seen from both (filter.rs, alt_index).
LEMMA AltIndexInvolution ==
  ASSUME NEW fp \in Fingerprint, NEW i \in Buckets
  PROVE  /\ alt_index(fp, alt_index(fp, i)) = i
         /\ Pair(fp, alt_index(fp, i)) = Pair(fp, i)
<1>1. alt_index(fp, alt_index(fp, i)) = i
  BY DEF alt_index, xor, Buckets
<1>. QED
  BY <1>1 DEF Pair

-----------------------------------------------------------------------------
(* Positions. *)

\* A filter has buckets.
LEMMA BucketCountIsPositive == BucketCount \in Nat \ {0}
BY Powers, FilterConstants DEF BucketCount

ones(n, m) == {k \in 0 .. m - 1 : (n \div 2 ^ k) % 2 = 1}

\* Every set of bits below m is that of a number below 2^m.
LEMMA OnesOnto ==
  ASSUME NEW m \in Nat, NEW b \in SUBSET (0 .. m - 1)
  PROVE  \E n \in 0 .. 2 ^ m - 1 : ones(n, m) = b
<1> DEFINE S == {w \in Nat : \A c \in SUBSET (0 .. w - 1) :
                               \E n \in 0 .. 2 ^ w - 1 : ones(n, w) = c}
<1>1. 0 \in S
  <2> SUFFICES ASSUME NEW c \in SUBSET (0 .. 0 - 1)
               PROVE  \E n \in 0 .. 2 ^ 0 - 1 : ones(n, 0) = c
    OBVIOUS
  <2>1. ones(0, 0) = {} /\ c = {} /\ 0 \in 0 .. 2 ^ 0 - 1
    BY Powers DEF ones
  <2>. QED
    BY <2>1
<1>2. ASSUME NEW w \in Nat, w \in S PROVE w + 1 \in S
  <2> DEFINE p == 2 ^ w
  <2>1. p \in Nat \ {0} /\ 2 ^ (w + 1) = 2 * p
    BY Powers
  <2>2. SUFFICES ASSUME NEW c \in SUBSET (0 .. w)
                 PROVE  \E n \in 0 .. 2 * p - 1 : ones(n, w + 1) = c
    BY <2>1
  <2>3. PICK n \in 0 .. p - 1 : ones(n, w) = c \ {w}
    <3>1. c \ {w} \in SUBSET (0 .. w - 1)
      OBVIOUS
    <3>. QED
      BY <1>2, <3>1
  <2> HIDE DEF p
  <2>4. \A k \in 0 .. w : k \in 0 .. w - 1 \/ k = w
    OBVIOUS
  <2>5. n \div p = 0 /\ (n + p * 1) \div p = 1
    BY <2>1, DividedShift
  <2>6. CASE w \notin c
    <3>1. ones(n, w + 1) = c
      BY <2>3, <2>4, <2>5, <2>6 DEF ones, p
    <3>. QED
      BY <2>1, <3>1
  <2>7. CASE w \in c
    <3>1. ASSUME NEW k \in 0 .. w - 1
          PROVE  ((n + p) \div 2 ^ k) % 2 = (n \div 2 ^ k) % 2
      <4> DEFINE d == 2 ^ k
      <4>1. d \in Nat \ {0}
        BY Powers
      <4>2. PICK q \in Nat : p = d * (2 * q)
        BY EvenMultiple DEF p
      <4> HIDE DEF d
      <4>3. (n + p) \div d = (n \div d) + 2 * q /\ n \div d \in Int
        BY <4>1, <4>2, DividedShift
      <4>4. ASSUME NEW h \in Int PROVE (h + 2 * q) % 2 = h % 2
        <5>1. h % 2 \in 0 .. 1 /\ h \div 2 \in Int /\ h + 2 * q = 2 * ((h \div 2) + q) + (h % 2)
          BY Divided
        <5>. QED
          BY <5>1, RemainderUnique
      <4>5. ((n \div d) + 2 * q) % 2 = (n \div d) % 2
        BY <4>3, <4>4
      <4>6. ((n + p) \div d) % 2 = (n \div d) % 2
        BY <4>3, <4>5
      <4>. QED
        BY <4>6 DEF d
    <3> DEFINE bit(x, k) == (x \div 2 ^ k) % 2
    <3>2. \A x, v : ones(x, v) = {k \in 0 .. v - 1 : bit(x, k) = 1}
      BY DEF ones
    <3>3. \A k \in 0 .. w - 1 : bit(n + p, k) = bit(n, k)
      BY <3>1
    <3>4. bit(n + p, w) = 1
      BY <2>1, <2>5 DEF p
    <3> HIDE DEF bit
    <3>5. \A k \in 0 .. w - 1 : k # w /\ (k \in c <=> bit(n, k) = 1)
      BY <2>3, <3>2
    <3>6. \A k \in 0 .. w : k \in c <=> bit(n + p, k) = 1
      BY <2>4, <2>7, <3>3, <3>4, <3>5
    <3>7. 0 .. (w + 1) - 1 = 0 .. w
      OBVIOUS
    <3>8. ones(n + p, w + 1) = {k \in 0 .. w : bit(n + p, k) = 1}
      BY <3>2, <3>7
    <3>9. ones(n + p, w + 1) = c
      BY <3>6, <3>8
    <3>. QED
      BY <2>1, <3>9
  <2>. QED
    BY <2>6, <2>7
<1> HIDE DEF S
<1>3. m \in S
  BY <1>1, <1>2, CountUp
<1>. QED
  BY <1>3 DEF S

\* Every bucket has a position in the Vec.
LEMMA PositionsReachAll ==
  ASSUME NEW i \in Buckets
  PROVE  \E n \in 0 .. BucketCount - 1 : position(n) = i
BY OnesOnto, FilterConstants DEF Buckets, MaskBits, BucketCount, position, ones

\* No two positions are those of the same bucket.
LEMMA PositionsDiffer ==
  ASSUME NEW n \in 0 .. BucketCount - 1, NEW m \in 0 .. BucketCount - 1,
         position(n) = position(m)
  PROVE  n = m
<1> DEFINE Places == 0 .. BucketCount - 1
           at     == [x \in Places |-> position(x)]
<1>1. IsFiniteSet(MaskBits) /\ Cardinality(MaskBits) = IndexBits
  BY FilterConstants, FS_Interval DEF MaskBits
<1>2. IsFiniteSet(Buckets) /\ Cardinality(Buckets) = BucketCount
  BY <1>1, FS_SUBSET DEF Buckets, BucketCount
<1>3. IsFiniteSet(Places) /\ Cardinality(Places) = BucketCount
  BY BucketCountIsPositive, FS_Interval
<1>4. at \in Surjection(Places, Buckets)
  BY IndexTypes, PositionsReachAll DEF Surjection
<1> HIDE DEF Places
<1>5. at \in Injection(Places, Buckets)
  BY <1>2, <1>3, <1>4, FS_Surjection
<1>. QED
  BY <1>5 DEF Injection, IsInjective, Places

-----------------------------------------------------------------------------
(* Type correctness. *)

\* A thread that runs no method has well-typed locals.
LEMMA NoFrameType == NoFrame \in Frames
<1>1. NoUpdate \in LookupValues
  BY DEF NoUpdate, LookupValues
<1>2. {} \in Buckets /\ 0 \in Fingerprint /\ 0 \in 0 .. MaxKicks
  BY Masks, FilterConstants DEF Buckets, Fingerprint
<1>. QED
  BY <1>1, <1>2, ResetBlockType DEF NoFrame, Frames

\* A new filter is well-typed (filter.rs, new).
LEMMA InitShapes == Init => Shapes
<1> SUFFICES ASSUME Init PROVE Shapes
  OBVIOUS
<1>1. buckets \in [Buckets -> BucketStates]
  BY EmptyBucketType DEF Init
<1>2. items \in 0 .. UsizeMax
  BY FilterConstants DEF Init
<1>3. frame \in [Threads -> Frames]
  BY NoFrameType DEF Init
<1>. QED
  BY <1>1, <1>2, <1>3 DEF Shapes, Init, Sections

\* A thread goes from one section to another.
LEMMA GotoType ==
  ASSUME Shapes, NEW t \in Threads, NEW section \in Sections, Goto(t, section)
  PROVE  pc' \in [Threads -> Sections]
BY DEF Shapes, Goto

\* A return leaves well-typed locals.
LEMMA ReturnType ==
  ASSUME Shapes, NEW t \in Threads, NEW answer, Return(t, answer)
  PROVE  /\ pc' \in [Threads -> Sections]
         /\ frame' \in [Threads -> Frames]
         /\ DOMAIN ret' = Threads
BY NoFrameType DEF Shapes, Return, Goto, Sections

\* The locals of a thread, one at a time.
LEMMA LocalTypes ==
  ASSUME Shapes, NEW t \in Threads
  PROVE  /\ frame[t] \in Frames /\ frame[t].fp \in Fingerprint
         /\ frame[t].home \in Buckets /\ frame[t].index \in Buckets
         /\ second(t) \in Buckets
         /\ frame[t].update \in LookupValues /\ frame[t].hand \in DataBlocks
         /\ frame[t].hand.fp \in Fingerprint
         /\ frame[t].kicks \in 0 .. MaxKicks
         /\ frame[t].removed \in Nat /\ frame[t].pos \in Nat /\ frame[t].stop \in Nat
BY IndexTypes DEF Shapes, Frames, second, DataBlocks

\* Locals stay well-typed when well-typed values are assigned to them.
LEMMA AssignTypes ==
  ASSUME NEW f \in Frames
  PROVE  /\ \A i \in Buckets : [f EXCEPT !.index = i] \in Frames
         /\ \A d \in DataBlocks, i \in Buckets :
              [f EXCEPT !.hand = d, !.index = i] \in Frames
         /\ \A n \in 0 .. MaxKicks : [f EXCEPT !.kicks = n] \in Frames
         /\ \A n \in Nat, m \in Nat : [f EXCEPT !.pos = n, !.removed = m] \in Frames
<1>1. \A i \in Buckets : [f EXCEPT !.index = i] \in Frames
  BY DEF Frames
<1>2. \A d \in DataBlocks, i \in Buckets : [f EXCEPT !.hand = d, !.index = i] \in Frames
  BY DEF Frames
<1>3. \A n \in 0 .. MaxKicks : [f EXCEPT !.kicks = n] \in Frames
  BY DEF Frames
<1>4. \A n \in Nat, m \in Nat : [f EXCEPT !.pos = n, !.removed = m] \in Frames
  BY DEF Frames
<1>. QED
  BY <1>1, <1>2, <1>3, <1>4

\* A keyed call starts with well-typed locals, whatever block and whatever
\* update the caller passes.
LEMMA KeyedType ==
  ASSUME NEW api \in AllApis, NEW k \in Keys
  PROVE  /\ keyed(api, k) \in Frames
         /\ keyed(api, k).fp \in Fingerprint
         /\ \A d \in DataBlocks : [keyed(api, k) EXCEPT !.hand = d] \in Frames
         /\ \A u \in LookupValues : [keyed(api, k) EXCEPT !.update = u] \in Frames
         /\ \A d \in DataBlocks, u \in LookupValues :
              [keyed(api, k) EXCEPT !.hand = d, !.update = u] \in Frames
<1> DEFINE h == get_fingerprint_and_index(k)
<1>1. h.fp \in Fingerprint /\ h.index \in Buckets
  BY KeyTypes
<1>2. keyed(api, k) = [NoFrame EXCEPT !.api = api, !.fp = h.fp, !.home = h.index]
  BY DEF keyed
<1> HIDE DEF h
<1>3. keyed(api, k) \in Frames /\ keyed(api, k).fp = h.fp
  <2> DEFINE f == NoFrame
  <2>1. f \in Frames
    BY NoFrameType
  <2> HIDE DEF f
  <2>2. [f EXCEPT !.api = api, !.fp = h.fp, !.home = h.index] \in Frames
    BY <1>1, <2>1 DEF Frames
  <2>3. [f EXCEPT !.api = api, !.fp = h.fp, !.home = h.index].fp = h.fp
    BY <2>1 DEF Frames
  <2>. QED
    BY <1>2, <2>2, <2>3 DEF f
<1>. QED
  BY <1>1, <1>3 DEF Frames

\* The block and the update of a keyed call do not change which method it is.
LEMMA KeyedApi ==
  ASSUME NEW api \in AllApis, NEW k \in Keys
  PROVE  /\ \A u : [keyed(api, k) EXCEPT !.update = u].api = api
         /\ \A d, u : [keyed(api, k) EXCEPT !.hand = d, !.update = u].api = api
<1>1. keyed(api, k) \in Frames /\ keyed(api, k).api = api
  BY KeyedType, NoFrameType DEF keyed, Frames
<1>. QED
  BY <1>1 DEF Frames

\* A call starts with well-typed locals and without an answer.
LEMMA CallType ==
  ASSUME Shapes, NEW t \in Threads, NEW api, NEW section \in Sections,
         NEW locals \in Frames, Call(t, api, section, locals)
  PROVE  Shapes'
<1>1. pc' \in [Threads -> Sections]
  BY GotoType DEF Call
<1>. QED
  BY <1>1 DEF Call, Shapes

\* Every call starts well-typed: a key is hashed to a fingerprint and an index,
\* a partition of a scan starts inside the filter (filter.rs, public methods).
LEMMA BeginType ==
  ASSUME Shapes, NEW t \in Threads, Begin(t)
  PROVE  Shapes'
<1>1. CASE CallInsert(t)
  <2>1. PICK k \in Keys, values \in InsertArgs :
          Call(t, "insert", "insert_i1",
               [keyed("insert", k) EXCEPT !.hand = new_data_block(keyed("insert", k).fp, values)])
    BY <1>1 DEF CallInsert
  <2>2. values \in InsertValues
    BY ArgumentsAreValues
  <2>3. [keyed("insert", k) EXCEPT !.hand = new_data_block(keyed("insert", k).fp, values)]
          \in Frames
    BY <2>2, KeyedType, NewDataBlockType DEF AllApis
  <2>. QED
    BY <2>1, <2>3, CallType DEF Sections
<1>2. CASE CallInsertIfNotPresent(t)
  <2> DEFINE f(k) == keyed("insert_if_not_present", k)
  <2>1. PICK k \in Keys, values \in InsertArgs, update \in LookupArgs :
          Call(t, "insert_if_not_present", "look_i1",
               [f(k) EXCEPT !.hand = new_data_block(f(k).fp, values), !.update = update])
    BY <1>2 DEF CallInsertIfNotPresent
  <2>2. values \in InsertValues /\ update \in LookupValues
    BY ArgumentsAreValues
  <2>3. [f(k) EXCEPT !.hand = new_data_block(f(k).fp, values), !.update = update] \in Frames
    BY <2>2, KeyedType, NewDataBlockType DEF AllApis
  <2>. QED
    BY <2>1, <2>3, CallType DEF Sections
<1>3. CASE CallContains(t)
  <2>1. PICK k \in Keys, update \in LookupArgs :
          Call(t, "contains", "look_i1", [keyed("contains", k) EXCEPT !.update = update])
    BY <1>3 DEF CallContains
  <2>2. [keyed("contains", k) EXCEPT !.update = update] \in Frames
    BY ArgumentsAreValues, KeyedType DEF AllApis
  <2>. QED
    BY <2>1, <2>2, CallType DEF Sections
<1>4. CASE CallGetAssociatedData(t)
  <2>1. PICK k \in Keys, update \in LookupArgs :
          Call(t, "get_associated_data", "look_i1",
               [keyed("get_associated_data", k) EXCEPT !.update = update])
    BY <1>4 DEF CallGetAssociatedData
  <2>2. [keyed("get_associated_data", k) EXCEPT !.update = update] \in Frames
    BY ArgumentsAreValues, KeyedType DEF AllApis
  <2>. QED
    BY <2>1, <2>2, CallType DEF Sections
<1>5. CASE CallRemove(t)
  <2>1. PICK k \in Keys : Call(t, "remove", "remove_i1", keyed("remove", k))
    BY <1>5 DEF CallRemove
  <2>. QED
    BY <2>1, KeyedType, CallType DEF Sections, AllApis
<1>6. CASE CallScan(t)
  <2>1. PICK api \in ScanApis, p \in Partitions : ScanPartition(t, api, p)
    BY <1>6 DEF CallScan
  <2> DEFINE size   == part_size(BucketCount, p[1])
             start  == part_start(BucketCount, p[1], p[2])
             stop   == part_end(BucketCount, p[1], p[2])
             locals == [NoFrame EXCEPT !.api = api, !.pos = start, !.stop = stop]
  <2>2. p[1] \in Nat \ {0} /\ p[2] \in Nat
    BY FilterConstants
  <2>3. BucketCount \in Nat
    BY BucketCountIsPositive
  <2>4. size \in Nat
    BY <2>2, <2>3 DEF part_size, div_ceil
  <2> HIDE DEF size
  <2>5. start = p[2] * size /\ stop = IF (p[2] + 1) * size < BucketCount
                                     THEN (p[2] + 1) * size ELSE BucketCount
    BY DEF part_start, part_end, size
  <2>6. start \in Nat /\ stop \in Nat
    BY <2>2, <2>3, <2>4, <2>5
  <2> HIDE DEF start, stop
  <2>7. locals \in Frames
    BY <2>6, NoFrameType DEF Frames, AllApis, ScanApis
  <2>8. CASE Call(t, api, "scan", locals)
    BY <2>7, <2>8, CallType DEF Sections
  <2>9. CASE Return(t, Count(0)) /\ UNCHANGED <<buckets, items>>
    BY <2>9, ReturnType DEF Shapes
  <2>. QED
    BY <2>1, <2>8, <2>9 DEF ScanPartition, start, stop
<1>7. CASE GetItemCount(t)
  BY <1>7, ReturnType DEF GetItemCount, Shapes
<1>. QED
  BY <1>1, <1>2, <1>3, <1>4, <1>5, <1>6, <1>7 DEF Begin

\* A section leaves one bucket well-typed, and hence all of them.
LEMMA BucketStep ==
  ASSUME Shapes, NEW i \in Buckets, NEW b \in BucketStates,
         buckets' = [buckets EXCEPT ![i] = b]
  PROVE  buckets' \in [Buckets -> BucketStates]
BY DEF Shapes

\* Every index has a bucket.
LEMMA BucketOf ==
  ASSUME Shapes, NEW i \in Buckets
  PROVE  buckets[i] \in BucketStates
BY DEF Shapes

\* A lookup that finds its fingerprint leaves well-typed state (filter.rs,
\* contains and get_associated_data).
LEMMA HitType ==
  ASSUME Shapes, NEW t \in Threads, NEW i \in Buckets, Hit(t, i)
  PROVE  Shapes'
<1> DEFINE f     == frame[t]
           after == look_up(buckets[i], f.fp, f.update)
<1>1. after \in BucketStates
  BY LookUpType, LocalTypes, BucketOf DEF Hit
<1>2. /\ buckets' = [buckets EXCEPT ![i] = after] /\ UNCHANGED items
      /\ \E answer : Return(t, answer)
  BY DEF Hit
<1> HIDE DEF after
<1>3. buckets' \in [Buckets -> BucketStates]
  BY <1>1, <1>2, BucketStep
<1>. QED
  BY <1>2, <1>3, ReturnType DEF Shapes

\* So does an insertion into a bucket (filter.rs, insert).
LEMMA LandType ==
  ASSUME Shapes, NEW t \in Threads, NEW i \in Buckets, Land(t, i)
  PROVE  Shapes'
<1>1. insert(buckets[i], frame[t].hand) \in BucketStates
  BY InsertType, LocalTypes, BucketOf DEF Land
<1>2. buckets' = [buckets EXCEPT ![i] = insert(buckets[i], frame[t].hand)]
  BY DEF Land
<1>3. buckets' \in [Buckets -> BucketStates]
  BY <1>1, <1>2, BucketStep
<1>4. pc' \in [Threads -> Sections]
  BY GotoType DEF Land, Sections
<1>5. frame' \in [Threads -> Frames]
  BY NoFrameType DEF Land, Shapes
<1>. QED
  BY <1>3, <1>4, <1>5 DEF Land, Shapes

\* So does a removal from a bucket (filter.rs, remove).
LEMMA ClearType ==
  ASSUME Shapes, NEW t \in Threads, NEW i \in Buckets, Clear(t, i)
  PROVE  Shapes'
<1>1. remove(buckets[i], frame[t].fp) \in BucketStates
  BY RemoveType, LocalTypes, BucketOf DEF Clear
<1>2. buckets' = [buckets EXCEPT ![i] = remove(buckets[i], frame[t].fp)]
  BY DEF Clear
<1>3. buckets' \in [Buckets -> BucketStates]
  BY <1>1, <1>2, BucketStep
<1>4. pc' \in [Threads -> Sections]
  BY GotoType DEF Clear, Sections
<1>5. [NoFrame EXCEPT !.api = "remove", !.removed = 1] \in Frames
  BY NoFrameType DEF Frames, AllApis
<1>. QED
  BY <1>3, <1>4, <1>5 DEF Clear, Shapes

\* Going on to the next bucket, with nothing changed, keeps the state well-typed.
LEMMA GotoShapes ==
  ASSUME Shapes, NEW t \in Threads, NEW section \in Sections, Goto(t, section),
         UNCHANGED <<buckets, items, frame, ret>>
  PROVE  Shapes'
BY GotoType DEF Shapes

\* Returning, with nothing changed, keeps the state well-typed.
LEMMA ReturnShapes ==
  ASSUME Shapes, NEW t \in Threads, NEW answer, Return(t, answer),
         UNCHANGED <<buckets, items>>
  PROVE  Shapes'
BY ReturnType DEF Shapes

\* The lookup in the first bucket keeps the state well-typed.
LEMMA LookFirstType ==
  ASSUME Shapes, NEW t \in Threads, LookFirst(t)
  PROVE  Shapes'
<1>1. CASE Hit(t, frame[t].home)
  BY <1>1, HitType, LocalTypes
<1>2. CASE Goto(t, "look_i2") /\ UNCHANGED <<buckets, items, frame, ret>>
  BY <1>2, GotoShapes DEF Sections
<1>. QED
  BY <1>1, <1>2 DEF LookFirst

\* The lookup in the second bucket keeps the state well-typed.
LEMMA LookSecondType ==
  ASSUME Shapes, NEW t \in Threads, LookSecond(t)
  PROVE  Shapes'
<1>1. CASE Hit(t, second(t))
  BY <1>1, HitType, LocalTypes
<1>2. CASE Return(t, Present(FALSE)) /\ UNCHANGED <<buckets, items>>
  BY <1>2, ReturnShapes
<1>3. CASE Return(t, Data(None)) /\ UNCHANGED <<buckets, items>>
  BY <1>3, ReturnShapes
<1>4. CASE Goto(t, "insert_i1") /\ UNCHANGED <<buckets, items, frame, ret>>
  BY <1>4, GotoShapes DEF Sections
<1>. QED
  BY <1>1, <1>2, <1>3, <1>4 DEF LookSecond

\* The insertion into the first bucket keeps the state well-typed.
LEMMA InsertFirstType ==
  ASSUME Shapes, NEW t \in Threads, InsertFirst(t)
  PROVE  Shapes'
<1>1. CASE Land(t, frame[t].home)
  BY <1>1, LandType, LocalTypes
<1>2. CASE Full(t, frame[t].home) /\ Goto(t, "insert_i2") /\ UNCHANGED <<frame, ret>>
  BY <1>2, GotoShapes DEF Sections, Full
<1>. QED
  BY <1>1, <1>2 DEF InsertFirst

\* So does the one into the second bucket, which may choose where to kick.
LEMMA InsertSecondType ==
  ASSUME Shapes, NEW t \in Threads, InsertSecond(t)
  PROVE  Shapes'
<1>1. CASE Land(t, second(t))
  BY <1>1, LandType, LocalTypes
<1>2. CASE UNCHANGED <<buckets, items>> /\ Return(t, Evicted(frame[t].hand.fp))
  BY <1>2, ReturnShapes, LocalTypes
<1>3. CASE /\ UNCHANGED <<buckets, items, ret>> /\ Goto(t, "kick")
           /\ \E i \in kick_starts(t) : frame' = [frame EXCEPT ![t].index = i]
  <2>1. PICK i \in kick_starts(t) : frame' = [frame EXCEPT ![t].index = i]
    BY <1>3
  <2>2. i \in Buckets
    BY LocalTypes DEF kick_starts
  <2>3. frame' \in [Threads -> Frames]
    <3> DEFINE after == [frame[t] EXCEPT !.index = i]
    <3>1. frame' = [frame EXCEPT ![t] = after] /\ after \in Frames
      BY <2>1, <2>2, LocalTypes, AssignTypes
    <3> HIDE DEF after
    <3>. QED
      BY <3>1 DEF Shapes
  <2>4. pc' \in [Threads -> Sections]
    BY <1>3, GotoType DEF Sections
  <2>. QED
    BY <1>3, <2>3, <2>4 DEF Shapes
<1>. QED
  BY <1>1, <1>2, <1>3 DEF InsertSecond, Full

\* What is kicked is a slot of the bucket (bucket.rs, kick_random, kick_lru).
LEMMA VictimTypes ==
  ASSUME NEW t \in Threads
  PROVE  \A s \in victims(t) : s \in Slots
BY KickLruType DEF victims, kick_random

\* A kick keeps the state well-typed: the victim's other index is an index.
LEMMA KickType ==
  ASSUME Shapes, NEW t \in Threads, Kick(t)
  PROVE  Shapes'
<1> DEFINE i == frame[t].index
<1>1. CASE Return(t, Evicted(frame[t].hand.fp)) /\ UNCHANGED <<buckets, items>>
  BY <1>1, ReturnShapes, LocalTypes
<1>2. CASE \E s \in victims(t) :
             LET out == buckets[i][s]
             IN  /\ buckets' = [buckets EXCEPT ![i] = swap(@, s, frame[t].hand)]
                 /\ frame' = [frame EXCEPT ![t].hand = out,
                                           ![t].index = after_kick(frame[t].hand, out, i)]
                 /\ Goto(t, "place")
                 /\ UNCHANGED <<ret, items>>
  <2>1. PICK s \in victims(t) :
             LET out == buckets[i][s]
             IN  /\ buckets' = [buckets EXCEPT ![i] = swap(@, s, frame[t].hand)]
                 /\ frame' = [frame EXCEPT ![t].hand = out,
                                           ![t].index = after_kick(frame[t].hand, out, i)]
                 /\ Goto(t, "place")
                 /\ UNCHANGED <<ret, items>>
    BY <1>2
  <2> DEFINE out == buckets[i][s]
  <2>2. s \in Slots /\ i \in Buckets
    BY VictimTypes, LocalTypes
  <2>3. out \in DataBlocks /\ out.fp \in Fingerprint
    BY <2>2, BucketOf, BlockOf
  <2>4. after_kick(frame[t].hand, out, i) \in Buckets
    BY <2>2, <2>3, IndexTypes DEF after_kick
  <2>5. frame' \in [Threads -> Frames]
    <3> DEFINE other == after_kick(frame[t].hand, out, i)
               after == [frame[t] EXCEPT !.hand = out, !.index = other]
    <3>1. frame' = [frame EXCEPT ![t] = after]
      BY <2>1 DEF Shapes, Frames
    <3>2. after \in Frames
      BY <2>3, <2>4, LocalTypes, AssignTypes
    <3> HIDE DEF after
    <3>. QED
      BY <3>1, <3>2 DEF Shapes
  <2>6. swap(buckets[i], s, frame[t].hand) \in BucketStates
    BY <2>2, SwapType, BucketOf, LocalTypes
  <2>7. buckets' \in [Buckets -> BucketStates]
    BY <2>1, <2>2, <2>6 DEF Shapes
  <2>8. pc' \in [Threads -> Sections]
    BY <2>1, GotoType DEF Sections
  <2>. QED
    BY <2>1, <2>5, <2>7, <2>8 DEF Shapes
<1>. QED
  BY <1>1, <1>2 DEF Kick

\* So does placing the victim; the kicks stay below max_kicks (filter.rs, insert).
LEMMA PlaceType ==
  ASSUME Shapes, NEW t \in Threads, Place(t)
  PROVE  Shapes'
<1>1. CASE Land(t, frame[t].index)
  BY <1>1, LandType, LocalTypes
<1>2. CASE UNCHANGED <<buckets, items>> /\ Return(t, Evicted(frame[t].hand.fp))
  BY <1>2, ReturnShapes, LocalTypes
<1>3. CASE /\ UNCHANGED <<buckets, items, ret>> /\ Goto(t, "kick")
           /\ frame[t].kicks + 1 < MaxKicks
           /\ frame' = [frame EXCEPT ![t].kicks = @ + 1]
  <2>1. frame[t].kicks + 1 \in 0 .. MaxKicks
    BY <1>3, LocalTypes, FilterConstants
  <2>2. frame' \in [Threads -> Frames]
    <3> DEFINE after == [frame[t] EXCEPT !.kicks = frame[t].kicks + 1]
    <3>1. frame' = [frame EXCEPT ![t] = after] /\ after \in Frames
      BY <1>3, <2>1, LocalTypes, AssignTypes
    <3> HIDE DEF after
    <3>. QED
      BY <3>1 DEF Shapes
  <2>3. pc' \in [Threads -> Sections]
    BY <1>3, GotoType DEF Sections
  <2>. QED
    BY <1>3, <2>2, <2>3 DEF Shapes
<1>. QED
  BY <1>1, <1>2, <1>3 DEF Place, Full

\* The counter wraps at usize::MAX when it is incremented.
LEMMA CountAddType ==
  ASSUME Shapes, NEW t \in Threads, CountAdd(t)
  PROVE  Shapes'
<1>1. items' \in 0 .. UsizeMax
  BY FilterConstants DEF CountAdd, wrapping_add, Shapes
<1>. QED
  BY <1>1, ReturnType DEF CountAdd, Shapes

\* Removals keep the state well-typed.
LEMMA RemoveActionsType ==
  ASSUME Shapes, NEW t \in Threads, RemoveFirst(t) \/ RemoveSecond(t)
  PROVE  Shapes'
<1>1. CASE Clear(t, frame[t].home) \/ Clear(t, second(t))
  BY <1>1, ClearType, LocalTypes
<1>2. CASE Goto(t, "remove_i2") /\ UNCHANGED <<buckets, items, frame, ret>>
  BY <1>2, GotoShapes DEF Sections
<1>3. CASE Return(t, Present(FALSE)) /\ UNCHANGED <<buckets, items>>
  BY <1>3, ReturnShapes
<1>. QED
  BY <1>1, <1>2, <1>3 DEF RemoveFirst, RemoveSecond

\* One bucket of a scan keeps the state well-typed.
LEMMA ScanType ==
  ASSUME Shapes, NEW t \in Threads, Scan(t)
  PROVE  Shapes'
<1> DEFINE f    == frame[t]
           i    == position(f.pos)
           b    == buckets[i]
           used == IF ages_lru(f.api) THEN age_lru_counters(b) ELSE b
           left == IF ages_ttl(f.api) THEN age_ttl_counters(used) ELSE used
           gone == f.removed + cleared(b, used) + cleared(used, left)
<1>1. i \in Buckets /\ b \in BucketStates
  BY IndexTypes, BucketOf
<1>2. used \in BucketStates
  BY <1>1, AgeBucketType
<1>3. left \in BucketStates
  BY <1>2, AgeBucketType
<1>4. gone \in Nat
  BY LocalTypes, ClearedType
<1>5. buckets' = [buckets EXCEPT ![i] = left] /\ UNCHANGED items
  BY DEF Scan
<1>6. buckets' \in [Buckets -> BucketStates]
  BY <1>1, <1>3, <1>5, BucketStep
<1>7. \/ frame' = [frame EXCEPT ![t].pos = @ + 1, ![t].removed = gone] /\ UNCHANGED <<pc, ret>>
      \/ /\ Goto(t, "count_sub") /\ UNCHANGED ret
         /\ frame' = [frame EXCEPT ![t] = [NoFrame EXCEPT !.api = f.api, !.removed = gone]]
      \/ Return(t, Count(0))
  BY DEF Scan
<1> HIDE DEF gone, left, used, b, i
<1>8. CASE frame' = [frame EXCEPT ![t].pos = @ + 1, ![t].removed = gone] /\ UNCHANGED <<pc, ret>>
  <2>1. f.pos + 1 \in Nat
    BY LocalTypes
  <2>2. frame' \in [Threads -> Frames]
    <3> DEFINE after == [frame[t] EXCEPT !.pos = f.pos + 1, !.removed = gone]
    <3>1. frame' = [frame EXCEPT ![t] = after] /\ after \in Frames
      BY <1>4, <1>8, <2>1, LocalTypes, AssignTypes
    <3> HIDE DEF after
    <3>. QED
      BY <3>1 DEF Shapes
  <2>. QED
    BY <1>5, <1>6, <1>8, <2>2 DEF Shapes
<1>9. CASE /\ Goto(t, "count_sub") /\ UNCHANGED ret
           /\ frame' = [frame EXCEPT ![t] = [NoFrame EXCEPT !.api = f.api, !.removed = gone]]
  <2>1. pc' \in [Threads -> Sections]
    BY <1>9, GotoType DEF Sections
  <2>2. [NoFrame EXCEPT !.api = f.api, !.removed = gone] \in Frames
    BY <1>4, NoFrameType, LocalTypes DEF Frames
  <2>. QED
    BY <1>5, <1>6, <1>9, <2>1, <2>2 DEF Shapes
<1>10. CASE Return(t, Count(0))
  BY <1>5, <1>6, <1>10, ReturnType DEF Shapes
<1>. QED
  BY <1>7, <1>8, <1>9, <1>10

\* The counter wraps at 0 when it is decremented.
LEMMA CountSubType ==
  ASSUME Shapes, NEW t \in Threads, CountSub(t)
  PROVE  Shapes'
<1>1. frame[t].removed \in Nat
  BY LocalTypes
<1>2. items' \in 0 .. UsizeMax
  BY <1>1, FilterConstants DEF CountSub, wrapping_sub, Shapes
<1>. QED
  BY <1>2, ReturnType DEF CountSub, Shapes

\* The step of a thread leaves the section, the locals and the answer of every
\* other thread alone.
LEMMA OthersUnchanged ==
  ASSUME Shapes, NEW t \in Threads, Begin(t) \/ Continue(t), NEW u \in Threads \ {t}
  PROVE  pc'[u] = pc[u] /\ frame'[u] = frame[u] /\ ret'[u] = ret[u]
<1> USE DEF Shapes, Goto, Return
<1>1. CASE Begin(t)
  <2>1. ASSUME NEW api, NEW section, NEW locals, Call(t, api, section, locals)
        PROVE  pc'[u] = pc[u] /\ frame'[u] = frame[u] /\ ret'[u] = ret[u]
    BY <2>1 DEF Call
  <2>2. ASSUME NEW answer, Return(t, answer)
        PROVE  pc'[u] = pc[u] /\ frame'[u] = frame[u] /\ ret'[u] = ret[u]
    BY <2>2
  <2>3. CASE CallScan(t) \/ GetItemCount(t)
    BY <2>1, <2>2, <2>3 DEF CallScan, ScanPartition, GetItemCount
  <2>4. CASE CallInsert(t) \/ CallInsertIfNotPresent(t)
    BY <2>1, <2>4 DEF CallInsert, CallInsertIfNotPresent
  <2>5. CASE CallContains(t) \/ CallGetAssociatedData(t) \/ CallRemove(t)
    BY <2>1, <2>5 DEF CallContains, CallGetAssociatedData, CallRemove
  <2>. QED
    BY <1>1, <2>3, <2>4, <2>5 DEF Begin
<1>2. CASE LookFirst(t) \/ LookSecond(t)
  BY <1>2 DEF LookFirst, LookSecond, Hit
<1>3. CASE InsertFirst(t) \/ InsertSecond(t)
  BY <1>3 DEF InsertFirst, InsertSecond, Land
<1>4. CASE Kick(t)
  BY <1>4 DEF Kick
<1>5. CASE Place(t) \/ CountAdd(t)
  BY <1>5 DEF Place, Land, CountAdd
<1>6. CASE RemoveFirst(t) \/ RemoveSecond(t)
  BY <1>6 DEF RemoveFirst, RemoveSecond, Clear
<1>7. CASE Scan(t)
  BY <1>7 DEF Scan
<1>8. CASE CountSub(t)
  BY <1>8 DEF CountSub
<1>. QED
  BY <1>1, <1>2, <1>3, <1>4, <1>5, <1>6, <1>7, <1>8 DEF Continue

\* Every section of every method keeps the state well-typed.
LEMMA ContinueType ==
  ASSUME Shapes, NEW t \in Threads, Continue(t)
  PROVE  Shapes'
<1>1. CASE LookFirst(t) \/ LookSecond(t)
  BY <1>1, LookFirstType, LookSecondType
<1>2. CASE InsertFirst(t) \/ InsertSecond(t)
  BY <1>2, InsertFirstType, InsertSecondType
<1>3. CASE Kick(t)
  BY <1>3, KickType
<1>4. CASE Place(t) \/ CountAdd(t)
  BY <1>4, PlaceType, CountAddType
<1>5. CASE RemoveFirst(t) \/ RemoveSecond(t)
  BY <1>5, RemoveActionsType
<1>6. CASE Scan(t) \/ CountSub(t)
  BY <1>6, ScanType, CountSubType
<1>. QED
  BY <1>1, <1>2, <1>3, <1>4, <1>5, <1>6 DEF Continue

\* A thread gets to a lookup by a call of one of the three methods, or from the
\* first lookup to the second with the same locals.
LEMMA LookupLocalsStep ==
  ASSUME StateOK, NEW t \in Threads, Begin(t) \/ Continue(t)
  PROVE  LookupLocals'
<1> SUFFICES ASSUME NEW u \in Threads, pc'[u] \in {"look_i1", "look_i2"}
             PROVE  frame'[u].api \in LookupApis
  BY DEF LookupLocals
<1>1. Shapes /\ LookupLocals
  BY DEF StateOK
<1>2. CASE u # t
  BY <1>1, <1>2, OthersUnchanged DEF LookupLocals
<1>3. CASE u = t /\ Begin(t)
  <2>1. ASSUME NEW api, NEW section, NEW locals, Call(t, api, section, locals)
        PROVE  pc'[t] = section /\ frame'[t] = locals
    BY <1>1, <2>1 DEF Call, Goto, Shapes
  <2>2. CASE CallInsertIfNotPresent(t)
    <3> DEFINE f(k) == keyed("insert_if_not_present", k)
    <3>1. PICK k \in Keys, values \in InsertArgs, update \in LookupArgs :
            Call(t, "insert_if_not_present", "look_i1",
                 [f(k) EXCEPT !.hand = new_data_block(f(k).fp, values), !.update = update])
      BY <2>2 DEF CallInsertIfNotPresent
    <3>2. frame'[t] = [f(k) EXCEPT !.hand = new_data_block(f(k).fp, values), !.update = update]
      BY <2>1, <3>1
    <3>3. frame'[t].api = "insert_if_not_present"
      BY <3>2, KeyedApi DEF AllApis
    <3>. QED
      BY <1>3, <3>3 DEF LookupApis
  <2>3. CASE CallContains(t)
    <3>1. PICK k \in Keys, update \in LookupArgs :
            Call(t, "contains", "look_i1",
                 [keyed("contains", k) EXCEPT !.update = update])
      BY <2>3 DEF CallContains
    <3>2. frame'[t] = [keyed("contains", k) EXCEPT !.update = update]
      BY <2>1, <3>1
    <3>3. frame'[t].api = "contains"
      BY <3>2, KeyedApi DEF AllApis
    <3>. QED
      BY <1>3, <3>3 DEF LookupApis
  <2>4. CASE CallGetAssociatedData(t)
    <3>1. PICK k \in Keys, update \in LookupArgs :
            Call(t, "get_associated_data", "look_i1",
                 [keyed("get_associated_data", k) EXCEPT !.update = update])
      BY <2>4 DEF CallGetAssociatedData
    <3>2. frame'[t] = [keyed("get_associated_data", k) EXCEPT !.update = update]
      BY <2>1, <3>1
    <3>3. frame'[t].api = "get_associated_data"
      BY <3>2, KeyedApi DEF AllApis
    <3>. QED
      BY <1>3, <3>3 DEF LookupApis
  <2>5. CASE CallInsert(t)
    BY <1>3, <2>1, <2>5 DEF CallInsert
  <2>6. CASE CallRemove(t)
    BY <1>3, <2>1, <2>6 DEF CallRemove
  <2>7. CASE CallScan(t) \/ GetItemCount(t)
    BY <1>1, <1>3, <2>7 DEF CallScan, ScanPartition, GetItemCount, Call, Return, Goto, Shapes
  <2>. QED
    BY <1>3, <2>2, <2>3, <2>4, <2>5, <2>6, <2>7 DEF Begin
<1>4. CASE u = t /\ Continue(t)
  <2>1. LookFirst(t) /\ frame' = frame
    BY <1>1, <1>3, <1>4 DEF Continue, LookFirst, LookSecond, Hit, InsertFirst, InsertSecond,
         Land, Kick, Place, CountAdd, RemoveFirst, RemoveSecond, Clear, Scan, CountSub,
         Goto, Return, Shapes
  <2>. QED
    BY <1>1, <1>4, <2>1 DEF LookFirst, LookupLocals
<1>. QED
  BY <1>2, <1>3, <1>4

\* StateOK is inductive.
LEMMA StateOKStep == StateOK /\ [Next]_vars => StateOK'
<1> SUFFICES ASSUME StateOK, [Next]_vars PROVE StateOK'
  OBVIOUS
<1>1. ASSUME NEW t \in Threads, Begin(t) \/ Continue(t) PROVE StateOK'
  <2>1. Shapes'
    BY <1>1, BeginType, ContinueType DEF StateOK
  <2>2. LookupLocals'
    BY <1>1, LookupLocalsStep
  <2>. QED
    BY <2>1, <2>2 DEF StateOK
<1>2. CASE UNCHANGED vars
  BY <1>2 DEF vars, StateOK, Shapes, LookupLocals
<1>. QED
  BY <1>1, <1>2 DEF Next

\* What the methods return are answers.
LEMMA AnswerTypes ==
  /\ \A fp \in Fingerprint : Evicted(fp) \in Answers
  /\ Evicted(None) \in Answers /\ Data(None) \in Answers
  /\ \A p \in BOOLEAN : Present(p) \in Answers
  /\ \A d \in DataBlocks : Data(d) \in Answers
  /\ \A n \in Nat : Count(n) \in Answers
BY DEF Answers, Evicted, Present, Data, Count

\* A section of a method that runs returns nothing, or an answer of the method.
Answered(t) ==
  \/ pc[t] # "idle" /\ UNCHANGED ret
  \/ \E answer \in Answers : ret' = [ret EXCEPT ![t] = answer]

\* What a method returns is an answer of its kind, and the answer of the call
\* before is gone when the next one begins (filter.rs, all methods).
LEMMA AnswersStep ==
  ASSUME StateOK, NEW t \in Threads, Begin(t) \/ Continue(t)
  PROVE  Answered(t)
<1>1. Shapes
  BY DEF StateOK
<1>2. ASSUME NEW answer \in Answers, Return(t, answer) PROVE Answered(t)
  BY <1>2 DEF Return, Answered
<1>3. ASSUME NEW api, NEW section, NEW locals, Call(t, api, section, locals)
      PROVE  Answered(t)
  BY <1>3 DEF Call, Answers, Answered
<1>4. CASE Begin(t)
  <2>1. CASE CallScan(t) \/ GetItemCount(t)
    <3>1. items \in Nat
      BY <1>1, FilterConstants DEF Shapes
    <3>. QED
      BY <2>1, <3>1, <1>2, <1>3, AnswerTypes DEF CallScan, ScanPartition, GetItemCount
  <2>. QED
    BY <1>3, <1>4, <2>1 DEF Begin, CallInsert, CallInsertIfNotPresent, CallContains,
       CallGetAssociatedData, CallRemove
<1>5. CASE UNCHANGED ret /\ pc[t] # "idle"
  BY <1>5 DEF Answered
<1>6. ASSUME NEW i \in Buckets, Hit(t, i), pc[t] \in {"look_i1", "look_i2"}
      PROVE  Answered(t)
  <2> DEFINE f     == frame[t]
             after == look_up(buckets[i], f.fp, f.update)
             d     == after[first(holding(buckets[i], f.fp))]
  <2>1. after \in BucketStates /\ first(holding(buckets[i], f.fp)) \in Slots
    BY <1>1, <1>6, LookUpType, LocalTypes, BucketOf DEF Hit
  <2>2. d \in DataBlocks
    BY <2>1, BlockOf
  <2>3. Return(t, found(f.api, d))
    BY <1>6 DEF Hit
  <2> HIDE DEF d
  <2>4. f.api \in LookupApis
    BY <1>6 DEF StateOK, LookupLocals
  <2>5. found(f.api, d) \in Answers
    BY <2>2, <2>4, AnswerTypes DEF found, LookupApis
  <2>. QED
    BY <2>3, <2>5, <1>2
<1>7. CASE LookFirst(t) \/ LookSecond(t)
  BY <1>1, <1>2, <1>5, <1>6, <1>7, LocalTypes, AnswerTypes DEF LookFirst, LookSecond
<1>8. CASE InsertFirst(t) \/ InsertSecond(t)
  BY <1>1, <1>2, <1>5, <1>8, LocalTypes, AnswerTypes DEF InsertFirst, InsertSecond, Land
<1>9. CASE Kick(t)
  BY <1>1, <1>2, <1>5, <1>9, LocalTypes, AnswerTypes DEF Kick
<1>10. CASE Place(t) \/ CountAdd(t)
  BY <1>1, <1>2, <1>5, <1>10, LocalTypes, AnswerTypes DEF Place, Land, CountAdd
<1>11. CASE RemoveFirst(t) \/ RemoveSecond(t)
  BY <1>2, <1>5, <1>11, AnswerTypes DEF RemoveFirst, RemoveSecond, Clear
<1>12. CASE Scan(t)
  BY <1>2, <1>5, <1>12, AnswerTypes DEF Scan
<1>13. CASE CountSub(t)
  BY <1>1, <1>2, <1>13, LocalTypes, AnswerTypes DEF CountSub
<1>. QED
  BY <1>4, <1>7, <1>8, <1>9, <1>10, <1>11, <1>12, <1>13 DEF Continue

\* Buckets, counter and locals stay well-typed through every interleaving of the
\* methods: no field overflows its bits, no index leaves the array of buckets
\* (filter.rs, all methods).
THEOREM TypeCorrect == Spec => []TypeOK
<1>1. Init => TypeOK
  BY InitShapes DEF TypeOK, StateOK, Init, LookupLocals, Answers
<1>2. TypeOK /\ [Next]_vars => TypeOK'
  <2> SUFFICES ASSUME TypeOK, [Next]_vars PROVE TypeOK'
    OBVIOUS
  <2>1. StateOK'
    BY StateOKStep DEF TypeOK
  <2>2. ret' \in [Threads -> Answers]
    BY AnswersStep DEF TypeOK, Next, vars, Answered
  <2>. QED
    BY <2>1, <2>2 DEF TypeOK
<1>. QED
  BY <1>1, <1>2, PTL DEF Spec

\* In particular, every section finds what it relies on.
LEMMA StateCorrect == Spec => []StateOK
<1>1. TypeOK => StateOK
  BY DEF TypeOK
<1>. QED
  BY <1>1, TypeCorrect, PTL

-----------------------------------------------------------------------------
(* Fingerprints stay where the methods look for them.  The invariant also   *)
(* says of a new item, before its first kick, that it is on its way to a    *)
(* bucket of its key.                                                       *)

NewItemAtHome(t) ==
  frame[t].hand.fp # 0 =>
    /\ pc[t] \in {"look_i1", "look_i2", "insert_i1", "insert_i2"} =>
         frame[t].fp = frame[t].hand.fp /\ Findable(frame[t].fp, frame[t].home)
    /\ pc[t] = "kick" /\ new_item(t) => Findable(frame[t].hand.fp, frame[t].index)

HandFindable(t) == Displaced(t) => Findable(frame[t].hand.fp, frame[t].index)

StoredFindable ==
  \A i \in Buckets, s \in Slots :
    occupied(buckets[i][s]) => Findable(buckets[i][s].fp, i)

FindableInv ==
  /\ StateOK
  /\ StoredFindable
  /\ \A t \in Threads : HandFindable(t) /\ NewItemAtHome(t)

\* A key looks for its fingerprint at its first index.
LEMMA FindableAtKey ==
  ASSUME NEW k \in Keys
  PROVE  Findable(get_fingerprint_and_index(k).fp, get_fingerprint_and_index(k).index)
BY DEF Findable, Pair

\* The other bucket of a pair is as good as the first.
LEMMA FindableOther ==
  ASSUME NEW fp \in Fingerprint, NEW i \in Buckets, Findable(fp, i)
  PROVE  Findable(fp, alt_index(fp, i))
<1>1. PICK k \in Keys : /\ get_fingerprint_and_index(k).fp = fp
                        /\ i \in Pair(fp, get_fingerprint_and_index(k).index)
  BY DEF Findable
<1> DEFINE j == get_fingerprint_and_index(k).index
<1>2. j \in Buckets
  BY KeyTypes
<1>3. i = j \/ i = alt_index(fp, j)
  BY <1>1 DEF Pair
<1>4. alt_index(fp, alt_index(fp, j)) = j
  BY <1>2, AltIndexInvolution
<1>5. alt_index(fp, i) \in Pair(fp, j)
  BY <1>3, <1>4 DEF Pair
<1>. QED
  BY <1>1, <1>5 DEF Findable

\* A section may put into its bucket what may be looked for there.
LEMMA StoredFindableStep ==
  ASSUME Shapes, StoredFindable, NEW i \in Buckets, NEW b \in BucketStates,
         buckets' = [buckets EXCEPT ![i] = b],
         \A s \in Slots : b[s].fp \in {buckets[i][s].fp, 0} \/ Findable(b[s].fp, i)
  PROVE  StoredFindable'
<1> SUFFICES ASSUME NEW j \in Buckets, NEW s \in Slots, occupied(buckets'[j][s])
             PROVE  Findable(buckets'[j][s].fp, j)
  BY DEF StoredFindable, Findable, Pair
<1>1. CASE j # i
  BY <1>1 DEF Shapes, StoredFindable
<1>2. CASE j = i
  <2>1. buckets'[j][s] = b[s]
    BY <1>2 DEF Shapes
  <2>2. b[s].fp # 0
    BY <2>1 DEF occupied, is_empty
  <2>. QED
    BY <1>2, <2>1, <2>2 DEF StoredFindable, occupied, is_empty
<1>. QED
  BY <1>1, <1>2

\* A thread with an empty block, or none, in hand has nothing to bring home.
LEMMA EmptyHanded ==
  ASSUME NEW t \in Threads, frame'[t].hand.fp = 0
  PROVE  HandFindable(t)' /\ NewItemAtHome(t)'
BY DEF HandFindable, NewItemAtHome, Displaced

\* A thread that returns has nothing in hand.
LEMMA ReturnEmptyHanded ==
  ASSUME Shapes, NEW t \in Threads, NEW answer, Return(t, answer)
  PROVE  HandFindable(t)' /\ NewItemAtHome(t)'
<1>1. frame'[t] = NoFrame
  BY DEF Return, Shapes
<1>2. frame'[t].hand.fp = 0
  BY <1>1 DEF NoFrame, ResetBlock
<1>. QED
  BY <1>2, EmptyHanded

\* A keyed call knows the fingerprint and the first index of its key, and has no
\* block in hand yet (filter.rs, get_fingerprint_and_index).
LEMMA KeyedFields ==
  ASSUME NEW api \in AllApis, NEW k \in Keys
  PROVE  /\ keyed(api, k).fp = get_fingerprint_and_index(k).fp
         /\ keyed(api, k).home = get_fingerprint_and_index(k).index
         /\ keyed(api, k).hand = ResetBlock
         /\ \A u : [keyed(api, k) EXCEPT !.update = u].hand = ResetBlock
<1>1. /\ keyed(api, k).fp = get_fingerprint_and_index(k).fp
      /\ keyed(api, k).home = get_fingerprint_and_index(k).index
      /\ keyed(api, k).hand = ResetBlock
  BY NoFrameType DEF keyed, Frames, NoFrame
<1>2. keyed(api, k) \in Frames
  BY KeyedType
<1>. QED
  BY <1>1, <1>2 DEF Frames

\* An insertion starts with a block of its key's fingerprint, and with the
\* bucket of its key.
LEMMA InsertionAtHome ==
  ASSUME Shapes, NEW t \in Threads, NEW api \in AllApis, NEW k \in Keys,
         NEW values \in InsertArgs,
         frame'[t].fp = keyed(api, k).fp, frame'[t].home = keyed(api, k).home,
         frame'[t].hand = new_data_block(keyed(api, k).fp, values),
         pc'[t] \in {"look_i1", "insert_i1"}
  PROVE  HandFindable(t)' /\ NewItemAtHome(t)'
<1>1. values \in InsertValues
  BY ArgumentsAreValues
<1>2. keyed(api, k).fp \in Fingerprint
  BY KeyedType
<1>3. frame'[t].hand.fp = frame'[t].fp
  BY <1>1, <1>2, NewDataBlockType
<1>4. Findable(keyed(api, k).fp, keyed(api, k).home)
  BY FindableAtKey, KeyedFields
<1>. QED
  BY <1>3, <1>4 DEF HandFindable, NewItemAtHome, Displaced, Findable, Pair

\* A call moves no fingerprint, and an insertion starts on its way to a bucket
\* of its key (filter.rs, public methods).
LEMMA FindableBegin ==
  ASSUME FindableInv, NEW t \in Threads, Begin(t)
  PROVE  StoredFindable' /\ HandFindable(t)' /\ NewItemAtHome(t)'
<1>1. Shapes /\ StoredFindable
  BY DEF FindableInv, StateOK
<1>2. ASSUME NEW api, NEW section, NEW locals, Call(t, api, section, locals)
      PROVE  pc'[t] = section /\ frame'[t] = locals /\ buckets' = buckets
  BY <1>1, <1>2 DEF Call, Goto, Shapes
<1>3. buckets' = buckets
  BY DEF Begin, CallInsert, CallInsertIfNotPresent, CallContains, CallGetAssociatedData,
         CallRemove, CallScan, ScanPartition, GetItemCount, Call
<1>4. StoredFindable'
  BY <1>1, <1>3 DEF StoredFindable, Findable, Pair
<1>5. CASE CallInsert(t)
  <2> DEFINE f(k) == keyed("insert", k)
  <2>1. PICK k \in Keys, values \in InsertArgs :
          Call(t, "insert", "insert_i1", [f(k) EXCEPT !.hand = new_data_block(f(k).fp, values)])
    BY <1>5 DEF CallInsert
  <2>2. f(k) \in Frames
    BY KeyedType DEF AllApis
  <2>3. /\ frame'[t] = [f(k) EXCEPT !.hand = new_data_block(f(k).fp, values)]
        /\ pc'[t] = "insert_i1"
    BY <1>2, <2>1
  <2>4. /\ frame'[t].fp = f(k).fp /\ frame'[t].home = f(k).home
        /\ frame'[t].hand = new_data_block(f(k).fp, values)
    BY <2>2, <2>3 DEF Frames
  <2>. QED
    BY <1>1, <1>4, <2>3, <2>4, InsertionAtHome DEF AllApis
<1>6. CASE CallInsertIfNotPresent(t)
  <2> DEFINE f(k) == keyed("insert_if_not_present", k)
  <2>1. PICK k \in Keys, values \in InsertArgs, update \in LookupArgs :
          Call(t, "insert_if_not_present", "look_i1",
               [f(k) EXCEPT !.hand = new_data_block(f(k).fp, values), !.update = update])
    BY <1>6 DEF CallInsertIfNotPresent
  <2>2. f(k) \in Frames
    BY KeyedType DEF AllApis
  <2>3. /\ frame'[t] = [f(k) EXCEPT !.hand = new_data_block(f(k).fp, values), !.update = update]
        /\ pc'[t] = "look_i1"
    BY <1>2, <2>1
  <2>4. /\ frame'[t].fp = f(k).fp /\ frame'[t].home = f(k).home
        /\ frame'[t].hand = new_data_block(f(k).fp, values)
    BY <2>2, <2>3 DEF Frames
  <2>. QED
    BY <1>1, <1>4, <2>3, <2>4, InsertionAtHome DEF AllApis
<1>7. CASE CallContains(t)
  <2>1. PICK k \in Keys, update \in LookupArgs :
          Call(t, "contains", "look_i1", [keyed("contains", k) EXCEPT !.update = update])
    BY <1>7 DEF CallContains
  <2>2. frame'[t] = [keyed("contains", k) EXCEPT !.update = update]
    BY <1>2, <2>1
  <2>3. frame'[t].hand = ResetBlock
    BY <2>2, KeyedFields DEF AllApis
  <2>. QED
    BY <1>4, <2>3, EmptyHanded DEF ResetBlock
<1>8. CASE CallGetAssociatedData(t)
  <2>1. PICK k \in Keys, update \in LookupArgs :
          Call(t, "get_associated_data", "look_i1",
               [keyed("get_associated_data", k) EXCEPT !.update = update])
    BY <1>8 DEF CallGetAssociatedData
  <2>2. frame'[t] = [keyed("get_associated_data", k) EXCEPT !.update = update]
    BY <1>2, <2>1
  <2>3. frame'[t].hand = ResetBlock
    BY <2>2, KeyedFields DEF AllApis
  <2>. QED
    BY <1>4, <2>3, EmptyHanded DEF ResetBlock
<1>9. CASE CallRemove(t)
  <2>1. PICK k \in Keys : Call(t, "remove", "remove_i1", keyed("remove", k))
    BY <1>9 DEF CallRemove
  <2>2. frame'[t].hand = ResetBlock
    BY <1>2, <2>1, KeyedFields DEF AllApis
  <2>. QED
    BY <1>4, <2>2, EmptyHanded DEF ResetBlock
<1>10. CASE CallScan(t)
  <2>1. \/ \E api, start, stop :
             Call(t, api, "scan", [NoFrame EXCEPT !.api = api, !.pos = start, !.stop = stop])
        \/ Return(t, Count(0))
    BY <1>10 DEF CallScan, ScanPartition
  <2>2. CASE Return(t, Count(0))
    BY <1>1, <1>4, <2>2, ReturnEmptyHanded
  <2>3. CASE \E api, start, stop :
               Call(t, api, "scan", [NoFrame EXCEPT !.api = api, !.pos = start, !.stop = stop])
    <3>1. PICK api, start, stop :
            Call(t, api, "scan", [NoFrame EXCEPT !.api = api, !.pos = start, !.stop = stop])
      BY <2>3
    <3>2. frame'[t] = [NoFrame EXCEPT !.api = api, !.pos = start, !.stop = stop]
      BY <1>2, <3>1
    <3>3. frame'[t].hand = ResetBlock
      BY <3>2 DEF NoFrame
    <3>. QED
      BY <1>4, <3>3, EmptyHanded DEF ResetBlock
  <2>. QED
    BY <2>1, <2>2, <2>3
<1>11. CASE GetItemCount(t)
  BY <1>1, <1>4, <1>11, ReturnEmptyHanded DEF GetItemCount
<1>. QED
  BY <1>5, <1>6, <1>7, <1>8, <1>9, <1>10, <1>11 DEF Begin

\* The other threads keep what they have in hand.
LEMMA FindableOthers ==
  ASSUME FindableInv, NEW t \in Threads, Begin(t) \/ Continue(t),
         NEW u \in Threads, u # t
  PROVE  HandFindable(u)' /\ NewItemAtHome(u)'
<1>1. frame'[u] = frame[u] /\ pc'[u] = pc[u]
  BY OthersUnchanged DEF FindableInv, StateOK
<1>. QED
  BY <1>1 DEF FindableInv, HandFindable, NewItemAtHome, Displaced, new_item, Findable, Pair

\* A block lands in a bucket of its fingerprint (filter.rs, insert).
LEMMA FindableLand ==
  ASSUME Shapes, StoredFindable, NEW t \in Threads, NEW i \in Buckets, Land(t, i),
         frame[t].hand.fp # 0 => Findable(frame[t].hand.fp, i)
  PROVE  StoredFindable' /\ HandFindable(t)' /\ NewItemAtHome(t)'
<1> DEFINE b == insert(buckets[i], frame[t].hand)
<1>1. /\ b \in BucketStates
      /\ \E s \in Slots : /\ buckets[i][s].fp \in {0, frame[t].hand.fp}
                          /\ b[s].fp = frame[t].hand.fp
                          /\ \A r \in Slots \ {s} : b[r] = buckets[i][r]
  BY InsertType, LocalTypes, BucketOf DEF Land
<1>2. buckets' = [buckets EXCEPT ![i] = b]
  BY DEF Land
<1> HIDE DEF b
<1>3. ASSUME NEW s \in Slots
      PROVE  b[s].fp \in {buckets[i][s].fp, 0} \/ Findable(b[s].fp, i)
  <2>1. b[s].fp \in {buckets[i][s].fp, frame[t].hand.fp}
    BY <1>1
  <2>. QED
    BY <2>1
<1>4. StoredFindable'
  BY <1>1, <1>2, <1>3, StoredFindableStep
<1>5. frame'[t] = NoFrame
  BY DEF Land, Shapes
<1>6. frame'[t].hand.fp = 0
  BY <1>5 DEF NoFrame, ResetBlock
<1>. QED
  BY <1>4, <1>6, EmptyHanded

\* A lookup moves no fingerprint (filter.rs, contains).
LEMMA FindableHit ==
  ASSUME Shapes, StoredFindable, NEW t \in Threads, NEW i \in Buckets, Hit(t, i)
  PROVE  StoredFindable' /\ HandFindable(t)' /\ NewItemAtHome(t)'
<1> DEFINE b == look_up(buckets[i], frame[t].fp, frame[t].update)
<1>1. b \in BucketStates /\ \A s \in Slots : b[s].fp = buckets[i][s].fp
  BY LookUpType, LocalTypes, BucketOf DEF Hit
<1>2. buckets' = [buckets EXCEPT ![i] = b]
  BY DEF Hit
<1>3. \E answer : Return(t, answer)
  BY DEF Hit
<1> HIDE DEF b
<1>4. StoredFindable'
  BY <1>1, <1>2, StoredFindableStep
<1>. QED
  BY <1>3, <1>4, ReturnEmptyHanded

\* A removal empties a slot (filter.rs, remove).
LEMMA FindableClear ==
  ASSUME Shapes, StoredFindable, NEW t \in Threads, NEW i \in Buckets, Clear(t, i)
  PROVE  StoredFindable' /\ HandFindable(t)' /\ NewItemAtHome(t)'
<1> DEFINE b == remove(buckets[i], frame[t].fp)
<1>1. /\ b \in BucketStates
      /\ \E s \in Slots : b = [buckets[i] EXCEPT ![s] = ResetBlock]
  BY RemoveType, LocalTypes, BucketOf DEF Clear
<1>2. \A s \in Slots : b[s].fp \in {buckets[i][s].fp, 0}
  BY <1>1, BucketOf DEF BucketStates, ResetBlock
<1>3. buckets' = [buckets EXCEPT ![i] = b]
  BY DEF Clear
<1> HIDE DEF b
<1>4. StoredFindable'
  BY <1>1, <1>2, <1>3, StoredFindableStep
<1>5. frame'[t] = [NoFrame EXCEPT !.api = "remove", !.removed = 1]
  BY DEF Clear, Shapes
<1>6. frame'[t].hand.fp = 0
  BY <1>5 DEF NoFrame, ResetBlock
<1>. QED
  BY <1>4, <1>6, EmptyHanded

\* Scans empty slots (filter.rs, scan_and_update_full).
LEMMA FindableScan ==
  ASSUME Shapes, StoredFindable, NEW t \in Threads, Scan(t)
  PROVE  StoredFindable' /\ HandFindable(t)' /\ NewItemAtHome(t)'
<1> DEFINE f    == frame[t]
           i    == position(f.pos)
           used == IF ages_lru(f.api) THEN age_lru_counters(buckets[i]) ELSE buckets[i]
           left == IF ages_ttl(f.api) THEN age_ttl_counters(used) ELSE used
<1>1. i \in Buckets /\ buckets[i] \in BucketStates
  BY IndexTypes, BucketOf
<1> HIDE DEF i
<1>2. /\ used \in BucketStates
      /\ \A s \in Slots : used[s].fp \in {buckets[i][s].fp, 0}
  BY <1>1, AgeBucketType
<1> HIDE DEF used
<1>3. /\ left \in BucketStates
      /\ \A s \in Slots : left[s].fp \in {used[s].fp, 0}
  BY <1>2, AgeBucketType
<1> HIDE DEF left
<1>4. buckets' = [buckets EXCEPT ![i] = left]
  BY DEF Scan, i, used, left
<1>5. \A s \in Slots : left[s].fp \in {buckets[i][s].fp, 0}
  BY <1>2, <1>3
<1>6. StoredFindable'
  BY <1>1, <1>3, <1>4, <1>5, StoredFindableStep
<1>7. pc'[t] \in {"scan", "count_sub", "idle"}
  BY DEF Scan, Return, Goto, Shapes
<1>8. HandFindable(t)' /\ NewItemAtHome(t)'
  BY <1>7 DEF HandFindable, NewItemAtHome, Displaced
<1>. QED
  BY <1>6, <1>8

\* A kick puts its block where the methods look for it, and takes the victim
\* to the other bucket of its pair (filter.rs, insert).
LEMMA FindableKick ==
  ASSUME FindableInv, NEW t \in Threads, Kick(t)
  PROVE  StoredFindable' /\ HandFindable(t)' /\ NewItemAtHome(t)'
<1> DEFINE i == frame[t].index
<1>1. Shapes /\ StoredFindable /\ HandFindable(t) /\ NewItemAtHome(t)
  BY DEF FindableInv, StateOK
<1>2. CASE Return(t, Evicted(frame[t].hand.fp)) /\ UNCHANGED buckets
  BY <1>1, <1>2, ReturnEmptyHanded DEF StoredFindable, Findable, Pair
<1>3. CASE \E s \in victims(t) :
             LET out == buckets[i][s]
             IN  /\ buckets' = [buckets EXCEPT ![i] = swap(@, s, frame[t].hand)]
                 /\ frame' = [frame EXCEPT ![t].hand = out,
                                           ![t].index = after_kick(frame[t].hand, out, i)]
                 /\ Goto(t, "place")
  <2>1. PICK s \in victims(t) :
             LET out == buckets[i][s]
             IN  /\ buckets' = [buckets EXCEPT ![i] = swap(@, s, frame[t].hand)]
                 /\ frame' = [frame EXCEPT ![t].hand = out,
                                           ![t].index = after_kick(frame[t].hand, out, i)]
                 /\ Goto(t, "place")
    BY <1>3
  <2> DEFINE b   == swap(buckets[i], s, frame[t].hand)
             out == buckets[i][s]
  <2>2. i \in Buckets /\ s \in Slots /\ frame[t].hand \in DataBlocks
    BY <1>1, LocalTypes, VictimTypes
  <2>3. /\ b \in BucketStates
        /\ \A r \in Slots : b[r] = IF r = s THEN frame[t].hand ELSE buckets[i][r]
    BY <1>1, <2>2, SwapType, BucketOf
  <2>4. out.fp \in Fingerprint
    BY <1>1, <2>2, BucketOf, BlockOf
  <2>5. frame[t].hand.fp # 0 => Findable(frame[t].hand.fp, i)
    BY <1>1 DEF HandFindable, NewItemAtHome, Displaced, Kick
  <2>6. buckets' = [buckets EXCEPT ![i] = b]
    BY <2>1
  <2> HIDE DEF b
  <2>7. \A r \in Slots : b[r].fp \in {buckets[i][r].fp, 0} \/ Findable(b[r].fp, i)
    BY <2>3, <2>5
  <2>8. StoredFindable'
    BY <1>1, <2>2, <2>3, <2>6, <2>7, StoredFindableStep
  <2>9. /\ pc'[t] = "place"
        /\ frame'[t].hand = out
        /\ frame'[t].index = alt_index(out.fp, i)
    BY <1>1, <2>1 DEF Goto, Shapes, Frames, after_kick
  <2>10. out.fp # 0 => Findable(out.fp, i)
    BY <1>1, <2>2 DEF StoredFindable, occupied, is_empty
  <2>11. out.fp # 0 => Findable(out.fp, alt_index(out.fp, i))
    BY <2>2, <2>4, <2>10, FindableOther
  <2> HIDE DEF out
  <2>12. HandFindable(t)' /\ NewItemAtHome(t)'
    BY <2>9, <2>11 DEF HandFindable, NewItemAtHome, Displaced, Findable, Pair
  <2>. QED
    BY <2>8, <2>12
<1>. QED
  BY <1>2, <1>3 DEF Kick

\* Before the first kick a new item is on its way to a bucket of its key, and the
\* first kick starts at one of them (filter.rs, insert, insert_if_not_present).
LEMMA FindableInsert ==
  ASSUME FindableInv, NEW t \in Threads, InsertFirst(t) \/ InsertSecond(t)
  PROVE  StoredFindable' /\ HandFindable(t)' /\ NewItemAtHome(t)'
<1> DEFINE hand == frame[t].hand
<1>1. Shapes /\ StoredFindable /\ NewItemAtHome(t)
  BY DEF FindableInv, StateOK
<1>2. /\ frame[t].home \in Buckets /\ second(t) \in Buckets
      /\ frame[t].fp \in Fingerprint
  BY <1>1, LocalTypes
<1>3. hand.fp # 0 => Findable(hand.fp, frame[t].home) /\ frame[t].fp = hand.fp
  BY <1>1 DEF NewItemAtHome, InsertFirst, InsertSecond
<1>4. hand.fp # 0 => Findable(hand.fp, second(t))
  BY <1>2, <1>3, FindableOther DEF second
<1>5. CASE Land(t, frame[t].home) \/ Land(t, second(t))
  BY <1>1, <1>2, <1>3, <1>4, <1>5, FindableLand
<1>6. CASE /\ pc[t] = "insert_i1" /\ Full(t, frame[t].home)
           /\ Goto(t, "insert_i2") /\ UNCHANGED frame
  <2>1. buckets' = buckets /\ frame' = frame /\ pc'[t] = "insert_i2"
    BY <1>1, <1>6 DEF Full, Goto, Shapes
  <2>. QED
    BY <1>1, <1>6, <2>1 DEF StoredFindable, HandFindable, NewItemAtHome, Displaced,
                            Findable, Pair
<1>7. CASE Full(t, second(t)) /\ Return(t, Evicted(hand.fp))
  BY <1>1, <1>7, ReturnEmptyHanded DEF Full, StoredFindable, Findable, Pair
<1>8. CASE /\ pc[t] = "insert_i2" /\ Full(t, second(t)) /\ Goto(t, "kick")
           /\ \E i \in kick_starts(t) : frame' = [frame EXCEPT ![t].index = i]
  <2>1. PICK i \in kick_starts(t) : frame' = [frame EXCEPT ![t].index = i]
    BY <1>8
  <2>2. i \in {frame[t].home, second(t)}
    BY DEF kick_starts
  <2>3. buckets' = buckets /\ pc'[t] = "kick"
    BY <1>1, <1>8 DEF Full, Goto, Shapes
  <2>4. /\ frame'[t].hand = hand /\ frame'[t].index = i
        /\ frame'[t].kicks = frame[t].kicks
    BY <1>1, <2>1 DEF Shapes, Frames
  <2>5. hand.fp # 0 => Findable(hand.fp, i)
    BY <1>3, <1>4, <2>2
  <2>. QED
    BY <1>1, <2>3, <2>4, <2>5 DEF StoredFindable, HandFindable, NewItemAtHome,
                                  Displaced, new_item, Findable, Pair
<1>. QED
  BY <1>5, <1>6, <1>7, <1>8 DEF InsertFirst, InsertSecond

\* A displaced block lands, goes on being kicked or is reported from the bucket
\* of its pair it has got to (filter.rs, insert).
LEMMA FindablePlace ==
  ASSUME FindableInv, NEW t \in Threads, Place(t)
  PROVE  StoredFindable' /\ HandFindable(t)' /\ NewItemAtHome(t)'
<1>1. Shapes /\ StoredFindable /\ HandFindable(t)
  BY DEF FindableInv, StateOK
<1>2. frame[t].index \in Buckets /\ frame[t].kicks \in Nat
  BY <1>1, LocalTypes, FilterConstants
<1>3. frame[t].hand.fp # 0 => Findable(frame[t].hand.fp, frame[t].index)
  BY <1>1 DEF HandFindable, Displaced, Place
<1>4. CASE Land(t, frame[t].index)
  BY <1>1, <1>2, <1>3, <1>4, FindableLand
<1>5. CASE Full(t, frame[t].index) /\ Return(t, Evicted(frame[t].hand.fp))
  BY <1>1, <1>5, ReturnEmptyHanded DEF Full, StoredFindable, Findable, Pair
<1>6. CASE /\ Full(t, frame[t].index) /\ Goto(t, "kick")
           /\ frame' = [frame EXCEPT ![t].kicks = @ + 1]
  <2>1. buckets' = buckets /\ pc'[t] = "kick"
    BY <1>1, <1>6 DEF Full, Goto, Shapes
  <2>2. /\ frame'[t].hand = frame[t].hand /\ frame'[t].index = frame[t].index
        /\ frame'[t].kicks = frame[t].kicks + 1
    BY <1>1, <1>6 DEF Shapes, Frames
  <2>3. frame'[t].kicks # 0
    BY <1>2, <2>2
  <2>. QED
    BY <1>1, <1>3, <2>1, <2>2, <2>3 DEF StoredFindable, HandFindable, NewItemAtHome,
                                        Displaced, new_item, Findable, Pair
<1>. QED
  BY <1>4, <1>5, <1>6 DEF Place

\* Lookups move no fingerprint; one that finds nothing hands a new item on to
\* the insertion (filter.rs, insert_if_not_present).
LEMMA FindableLook ==
  ASSUME FindableInv, NEW t \in Threads, LookFirst(t) \/ LookSecond(t)
  PROVE  StoredFindable' /\ HandFindable(t)' /\ NewItemAtHome(t)'
<1>1. Shapes /\ StoredFindable /\ NewItemAtHome(t)
  BY DEF FindableInv, StateOK
<1>2. frame[t].home \in Buckets /\ second(t) \in Buckets
  BY <1>1, LocalTypes
<1>3. CASE Hit(t, frame[t].home) \/ Hit(t, second(t))
  BY <1>1, <1>2, <1>3, FindableHit
<1>4. CASE UNCHANGED buckets /\ \E answer : Return(t, answer)
  BY <1>1, <1>4, ReturnEmptyHanded DEF StoredFindable, Findable, Pair
<1>5. CASE UNCHANGED <<buckets, frame>> /\ (Goto(t, "look_i2") \/ Goto(t, "insert_i1"))
  <2>1. pc'[t] \in {"look_i2", "insert_i1"} /\ pc[t] \in {"look_i1", "look_i2"}
    BY <1>1, <1>5 DEF Goto, Shapes, LookFirst, LookSecond
  <2>. QED
    BY <1>1, <1>5, <2>1 DEF StoredFindable, HandFindable, NewItemAtHome, Displaced,
                            Findable, Pair
<1>. QED
  BY <1>3, <1>4, <1>5 DEF LookFirst, LookSecond

\* Removals leave the other fingerprints where they are (filter.rs, remove).
LEMMA FindableRemove ==
  ASSUME FindableInv, NEW t \in Threads, RemoveFirst(t) \/ RemoveSecond(t)
  PROVE  StoredFindable' /\ HandFindable(t)' /\ NewItemAtHome(t)'
<1>1. Shapes /\ StoredFindable
  BY DEF FindableInv, StateOK
<1>2. CASE Clear(t, frame[t].home) \/ Clear(t, second(t))
  BY <1>1, <1>2, LocalTypes, FindableClear
<1>3. CASE UNCHANGED buckets /\ (Goto(t, "remove_i2") \/ Return(t, Present(FALSE)))
  <2>1. pc'[t] \in {"remove_i2", "idle"}
    BY <1>1, <1>3 DEF Goto, Return, Shapes
  <2>. QED
    BY <1>1, <1>3, <2>1 DEF StoredFindable, HandFindable, NewItemAtHome, Displaced,
                            Findable, Pair
<1>. QED
  BY <1>2, <1>3 DEF RemoveFirst, RemoveSecond

\* Every section of every method leaves fingerprints where they are looked for.
LEMMA FindableContinue ==
  ASSUME FindableInv, NEW t \in Threads, Continue(t)
  PROVE  StoredFindable' /\ HandFindable(t)' /\ NewItemAtHome(t)'
<1>1. Shapes /\ StoredFindable
  BY DEF FindableInv, StateOK
<1>2. CASE Scan(t)
  BY <1>1, <1>2, FindableScan
<1>3. CASE UNCHANGED buckets /\ \E answer : Return(t, answer)
  BY <1>1, <1>3, ReturnEmptyHanded DEF StoredFindable, Findable, Pair
<1>. QED
  BY <1>2, <1>3, FindableLook, FindableInsert, FindableKick, FindablePlace, FindableRemove
  DEF Continue, CountAdd, CountSub

\* FindableInv is inductive.
LEMMA FindableInvStep == FindableInv /\ [Next]_vars => FindableInv'
<1> SUFFICES ASSUME FindableInv, [Next]_vars PROVE FindableInv'
  OBVIOUS
<1>1. StateOK'
  BY StateOKStep DEF FindableInv
<1>2. ASSUME NEW t \in Threads, Begin(t) \/ Continue(t) PROVE FindableInv'
  <2>1. StoredFindable' /\ HandFindable(t)' /\ NewItemAtHome(t)'
    BY <1>2, FindableBegin, FindableContinue
  <2>2. \A u \in Threads \ {t} : HandFindable(u)' /\ NewItemAtHome(u)'
    BY <1>2, FindableOthers
  <2>3. \A u \in Threads : HandFindable(u)' /\ NewItemAtHome(u)'
    BY <2>1, <2>2
  <2>. QED
    BY <1>1, <2>1, <2>3 DEF FindableInv
<1>3. CASE UNCHANGED vars
  BY <1>1, <1>3 DEF vars, FindableInv, StoredFindable, HandFindable, NewItemAtHome, Displaced,
                    new_item, Findable, Pair
<1>. QED
  BY <1>2, <1>3 DEF Next

\* A new filter holds nothing.
LEMMA FindableInvInit == Init => FindableInv
<1> SUFFICES ASSUME Init PROVE FindableInv
  OBVIOUS
<1>1. StateOK
  BY InitShapes DEF StateOK, Init, LookupLocals
<1>2. StoredFindable
  BY EmptyBucketType DEF Init, StoredFindable, occupied, is_empty
<1>3. \A t \in Threads : frame[t].hand.fp = 0
  BY DEF Init, NoFrame, ResetBlock
<1>. QED
  BY <1>1, <1>2, <1>3 DEF FindableInv, HandFindable, NewItemAtHome, Displaced

\* FindableInv says of the stored and of the displaced blocks what is wanted.
LEMMA FindableInvMeans == FindableInv => FindableWhereLooked
BY DEF FindableInv, StoredFindable, HandFindable, FindableWhereLooked

\* However the kicks of concurrent insertions move them, and whatever scans and
\* removals do in between, stored fingerprints and those on their way stay in the
\* two buckets in which the methods look for a key that has them (filter.rs,
\* insert, alt_index).
THEOREM AlwaysFindable == Spec => []FindableWhereLooked
BY FindableInvInit, FindableInvMeans, FindableInvStep, PTL DEF Spec

-----------------------------------------------------------------------------
(* The kicks of an insertion under LRU end on their own.  The bound holds   *)
(* from one kick to the next because the victim of a kick becomes the block *)
(* in hand; that they start with no kick counted is part of the invariant.  *)

KicksUncounted(t) ==
  pc[t] \in {"look_i1", "look_i2", "insert_i1", "insert_i2"} => frame[t].kicks = 0

ChainBounded(t) ==
  /\ pc[t] = "place" => frame[t].hand.lru + frame[t].kicks <= LruMask
  /\ pc[t] = "kick" /\ ~new_item(t) => frame[t].hand.lru + frame[t].kicks <= LruMask + 1

LruInv == StateOK /\ (LruEnabled => \A t \in Threads : KicksUncounted(t) /\ ChainBounded(t))

\* A keyed call starts with no kick counted.
LEMMA KeyedKicks ==
  ASSUME NEW api \in AllApis, NEW k \in Keys
  PROVE  /\ keyed(api, k).kicks = 0
         /\ \A d : [keyed(api, k) EXCEPT !.hand = d].kicks = 0
         /\ \A u : [keyed(api, k) EXCEPT !.update = u].kicks = 0
         /\ \A d, u : [keyed(api, k) EXCEPT !.hand = d, !.update = u].kicks = 0
<1>1. keyed(api, k).kicks = 0
  BY NoFrameType DEF keyed, Frames, NoFrame
<1>2. keyed(api, k) \in Frames
  BY KeyedType
<1>. QED
  BY <1>1, <1>2 DEF Frames

\* No call starts in the middle of a chain of kicks.
LEMMA LruBegin ==
  ASSUME Shapes, NEW t \in Threads, Begin(t)
  PROVE  KicksUncounted(t)' /\ ChainBounded(t)'
<1>1. ASSUME NEW api, NEW section, NEW locals, Call(t, api, section, locals)
      PROVE  pc'[t] = section /\ frame'[t] = locals
  BY <1>1 DEF Call, Goto, Shapes
<1>2. pc'[t] \in {"look_i1", "insert_i1", "remove_i1", "scan", "idle"}
  BY <1>1 DEF Begin, CallInsert, CallInsertIfNotPresent, CallContains, CallGetAssociatedData,
              CallRemove, CallScan, ScanPartition, GetItemCount, Return, Goto, Shapes
<1>3. ChainBounded(t)'
  BY <1>2 DEF ChainBounded
<1>4. CASE CallInsert(t)
  <2>1. PICK k \in Keys : \E d : frame'[t] = [keyed("insert", k) EXCEPT !.hand = d]
    BY <1>1, <1>4 DEF CallInsert
  <2>. QED
    BY <1>3, <2>1, KeyedKicks DEF KicksUncounted, AllApis
<1>5. CASE CallInsertIfNotPresent(t)
  <2>1. PICK k \in Keys : \E d, u :
          frame'[t] = [keyed("insert_if_not_present", k) EXCEPT !.hand = d, !.update = u]
    BY <1>1, <1>5 DEF CallInsertIfNotPresent
  <2>. QED
    BY <1>3, <2>1, KeyedKicks DEF KicksUncounted, AllApis
<1>6. CASE CallContains(t)
  <2>1. PICK k \in Keys : \E u : frame'[t] = [keyed("contains", k) EXCEPT !.update = u]
    BY <1>1, <1>6 DEF CallContains
  <2>. QED
    BY <1>3, <2>1, KeyedKicks DEF KicksUncounted, AllApis
<1>7. CASE CallGetAssociatedData(t)
  <2>1. PICK k \in Keys : \E u : frame'[t] = [keyed("get_associated_data", k) EXCEPT !.update = u]
    BY <1>1, <1>7 DEF CallGetAssociatedData
  <2>. QED
    BY <1>3, <2>1, KeyedKicks DEF KicksUncounted, AllApis
<1>8. CASE CallRemove(t) \/ CallScan(t) \/ GetItemCount(t)
  <2>1. pc'[t] \in {"remove_i1", "scan", "idle"}
    BY <1>1, <1>8 DEF CallRemove, CallScan, ScanPartition, GetItemCount, Return, Goto, Shapes
  <2>. QED
    BY <1>3, <2>1 DEF KicksUncounted
<1>. QED
  BY <1>4, <1>5, <1>6, <1>7, <1>8 DEF Begin

\* The victim's counter is below that of the block that takes its slot
\* (bucket.rs, kick_lru).
LEMMA LruKick ==
  ASSUME Shapes, LruEnabled, NEW t \in Threads, ChainBounded(t), Kick(t)
  PROVE  KicksUncounted(t)' /\ ChainBounded(t)'
<1> DEFINE i == frame[t].index
<1>1. CASE Return(t, Evicted(frame[t].hand.fp))
  BY <1>1 DEF Return, Goto, Shapes, KicksUncounted, ChainBounded
<1>2. CASE \E s \in victims(t) :
             /\ frame' = [frame EXCEPT ![t].hand = buckets[i][s],
                                       ![t].index = after_kick(frame[t].hand, buckets[i][s], i)]
             /\ Goto(t, "place")
  <2>1. PICK s \in victims(t) :
             /\ frame' = [frame EXCEPT ![t].hand = buckets[i][s],
                                       ![t].index = after_kick(frame[t].hand, buckets[i][s], i)]
             /\ Goto(t, "place")
    BY <1>2
  <2>2. s \in Slots /\ (~new_item(t) => buckets[i][s].lru < frame[t].hand.lru)
    BY KickLruType DEF victims
  <2>3. buckets[i][s] \in DataBlocks
    BY <2>2, LocalTypes, BucketOf, BlockOf
  <2>4. /\ buckets[i][s].lru \in Nat /\ buckets[i][s].lru <= LruMask
        /\ frame[t].hand.lru \in Nat /\ frame[t].kicks \in Nat /\ LruMask \in Nat
    BY <2>3, LocalTypes, Masks, FilterConstants DEF DataBlocks
  <2>5. pc'[t] = "place" /\ frame'[t].hand = buckets[i][s] /\ frame'[t].kicks = frame[t].kicks
    BY <2>1 DEF Goto, Shapes, Frames
  <2>6. buckets[i][s].lru + frame[t].kicks <= LruMask
    <3>1. CASE new_item(t)
      BY <2>4, <3>1 DEF new_item
    <3>2. CASE ~new_item(t)
      <4>1. frame[t].hand.lru + frame[t].kicks <= LruMask + 1
        BY <3>2 DEF ChainBounded, Kick
      <4>. QED
        BY <2>2, <2>4, <3>2, <4>1
    <3>. QED
      BY <3>1, <3>2
  <2>. QED
    BY <2>5, <2>6 DEF KicksUncounted, ChainBounded
<1>. QED
  BY <1>1, <1>2 DEF Kick

\* A block that finds no place is kicked on with one more kick counted
\* (filter.rs, insert).
LEMMA LruPlace ==
  ASSUME Shapes, NEW t \in Threads, ChainBounded(t), Place(t)
  PROVE  KicksUncounted(t)' /\ ChainBounded(t)'
<1>1. CASE Land(t, frame[t].index) \/ Return(t, Evicted(frame[t].hand.fp))
  BY <1>1 DEF Land, Return, Goto, Shapes, KicksUncounted, ChainBounded
<1>2. CASE Goto(t, "kick") /\ frame' = [frame EXCEPT ![t].kicks = @ + 1]
  <2>1. /\ frame[t].hand.lru \in Nat /\ frame[t].kicks \in Nat /\ LruMask \in Nat
    BY LocalTypes, Masks, FilterConstants DEF DataBlocks
  <2>2. /\ pc'[t] = "kick" /\ frame'[t].hand = frame[t].hand
        /\ frame'[t].kicks = frame[t].kicks + 1
    BY <1>2 DEF Goto, Shapes, Frames
  <2>3. frame[t].hand.lru + frame[t].kicks <= LruMask
    BY DEF ChainBounded, Place
  <2>. QED
    BY <2>1, <2>2, <2>3 DEF KicksUncounted, ChainBounded
<1>. QED
  BY <1>1, <1>2 DEF Place

\* Every section of every method keeps the bound on the chain.
LEMMA LruContinue ==
  ASSUME StateOK, LruEnabled, NEW t \in Threads, KicksUncounted(t), ChainBounded(t), Continue(t)
  PROVE  KicksUncounted(t)' /\ ChainBounded(t)'
<1>1. Shapes
  BY DEF StateOK
<1>2. CASE InsertSecond(t) /\ pc'[t] = "kick"
  <2>1. frame[t].kicks = 0
    BY <1>2 DEF KicksUncounted, InsertSecond
  <2>2. \E i : frame' = [frame EXCEPT ![t].index = i]
    BY <1>1, <1>2 DEF InsertSecond, Land, Return, Goto, Shapes
  <2>3. frame'[t].kicks = 0
    BY <1>1, <2>1, <2>2 DEF Shapes, Frames
  <2>. QED
    BY <1>2, <2>3 DEF KicksUncounted, ChainBounded, new_item
<1>3. CASE InsertSecond(t) /\ pc'[t] # "kick"
  <2>1. pc'[t] \in {"count_add", "idle"}
    BY <1>1, <1>3 DEF InsertSecond, Land, Return, Goto, Shapes
  <2>. QED
    BY <2>1 DEF KicksUncounted, ChainBounded
<1>4. CASE LookFirst(t) \/ LookSecond(t) \/ InsertFirst(t)
  <2>1. \/ pc'[t] \in {"idle", "count_add"}
        \/ pc'[t] \in {"look_i2", "insert_i1", "insert_i2"} /\ frame'[t] = frame[t]
    BY <1>1, <1>4 DEF LookFirst, LookSecond, InsertFirst, Hit, Land, Return, Goto, Shapes
  <2>2. pc[t] \in {"look_i1", "look_i2", "insert_i1"}
    BY <1>4 DEF LookFirst, LookSecond, InsertFirst
  <2>. QED
    BY <2>1, <2>2 DEF KicksUncounted, ChainBounded
<1>5. CASE CountAdd(t) \/ RemoveFirst(t) \/ RemoveSecond(t) \/ Scan(t) \/ CountSub(t)
  <2>1. pc'[t] \in {"idle", "count_sub", "remove_i2", "scan"}
    BY <1>1, <1>5 DEF CountAdd, RemoveFirst, RemoveSecond, Clear, Scan, CountSub, Return, Goto,
                      Shapes
  <2>. QED
    BY <2>1 DEF KicksUncounted, ChainBounded
<1>. QED
  BY <1>1, <1>2, <1>3, <1>4, <1>5, LruKick, LruPlace DEF Continue

\* LruInv is inductive.
LEMMA LruInvStep == LruInv /\ [Next]_vars => LruInv'
<1> SUFFICES ASSUME LruInv, [Next]_vars PROVE LruInv'
  OBVIOUS
<1>1. StateOK /\ StateOK' /\ Shapes
  BY StateOKStep DEF LruInv, StateOK
<1>2. ASSUME NEW t \in Threads, Begin(t) \/ Continue(t), LruEnabled,
             NEW u \in Threads
      PROVE  KicksUncounted(u)' /\ ChainBounded(u)'
  <2>1. KicksUncounted(u) /\ ChainBounded(u)
    BY <1>2 DEF LruInv
  <2>2. CASE u = t
    BY <1>1, <1>2, <2>1, <2>2, LruBegin, LruContinue
  <2>3. CASE u # t
    <3>1. pc'[u] = pc[u] /\ frame'[u] = frame[u]
      BY <1>1, <1>2, <2>3, OthersUnchanged
    <3>. QED
      BY <2>1, <3>1 DEF KicksUncounted, ChainBounded, new_item
  <2>. QED
    BY <2>2, <2>3
<1>3. CASE UNCHANGED vars
  BY <1>1, <1>3 DEF vars, LruInv, KicksUncounted, ChainBounded, new_item
<1>. QED
  BY <1>1, <1>2, <1>3 DEF Next, LruInv, LruEnabled

\* Under LRU an insertion makes at most LruMask + 1 kicks, for any max_kicks and
\* whatever other threads do to the buckets between its kicks (bucket.rs,
\* kick_lru).
THEOREM KicksEndUnderLru == Spec => []LruChainBounded
<1>1. Init => LruInv
  BY InitShapes DEF Init, LruInv, StateOK, LookupLocals, KicksUncounted, ChainBounded, NoFrame
<1>2. LruInv => LruChainBounded
  BY DEF LruInv, ChainBounded, LruChainBounded
<1>. QED
  BY <1>1, <1>2, LruInvStep, PTL DEF Spec
-----------------------------------------------------------------------------
(* How a call begins, in the terms that the theorems of other modules need. *)

\* The locals of a call with key k: its fingerprint, its first index, and no kick
\* counted (filter.rs, get_fingerprint_and_index).
CalledWith(f, api, k) ==
  /\ f.api = api /\ f.kicks = 0 /\ f.removed = 0
  /\ f.fp = get_fingerprint_and_index(k).fp
  /\ f.home = get_fingerprint_and_index(k).index

\* Whatever block and update the caller passes, these are its locals.
LEMMA KeyedCall ==
  ASSUME NEW api \in AllApis, NEW k \in Keys
  PROVE  /\ keyed(api, k) \in Frames
         /\ keyed(api, k).api = api /\ keyed(api, k).kicks = 0 /\ keyed(api, k).removed = 0
         /\ keyed(api, k).fp = get_fingerprint_and_index(k).fp
         /\ keyed(api, k).home = get_fingerprint_and_index(k).index
         /\ keyed(api, k).hand = ResetBlock
<1>1. keyed(api, k).api = api /\ keyed(api, k).removed = 0
  BY NoFrameType DEF keyed, Frames, NoFrame
<1>. QED
  BY <1>1, KeyedType, KeyedFields, KeyedKicks

\* The methods that take a key are methods.
LEMMA AllApisNames ==
  /\ "insert" \in AllApis /\ "insert_if_not_present" \in AllApis /\ "remove" \in AllApis
  /\ "contains" \in AllApis /\ "get_associated_data" \in AllApis
BY DEF AllApis

\* A thread that calls an insertion has a new block of its key in hand.
BeginsInsertion(t) ==
  \E k \in Keys, values \in InsertArgs :
    /\ \/ frame'[t].api = "insert" /\ pc'[t] = "insert_i1"
       \/ frame'[t].api = "insert_if_not_present" /\ pc'[t] = "look_i1"
    /\ CalledWith(frame'[t], frame'[t].api, k)
    /\ frame'[t].hand = new_data_block(get_fingerprint_and_index(k).fp, values)

\* One that looks up or removes a key has none.
BeginsKeyed(t) ==
  \E k \in Keys :
    /\ \/ frame'[t].api \in {"contains", "get_associated_data"} /\ pc'[t] = "look_i1"
       \/ frame'[t].api = "remove" /\ pc'[t] = "remove_i1"
    /\ CalledWith(frame'[t], frame'[t].api, k)
    /\ frame'[t].hand = ResetBlock

\* The other methods have no key.
BeginsUnkeyed(t) ==
  /\ \/ frame'[t].api \in ScanApis /\ pc'[t] = "scan"
     \/ frame'[t].api = "none" /\ pc'[t] = "idle"
  /\ frame'[t].fp = 0 /\ frame'[t].hand = ResetBlock /\ frame'[t].removed = 0

\* Every call begins in one of these ways, and touches no bucket before it has
\* locked one (filter.rs, public methods).
LEMMA BeginForms ==
  ASSUME Shapes, NEW t \in Threads, Begin(t)
  PROVE  /\ pc[t] = "idle" /\ UNCHANGED <<buckets, items>>
         /\ BeginsInsertion(t) \/ BeginsKeyed(t) \/ BeginsUnkeyed(t)
<1>1. pc[t] = "idle" /\ UNCHANGED <<buckets, items>>
  BY DEF Begin, CallInsert, CallInsertIfNotPresent, CallContains, CallGetAssociatedData,
         CallRemove, CallScan, ScanPartition, GetItemCount, Call
<1>2. ASSUME NEW api, NEW section, NEW locals, Call(t, api, section, locals)
      PROVE  pc'[t] = section /\ frame'[t] = locals
  BY <1>2 DEF Call, Goto, Shapes
<1>3. CASE CallInsert(t)
  <2>1. PICK k \in Keys, values \in InsertArgs :
          Call(t, "insert", "insert_i1",
               [keyed("insert", k) EXCEPT !.hand = new_data_block(keyed("insert", k).fp, values)])
    BY <1>3 DEF CallInsert
  <2> DEFINE d == new_data_block(keyed("insert", k).fp, values)
  <2>2. d \in DataBlocks /\ d = new_data_block(get_fingerprint_and_index(k).fp, values)
    BY KeyedType, KeyedFields, NewDataBlockType, ArgumentsAreValues DEF AllApis
  <2>3. frame'[t] = [keyed("insert", k) EXCEPT !.hand = d] /\ pc'[t] = "insert_i1"
    BY <1>2, <2>1
  <2> HIDE DEF d
  <2>4. CalledWith(frame'[t], "insert", k) /\ frame'[t].hand = d
    <3> DEFINE f == keyed("insert", k)
    <3>1. /\ f \in Frames /\ f.api = "insert" /\ f.kicks = 0 /\ f.removed = 0
          /\ f.hand = ResetBlock
          /\ f.fp = get_fingerprint_and_index(k).fp
          /\ f.home = get_fingerprint_and_index(k).index
      BY KeyedCall, AllApisNames
    <3>2. frame'[t] = [f EXCEPT !.hand = d]
      BY <2>3
    <3> HIDE DEF f
    <3>. QED
      BY <3>1, <3>2 DEF Frames, CalledWith
  <2>5. frame'[t].api = "insert"
    BY <2>4 DEF CalledWith
  <2>6. BeginsInsertion(t)
    BY <2>2, <2>3, <2>4, <2>5, Zenon DEF BeginsInsertion
  <2>. QED
    BY <1>1, <2>6
<1>4. CASE CallInsertIfNotPresent(t)
  <2> DEFINE g(k) == keyed("insert_if_not_present", k)
  <2>1. PICK k \in Keys, values \in InsertArgs, update \in LookupArgs :
          Call(t, "insert_if_not_present", "look_i1",
               [g(k) EXCEPT !.hand = new_data_block(g(k).fp, values), !.update = update])
    BY <1>4 DEF CallInsertIfNotPresent
  <2> DEFINE d == new_data_block(g(k).fp, values)
  <2>2. d \in DataBlocks /\ d = new_data_block(get_fingerprint_and_index(k).fp, values)
    BY KeyedType, KeyedFields, NewDataBlockType, ArgumentsAreValues DEF AllApis
  <2>3. frame'[t] = [g(k) EXCEPT !.hand = d, !.update = update] /\ pc'[t] = "look_i1"
    BY <1>2, <2>1
  <2> HIDE DEF d
  <2>4. CalledWith(frame'[t], "insert_if_not_present", k) /\ frame'[t].hand = d
    <3> DEFINE f == keyed("insert_if_not_present", k)
    <3>1. /\ f \in Frames /\ f.api = "insert_if_not_present" /\ f.kicks = 0 /\ f.removed = 0
          /\ f.hand = ResetBlock
          /\ f.fp = get_fingerprint_and_index(k).fp
          /\ f.home = get_fingerprint_and_index(k).index
      BY KeyedCall, AllApisNames
    <3>2. frame'[t] = [f EXCEPT !.hand = d, !.update = update]
      BY <2>3
    <3> HIDE DEF f
    <3>. QED
      BY <3>1, <3>2 DEF Frames, CalledWith
  <2>5. frame'[t].api = "insert_if_not_present"
    BY <2>4 DEF CalledWith
  <2>6. BeginsInsertion(t)
    BY <2>2, <2>3, <2>4, <2>5, Zenon DEF BeginsInsertion
  <2>. QED
    BY <1>1, <2>6
<1>5. CASE CallContains(t)
  <2>1. PICK k \in Keys, update \in LookupArgs :
          Call(t, "contains", "look_i1", [keyed("contains", k) EXCEPT !.update = update])
    BY <1>5 DEF CallContains
  <2>2. frame'[t] = [keyed("contains", k) EXCEPT !.update = update] /\ pc'[t] = "look_i1"
    BY <1>2, <2>1
  <2>3. CalledWith(frame'[t], "contains", k) /\ frame'[t].hand = ResetBlock
    <3> DEFINE f == keyed("contains", k)
    <3>1. /\ f \in Frames /\ f.api = "contains" /\ f.kicks = 0 /\ f.removed = 0
          /\ f.hand = ResetBlock
          /\ f.fp = get_fingerprint_and_index(k).fp
          /\ f.home = get_fingerprint_and_index(k).index
      BY KeyedCall, AllApisNames
    <3>2. frame'[t] = [f EXCEPT !.update = update]
      BY <2>2
    <3> HIDE DEF f
    <3>. QED
      BY <3>1, <3>2 DEF Frames, CalledWith
  <2>4. frame'[t].api = "contains"
    BY <2>3 DEF CalledWith
  <2>5. BeginsKeyed(t)
    <3>1. \/ frame'[t].api \in {"contains", "get_associated_data"} /\ pc'[t] = "look_i1"
          \/ frame'[t].api = "remove" /\ pc'[t] = "remove_i1"
      BY <2>2, <2>4
    <3>. QED
      BY <2>3, <2>4, <3>1, Zenon DEF BeginsKeyed
  <2>. QED
    BY <1>1, <2>5
<1>6. CASE CallGetAssociatedData(t)
  <2> DEFINE g(k) == keyed("get_associated_data", k)
  <2>1. PICK k \in Keys, update \in LookupArgs :
          Call(t, "get_associated_data", "look_i1", [g(k) EXCEPT !.update = update])
    BY <1>6 DEF CallGetAssociatedData
  <2>2. frame'[t] = [g(k) EXCEPT !.update = update] /\ pc'[t] = "look_i1"
    BY <1>2, <2>1
  <2>3. CalledWith(frame'[t], "get_associated_data", k) /\ frame'[t].hand = ResetBlock
    <3> DEFINE f == keyed("get_associated_data", k)
    <3>1. /\ f \in Frames /\ f.api = "get_associated_data" /\ f.kicks = 0 /\ f.removed = 0
          /\ f.hand = ResetBlock
          /\ f.fp = get_fingerprint_and_index(k).fp
          /\ f.home = get_fingerprint_and_index(k).index
      BY KeyedCall, AllApisNames
    <3>2. frame'[t] = [f EXCEPT !.update = update]
      BY <2>2
    <3> HIDE DEF f
    <3>. QED
      BY <3>1, <3>2 DEF Frames, CalledWith
  <2>4. frame'[t].api = "get_associated_data"
    BY <2>3 DEF CalledWith
  <2>5. BeginsKeyed(t)
    <3>1. \/ frame'[t].api \in {"contains", "get_associated_data"} /\ pc'[t] = "look_i1"
          \/ frame'[t].api = "remove" /\ pc'[t] = "remove_i1"
      BY <2>2, <2>4
    <3>. QED
      BY <2>3, <2>4, <3>1, Zenon DEF BeginsKeyed
  <2>. QED
    BY <1>1, <2>5
<1>7. CASE CallRemove(t)
  <2>1. PICK k \in Keys : Call(t, "remove", "remove_i1", keyed("remove", k))
    BY <1>7 DEF CallRemove
  <2>2. frame'[t] = keyed("remove", k) /\ pc'[t] = "remove_i1"
    BY <1>2, <2>1
  <2>3. CalledWith(frame'[t], "remove", k) /\ frame'[t].hand = ResetBlock
    <3> DEFINE f == keyed("remove", k)
    <3>1. /\ f \in Frames /\ f.api = "remove" /\ f.kicks = 0 /\ f.removed = 0
          /\ f.hand = ResetBlock
          /\ f.fp = get_fingerprint_and_index(k).fp
          /\ f.home = get_fingerprint_and_index(k).index
      BY KeyedCall, AllApisNames
    <3>2. frame'[t] = f
      BY <2>2
    <3> HIDE DEF f
    <3>. QED
      BY <3>1, <3>2 DEF Frames, CalledWith
  <2>4. frame'[t].api = "remove"
    BY <2>3 DEF CalledWith
  <2>5. BeginsKeyed(t)
    <3>1. \/ frame'[t].api \in {"contains", "get_associated_data"} /\ pc'[t] = "look_i1"
          \/ frame'[t].api = "remove" /\ pc'[t] = "remove_i1"
      BY <2>2, <2>4
    <3>. QED
      BY <2>3, <2>4, <3>1, Zenon DEF BeginsKeyed
  <2>. QED
    BY <1>1, <2>5
<1>8. ASSUME NEW answer, Return(t, answer)
      PROVE  BeginsUnkeyed(t)
  <2>1. frame'[t] = NoFrame /\ pc'[t] = "idle"
    BY <1>8 DEF Return, Goto, Shapes
  <2>. QED
    BY <2>1 DEF BeginsUnkeyed, NoFrame
<1>9. CASE CallScan(t)
  <2>1. PICK api \in ScanApis :
          \/ \E start, stop :
               Call(t, api, "scan", [NoFrame EXCEPT !.api = api, !.pos = start, !.stop = stop])
          \/ Return(t, Count(0))
    BY <1>9 DEF CallScan, ScanPartition
  <2>2. CASE \E start, stop :
               Call(t, api, "scan", [NoFrame EXCEPT !.api = api, !.pos = start, !.stop = stop])
    <3>1. PICK start, stop :
            Call(t, api, "scan", [NoFrame EXCEPT !.api = api, !.pos = start, !.stop = stop])
      BY <2>2
    <3>2. /\ frame'[t] = [NoFrame EXCEPT !.api = api, !.pos = start, !.stop = stop]
          /\ pc'[t] = "scan"
      BY <1>2, <3>1
    <3>. QED
      BY <1>1, <3>2 DEF BeginsUnkeyed, NoFrame
  <2>. QED
    BY <1>1, <1>8, <2>1, <2>2
<1>10. CASE GetItemCount(t)
  BY <1>1, <1>8, <1>10 DEF GetItemCount
<1>. QED
  BY <1>3, <1>4, <1>5, <1>6, <1>7, <1>9, <1>10 DEF Begin
-----------------------------------------------------------------------------
(* How a call goes on. *)

\* Between two sections a method keeps its key.
SameKey(t) ==
  /\ frame'[t].api = frame[t].api
  /\ frame'[t].fp = frame[t].fp /\ frame'[t].home = frame[t].home
  /\ frame'[t].removed = frame[t].removed

\* A lookup, an insertion or a removal goes on to its next bucket with all its
\* locals as they were.
GoesToNext(t) ==
  /\ \/ pc[t] = "look_i1" /\ pc'[t] = "look_i2"
     \/ /\ pc[t] = "look_i2" /\ pc'[t] = "insert_i1"
        /\ frame[t].api = "insert_if_not_present"
     \/ pc[t] = "insert_i1" /\ pc'[t] = "insert_i2"
     \/ pc[t] = "remove_i1" /\ pc'[t] = "remove_i2"
  /\ frame'[t] = frame[t] /\ UNCHANGED buckets

\* The kicks begin at one of the key's buckets with the new block in hand.
StartsToKick(t) ==
  /\ pc[t] = "insert_i2" /\ pc'[t] = "kick"
  /\ frame'[t].index \in {frame[t].home, second(t)}
  /\ frame'[t].hand = frame[t].hand /\ frame'[t].kicks = frame[t].kicks
  /\ SameKey(t) /\ UNCHANGED buckets

\* A kick takes out a block for its other bucket.
TakesOut(t) ==
  /\ pc[t] = "kick" /\ pc'[t] = "place" /\ SameKey(t)
  /\ frame'[t].kicks = frame[t].kicks
  /\ \E s \in victims(t) :
       LET out == buckets[frame[t].index][s]
       IN  /\ frame'[t].hand = out /\ frame'[t].index = alt_index(out.fp, frame[t].index)
           /\ buckets' = [buckets EXCEPT ![frame[t].index] =
                            swap(buckets[frame[t].index], s, frame[t].hand)]

\* A block that finds no place is kicked on.
KicksOn(t) ==
  /\ pc[t] = "place" /\ pc'[t] = "kick" /\ SameKey(t)
  /\ frame'[t].hand = frame[t].hand /\ frame'[t].index = frame[t].index
  /\ frame'[t].kicks = frame[t].kicks + 1
  /\ UNCHANGED buckets

\* A section of a method ends the call but for the counter, scans, or goes on in
\* one of these ways (filter.rs, all methods).
LEMMA ContinueForms ==
  ASSUME Shapes, NEW t \in Threads, Continue(t)
  PROVE  \/ pc'[t] \in {"idle", "count_add", "count_sub"}
         \/ pc[t] = "scan" /\ pc'[t] = "scan"
         \/ GoesToNext(t) \/ StartsToKick(t) \/ TakesOut(t) \/ KicksOn(t)
<1> USE DEF Goto, Return
<1>1. CASE LookFirst(t) \/ LookSecond(t) \/ InsertFirst(t) \/ RemoveFirst(t) \/ RemoveSecond(t)
  BY <1>1 DEF LookFirst, LookSecond, Hit, InsertFirst, Land, Full, RemoveFirst, RemoveSecond,
              Clear, GoesToNext, Shapes
<1>2. CASE CountAdd(t) \/ CountSub(t) \/ Scan(t)
  BY <1>2 DEF CountAdd, CountSub, Scan, Shapes
<1>3. CASE InsertSecond(t)
  <2>1. CASE pc'[t] = "kick"
    <3>1. PICK i \in kick_starts(t) : frame' = [frame EXCEPT ![t].index = i]
      BY <1>3, <2>1 DEF InsertSecond, Land, Shapes
    <3>2. UNCHANGED buckets /\ pc[t] = "insert_i2" /\ i \in {frame[t].home, second(t)}
      BY <1>3, <2>1, <3>1 DEF InsertSecond, Land, Full, Shapes, kick_starts
    <3>3. frame[t] \in Frames /\ frame'[t] = [frame[t] EXCEPT !.index = i]
      BY <3>1 DEF Shapes
    <3>. QED
      BY <2>1, <3>2, <3>3 DEF StartsToKick, SameKey, Frames
  <2>. QED
    BY <1>3, <2>1 DEF InsertSecond, Land, Shapes
<1>4. CASE Kick(t)
  <2> DEFINE i == frame[t].index
  <2>1. CASE pc'[t] = "place"
    <3>1. PICK s \in victims(t) :
            /\ buckets' = [buckets EXCEPT ![i] = swap(buckets[i], s, frame[t].hand)]
            /\ frame' = [frame EXCEPT ![t].hand = buckets[i][s],
                                      ![t].index = after_kick(frame[t].hand, buckets[i][s], i)]
      BY <1>4, <2>1 DEF Kick, Shapes
    <3> DEFINE out == buckets[i][s]
    <3>2. frame[t] \in Frames /\ pc[t] = "kick"
      BY <1>4 DEF Shapes, Kick
    <3>3. /\ frame'[t].hand = out /\ frame'[t].index = alt_index(out.fp, i)
          /\ frame'[t].kicks = frame[t].kicks /\ SameKey(t)
      BY <3>1, <3>2 DEF Shapes, Frames, after_kick, SameKey
    <3>. QED
      BY <2>1, <3>1, <3>2, <3>3 DEF TakesOut
  <2>. QED
    BY <1>4, <2>1 DEF Kick, Shapes
<1>5. CASE Place(t)
  <2>1. CASE pc'[t] = "kick"
    <3>1. frame' = [frame EXCEPT ![t].kicks = @ + 1] /\ UNCHANGED buckets /\ pc[t] = "place"
      BY <1>5, <2>1 DEF Place, Land, Full, Shapes
    <3>2. frame[t] \in Frames /\ frame'[t] = [frame[t] EXCEPT !.kicks = frame[t].kicks + 1]
      BY <3>1 DEF Shapes
    <3>. QED
      BY <2>1, <3>1, <3>2 DEF KicksOn, SameKey, Frames
  <2>. QED
    BY <1>5, <2>1 DEF Place, Land, Shapes
<1>. QED
  BY <1>1, <1>2, <1>3, <1>4, <1>5 DEF Continue

\* A call that ends, or has inserted its block, leaves no locals.
LEMMA EndsEmpty ==
  ASSUME Shapes, NEW t \in Threads, Continue(t), pc'[t] \in {"idle", "count_add"}
  PROVE  frame'[t] = NoFrame
BY DEF Continue, LookFirst, LookSecond, Hit, InsertFirst, InsertSecond, Land, Kick, Place,
       CountAdd, RemoveFirst, RemoveSecond, Clear, Scan, CountSub, Goto, Return, Shapes
-----------------------------------------------------------------------------
(* Values in range: what holds of the TTLs and the LRU counters as long as  *)
(* the configured and the passed ones fit their fields.                     *)

\* Under LRU, an insertion that has found both buckets full finds a block to kick,
\* whatever the other threads do to the buckets in between: "For completely new
\* items insertion is guaranteed" (bucket.rs:95).  Only a counter of 32 bits can
\* get as high as the minimum that a new item starts from.
THEOREM NewItemsAlwaysKick ==
  ASSUME LruMask < U32Max
  PROVE  Spec => []NewItemKicks
<1>1. StateOK => NewItemKicks
  <2> SUFFICES ASSUME StateOK, LruEnabled, NEW t \in Threads, pc[t] = "kick", new_item(t)
               PROVE  victims(t) # {}
    BY DEF NewItemKicks
  <2> DEFINE b == buckets[frame[t].index]
  <2>1. b \in BucketStates
    BY BucketOf, LocalTypes DEF StateOK
  <2>2. victims(t) = kick_lru(b, frame[t].hand, TRUE)
    BY DEF victims, new_item
  <2>. QED
    BY <2>1, <2>2, KickLruOfNew
<1>. QED
  BY <1>1, StateCorrect, PTL

\* The configured TTL and those that the callers pass are positive and fit.
TtlsFit ==
  /\ TtlFits(TtlDefault)
  /\ \A a \in InsertArgs : TtlFits(a.ttl)
  /\ \A a \in LookupArgs : TtlFits(a.ttl)

TtlInv ==
  /\ StateOK
  /\ \A i \in Buckets : BucketTtlLeft(buckets[i])
  /\ \A t \in Threads : TtlLeft(frame[t].hand) /\ TtlFits(frame[t].update.ttl)

\* A call passes on the update of its caller, or none (filter.rs, contains,
\* get_associated_data).
LEMMA BeginUpdate ==
  ASSUME Shapes, NEW t \in Threads, Begin(t)
  PROVE  /\ frame'[t].update \in LookupArgs \cup {NoUpdate}
         /\ pc'[t] = "look_i1" => frame'[t].update \in LookupArgs
<1>1. ASSUME NEW api, NEW section, NEW locals, Call(t, api, section, locals)
      PROVE  frame'[t] = locals /\ pc'[t] = section
  BY <1>1 DEF Call, Goto, Shapes
<1>2. ASSUME NEW api \in AllApis, NEW k \in Keys
      PROVE  keyed(api, k) \in Frames /\ keyed(api, k).update = NoUpdate
  BY <1>2, KeyedType, NoFrameType DEF keyed, Frames, NoFrame
<1>3. CASE CallInsert(t)
  <2>1. PICK k \in Keys : /\ \E d : frame'[t] = [keyed("insert", k) EXCEPT !.hand = d]
                        /\ pc'[t] = "insert_i1"
    BY <1>1, <1>3 DEF CallInsert
  <2> DEFINE f == keyed("insert", k)
  <2>2. f \in Frames /\ f.update = NoUpdate /\ \E d : frame'[t] = [f EXCEPT !.hand = d]
    BY <1>2, <2>1, AllApisNames
  <2> HIDE DEF f
  <2>. QED
    BY <2>1, <2>2 DEF Frames
<1>4. CASE CallInsertIfNotPresent(t)
  <2> DEFINE g(k) == keyed("insert_if_not_present", k)
  <2>1. PICK k \in Keys, update \in LookupArgs :
          \E d : frame'[t] = [g(k) EXCEPT !.hand = d, !.update = update]
    BY <1>1, <1>4 DEF CallInsertIfNotPresent
  <2> DEFINE f == g(k)
  <2>2. f \in Frames /\ \E d : frame'[t] = [f EXCEPT !.hand = d, !.update = update]
    BY <1>2, <2>1, AllApisNames
  <2> HIDE DEF f
  <2>. QED
    BY <2>2 DEF Frames
<1>5. CASE CallContains(t) \/ CallGetAssociatedData(t)
  <2>1. PICK api \in {"contains", "get_associated_data"}, k \in Keys, update \in LookupArgs :
          frame'[t] = [keyed(api, k) EXCEPT !.update = update]
    BY <1>1, <1>5 DEF CallContains, CallGetAssociatedData
  <2> DEFINE f == keyed(api, k)
  <2>2. f \in Frames /\ frame'[t] = [f EXCEPT !.update = update]
    BY <1>2, <2>1, AllApisNames
  <2> HIDE DEF f
  <2>. QED
    BY <2>2 DEF Frames
<1>6. CASE CallRemove(t)
  <2>1. PICK k \in Keys : frame'[t] = keyed("remove", k) /\ pc'[t] = "remove_i1"
    BY <1>1, <1>6 DEF CallRemove
  <2>. QED
    BY <1>2, <2>1, AllApisNames
<1>7. ASSUME NEW answer, Return(t, answer)
      PROVE  frame'[t].update = NoUpdate /\ pc'[t] = "idle"
  BY <1>7 DEF Return, Goto, Shapes, NoFrame
<1>8. CASE CallScan(t)
  <2>1. PICK api \in ScanApis :
          \/ \E start, stop :
               Call(t, api, "scan", [NoFrame EXCEPT !.api = api, !.pos = start, !.stop = stop])
          \/ Return(t, Count(0))
    BY <1>8 DEF CallScan, ScanPartition
  <2>2. CASE \E start, stop :
               Call(t, api, "scan", [NoFrame EXCEPT !.api = api, !.pos = start, !.stop = stop])
    <3>1. PICK start, stop :
            /\ frame'[t] = [NoFrame EXCEPT !.api = api, !.pos = start, !.stop = stop]
            /\ pc'[t] = "scan"
      BY <1>1, <2>2
    <3>. QED
      BY <3>1 DEF NoFrame
  <2>. QED
    BY <1>7, <2>1, <2>2
<1>9. CASE GetItemCount(t)
  BY <1>7, <1>9 DEF GetItemCount
<1>. QED
  BY <1>3, <1>4, <1>5, <1>6, <1>8, <1>9 DEF Begin

\* It keeps the update and the block in hand until it returns, but that a kick
\* takes out another block (filter.rs, insert).
LEMMA ContinueLocals ==
  ASSUME Shapes, NEW t \in Threads, Continue(t)
  PROVE  /\ frame'[t].update \in {frame[t].update, NoUpdate}
         /\ frame'[t].hand \in {frame[t].hand, ResetBlock}
                               \cup {buckets[frame[t].index][s] : s \in victims(t)}
<1> DEFINE Ok(f) == /\ f.update \in {frame[t].update, NoUpdate}
                    /\ f.hand \in {frame[t].hand, ResetBlock}
                                  \cup {buckets[frame[t].index][s] : s \in victims(t)}
<1>1. frame[t] \in Frames /\ frame \in [Threads -> Frames]
  BY DEF Shapes
<1>2. Ok(frame[t]) /\ Ok(NoFrame)
  BY DEF NoFrame
<1>3. CASE frame' = frame \/ frame' = [frame EXCEPT ![t] = NoFrame]
  BY <1>1, <1>2, <1>3
<1>4. ASSUME NEW i, frame' = [frame EXCEPT ![t].index = i]
      PROVE  Ok(frame'[t])
  BY <1>1, <1>4 DEF Frames
<1>5. CASE frame' = [frame EXCEPT ![t].kicks = @ + 1]
  BY <1>1, <1>5 DEF Frames
<1>6. CASE \E n : frame' = [frame EXCEPT ![t].pos = @ + 1, ![t].removed = n]
  BY <1>1, <1>6 DEF Frames
<1>7. ASSUME NEW api, NEW n,
             frame' = [frame EXCEPT ![t] = [NoFrame EXCEPT !.api = api, !.removed = n]]
      PROVE  Ok(frame'[t])
  BY <1>1, <1>7 DEF NoFrame
<1>8. CASE TakesOut(t)
  <2>1. frame'[t].hand \in {buckets[frame[t].index][s] : s \in victims(t)}
    BY <1>8 DEF TakesOut
  <2>2. Kick(t) /\ pc'[t] = "place"
    BY <1>8 DEF TakesOut, Continue, LookFirst, LookSecond, InsertFirst, InsertSecond,
                Place, CountAdd, RemoveFirst, RemoveSecond, Scan, CountSub
  <2>3. PICK d, i : frame' = [frame EXCEPT ![t].hand = d, ![t].index = i]
    BY <2>2 DEF Kick, Return, Goto, Shapes
  <2>4. frame'[t].update = frame[t].update
    BY <1>1, <2>3 DEF Frames
  <2>. QED
    BY <2>1, <2>4
<1>9. CASE LookFirst(t) \/ LookSecond(t) \/ CountAdd(t) \/ CountSub(t)
  BY <1>3, <1>9 DEF LookFirst, LookSecond, Hit, CountAdd, CountSub, Return
<1>10. CASE InsertFirst(t) \/ InsertSecond(t)
  BY <1>3, <1>4, <1>10 DEF InsertFirst, InsertSecond, Land, Return
<1>11. CASE Kick(t)
  <2>1. CASE pc'[t] = "place"
    BY <1>8, <1>11, <2>1, ContinueForms DEF Kick, GoesToNext, StartsToKick, KicksOn
  <2>2. pc'[t] = "place" \/ frame' = [frame EXCEPT ![t] = NoFrame]
    BY <1>11 DEF Kick, Return, Goto, Shapes
  <2>. QED
    BY <1>3, <2>1, <2>2
<1>12. CASE Place(t)
  BY <1>3, <1>5, <1>12 DEF Place, Land, Return
<1>13. CASE RemoveFirst(t) \/ RemoveSecond(t)
  BY <1>3, <1>7, <1>13 DEF RemoveFirst, RemoveSecond, Clear, Return
<1>14. CASE Scan(t)
  BY <1>3, <1>6, <1>7, <1>14 DEF Scan, Return
<1>. QED
  BY <1>9, <1>10, <1>11, <1>12, <1>13, <1>14 DEF Continue

\* A section that leaves its bucket with time leaves every bucket so.
LEMMA BucketTtlStep ==
  ASSUME Shapes, \A j \in Buckets : BucketTtlLeft(buckets[j]),
         NEW i \in Buckets, NEW b, BucketTtlLeft(b), buckets' = [buckets EXCEPT ![i] = b]
  PROVE  \A j \in Buckets : BucketTtlLeft(buckets'[j])
BY DEF Shapes

\* Every section leaves the blocks in the buckets with time (filter.rs, all methods).
LEMMA ContinueTtl ==
  ASSUME TtlInv, NEW t \in Threads, Continue(t)
  PROVE  \A j \in Buckets : BucketTtlLeft(buckets'[j])
<1> DEFINE Left == \A j \in Buckets : BucketTtlLeft(buckets'[j])
<1>1. /\ Shapes /\ frame[t].update \in LookupValues /\ TtlFits(frame[t].update.ttl)
      /\ frame[t].hand \in DataBlocks /\ TtlLeft(frame[t].hand)
      /\ frame[t].home \in Buckets /\ second(t) \in Buckets /\ frame[t].index \in Buckets
      /\ \A j \in Buckets : buckets[j] \in BucketStates /\ BucketTtlLeft(buckets[j])
  BY LocalTypes, BucketOf DEF TtlInv, StateOK
<1>2. CASE UNCHANGED buckets
  BY <1>1, <1>2
<1>3. ASSUME NEW i \in Buckets, Hit(t, i)
      PROVE  Left
  <2> DEFINE b == look_up(buckets[i], frame[t].fp, frame[t].update)
  <2>1. buckets' = [buckets EXCEPT ![i] = b] /\ BucketTtlLeft(b)
    BY <1>1, <1>3, LookUpTtl DEF Hit
  <2> HIDE DEF b
  <2>. QED
    BY <1>1, <2>1, BucketTtlStep
<1>4. ASSUME NEW i \in Buckets, Land(t, i)
      PROVE  Left
  <2> DEFINE b == insert(buckets[i], frame[t].hand)
  <2>1. buckets' = [buckets EXCEPT ![i] = b] /\ BucketTtlLeft(b)
    BY <1>1, <1>4, InsertTtl DEF Land
  <2> HIDE DEF b
  <2>. QED
    BY <1>1, <2>1, BucketTtlStep
<1>5. ASSUME NEW i \in Buckets, Clear(t, i)
      PROVE  Left
  <2> DEFINE b == remove(buckets[i], frame[t].fp)
  <2>1. buckets' = [buckets EXCEPT ![i] = b] /\ BucketTtlLeft(b)
    BY <1>1, <1>5, EmptyingTtl DEF Clear
  <2> HIDE DEF b
  <2>. QED
    BY <1>1, <2>1, BucketTtlStep
<1>6. CASE TakesOut(t)
  <2> DEFINE i == frame[t].index
  <2>1. PICK s \in victims(t) :
          buckets' = [buckets EXCEPT ![i] = swap(buckets[i], s, frame[t].hand)]
    BY <1>6 DEF TakesOut
  <2> DEFINE b == swap(buckets[i], s, frame[t].hand)
  <2>2. \A r \in Slots : b[r] = IF r = s THEN frame[t].hand ELSE buckets[i][r]
    BY <1>1, VictimTypes, SwapType
  <2>3. BucketTtlLeft(b)
    BY <1>1, <2>2 DEF BucketTtlLeft
  <2>4. buckets' = [buckets EXCEPT ![i] = b]
    BY <2>1
  <2> HIDE DEF b
  <2>. QED
    BY <1>1, <2>3, <2>4, BucketTtlStep
<1>7. CASE Scan(t)
  <2> DEFINE f    == frame[t]
             i    == position(f.pos)
             used == IF ages_lru(f.api) THEN age_lru_counters(buckets[i]) ELSE buckets[i]
             left == IF ages_ttl(f.api) THEN age_ttl_counters(used) ELSE used
  <2>1. i \in Buckets /\ buckets[i] \in BucketStates /\ BucketTtlLeft(buckets[i])
    BY <1>1, IndexTypes
  <2>2. used \in BucketStates /\ BucketTtlLeft(used)
    BY <2>1, AgeBucketType, EmptyingTtl
  <2>3. BucketTtlLeft(left)
    BY <2>2, EmptyingTtl
  <2>4. buckets' = [buckets EXCEPT ![i] = left]
    BY <1>7 DEF Scan
  <2> HIDE DEF left, used, i
  <2>. QED
    BY <1>1, <2>1, <2>3, <2>4, BucketTtlStep
<1>8. CASE LookFirst(t) \/ LookSecond(t)
  BY <1>1, <1>2, <1>3, <1>8 DEF LookFirst, LookSecond
<1>9. CASE InsertFirst(t) \/ InsertSecond(t) \/ Place(t)
  BY <1>1, <1>2, <1>4, <1>9 DEF InsertFirst, InsertSecond, Place, Full
<1>10. CASE RemoveFirst(t) \/ RemoveSecond(t)
  BY <1>1, <1>2, <1>5, <1>10 DEF RemoveFirst, RemoveSecond
<1>11. CASE Kick(t)
  <2>1. pc'[t] = "place" \/ UNCHANGED buckets
    BY <1>1, <1>11 DEF Kick, Goto, Shapes
  <2>2. pc'[t] = "place" => TakesOut(t)
    BY <1>1, <1>11, ContinueForms DEF Kick, GoesToNext, StartsToKick, KicksOn
  <2>. QED
    BY <1>2, <1>6, <2>1, <2>2
<1>12. CASE CountAdd(t) \/ CountSub(t)
  BY <1>2, <1>12 DEF CountAdd, CountSub
<1>. QED
  BY <1>7, <1>8, <1>9, <1>10, <1>11, <1>12 DEF Continue

\* The block of a new insertion has time, too.
LEMMA BeginTtl ==
  ASSUME TtlsFit, Shapes, NEW t \in Threads, Begin(t)
  PROVE  TtlLeft(frame'[t].hand) /\ TtlFits(frame'[t].update.ttl)
<1>1. TtlFits(frame'[t].update.ttl)
  BY BeginUpdate DEF TtlsFit, TtlFits, NoUpdate
<1>2. TtlLeft(ResetBlock)
  BY DEF TtlLeft, ResetBlock
<1>3. CASE BeginsInsertion(t)
  <2>1. PICK k \in Keys, values \in InsertArgs :
          frame'[t].hand = new_data_block(get_fingerprint_and_index(k).fp, values)
    BY <1>3, Zenon DEF BeginsInsertion
  <2>2. new_data_block(get_fingerprint_and_index(k).fp, values).ttl > 0
    BY KeyTypes, NewTtl, ArgumentsAreValues DEF TtlsFit
  <2>. QED
    BY <1>1, <2>1, <2>2 DEF TtlLeft
<1>4. CASE BeginsKeyed(t) \/ BeginsUnkeyed(t)
  BY <1>1, <1>2, <1>4 DEF BeginsKeyed, BeginsUnkeyed
<1>. QED
  BY <1>3, <1>4, BeginForms

\* TtlInv is inductive.
LEMMA TtlInvStep ==
  ASSUME TtlsFit
  PROVE  TtlInv /\ [Next]_vars => TtlInv'
<1> SUFFICES ASSUME TtlInv, [Next]_vars PROVE TtlInv'
  OBVIOUS
<1>1. StateOK' /\ Shapes
  BY StateOKStep DEF TtlInv, StateOK
<1>2. CASE UNCHANGED vars
  BY <1>1, <1>2 DEF TtlInv, vars
<1>3. ASSUME NEW t \in Threads, Begin(t) \/ Continue(t)
      PROVE  TtlInv'
  <2>1. \A i \in Buckets : BucketTtlLeft(buckets'[i])
    <3>1. CASE Begin(t)
      <4>1. UNCHANGED buckets
        BY <1>1, <3>1, BeginForms
      <4>. QED
        BY <4>1 DEF TtlInv
    <3>. QED
      BY <1>3, <3>1, ContinueTtl
  <2>2. TtlLeft(frame'[t].hand) /\ TtlFits(frame'[t].update.ttl)
    <3>1. CASE Begin(t)
      BY <1>1, <3>1, BeginTtl
    <3>2. CASE Continue(t)
      <4>1. TtlLeft(ResetBlock) /\ TtlFits(NoUpdate.ttl)
        BY DEF TtlLeft, ResetBlock, TtlFits, NoUpdate
      <4>2. \A s \in victims(t) : TtlLeft(buckets[frame[t].index][s])
        BY <1>1, VictimTypes, LocalTypes DEF TtlInv, BucketTtlLeft
      <4>3. TtlLeft(frame[t].hand) /\ TtlFits(frame[t].update.ttl)
        BY DEF TtlInv
      <4>. QED
        BY <1>1, <3>2, <4>1, <4>2, <4>3, ContinueLocals
    <3>. QED
      BY <1>3, <3>1, <3>2
  <2>3. ASSUME NEW u \in Threads PROVE TtlLeft(frame'[u].hand) /\ TtlFits(frame'[u].update.ttl)
    <3>1. u # t => frame'[u] = frame[u]
      BY <1>1, <1>3, OthersUnchanged
    <3>. QED
      BY <2>2, <3>1 DEF TtlInv
  <2>4. (\A i \in Buckets : BucketTtlLeft(buckets[i]))'
    BY <2>1 DEF BucketTtlLeft
  <2>5. (\A u \in Threads : TtlLeft(frame[u].hand) /\ TtlFits(frame[u].update.ttl))'
    BY <2>3 DEF TtlLeft, TtlFits
  <2>. QED
    BY <1>1, <2>4, <2>5 DEF TtlInv
<1>. QED
  BY <1>2, <1>3 DEF Next

\* No stored block and no block on its way has a TTL of 0, which a scan would take
\* for used up already: "until it reaches 0, when the item is removed"
\* (config.rs:323).  It takes a configured TTL, and TTLs of the callers, that are
\* positive and fit the field, as set_ttl masks the others (data_block.rs:387).
THEOREM TtlsStayPositive ==
  ASSUME TtlEnabled => TtlsFit
  PROVE  Spec => []TtlStaysPositive
<1>1. CASE ~TtlEnabled
  <2>1. TtlStaysPositive
    BY <1>1 DEF TtlStaysPositive
  <2>. QED
    BY <2>1, PTL
<1>2. CASE TtlsFit
  <2>1. Init => TtlInv
    <3> SUFFICES ASSUME Init PROVE TtlInv
      OBVIOUS
    <3>1. StateOK
      BY InitShapes DEF Init, StateOK, LookupLocals
    <3>2. \A i \in Buckets : BucketTtlLeft(buckets[i])
      BY EmptyBucketType DEF Init, BucketTtlLeft, TtlLeft
    <3>3. TtlLeft(NoFrame.hand) /\ TtlFits(NoFrame.update.ttl)
      BY DEF NoFrame, NoUpdate, ResetBlock, TtlLeft, TtlFits
    <3>. QED
      BY <3>1, <3>2, <3>3 DEF Init, TtlInv
  <2>2. TtlInv => TtlStaysPositive
    BY DEF TtlInv, TtlStaysPositive, BucketTtlLeft, TtlLeft, Occupied, occupied, is_empty
  <2>3. TtlInv /\ [Next]_vars => TtlInv'
    BY <1>2, TtlInvStep
  <2>. QED
    BY <2>1, <2>2, <2>3, PTL DEF Spec
<1>. QED
  BY <1>1, <1>2

-----------------------------------------------------------------------------
(* Tokens. *)

\* The two buckets of a pair give the same token, so a kick does not change it
\* (filter.rs, insert and alt_index).
LEMMA TokenOther ==
  ASSUME NEW fp \in Fingerprint, NEW i \in Buckets
  PROVE  token(fp, alt_index(fp, i)) = token(fp, i)
<1>1. alt_index(fp, alt_index(fp, i)) = i
  BY AltIndexInvolution
<1>. QED
  BY <1>1 DEF token, Pair

\* An occupied slot has its token in the filter.
LEMMA StoredToken ==
  ASSUME NEW i \in Buckets, NEW s \in Slots, buckets[i][s].fp # 0
  PROVE  token(buckets[i][s].fp, i) \in Tokens
<1>1. <<i, s>> \in {q \in Buckets \X Slots : occupied(buckets[q[1]][q[2]])}
  BY DEF occupied, is_empty
<1>2. token(buckets[<<i, s>>[1]][<<i, s>>[2]].fp, <<i, s>>[1]) \in StoredTokens
  BY <1>1 DEF StoredTokens
<1>. QED
  BY <1>2 DEF Tokens

\* So has a block on its way from one bucket to another.
LEMMA DisplacedToken ==
  ASSUME NEW t \in Threads, Displaced(t)
  PROVE  token(frame[t].hand.fp, frame[t].index) \in Tokens
BY DEF Tokens, DisplacedTokens

\* These are all the tokens there are.
LEMMA TokenSource ==
  ASSUME NEW x \in Tokens
  PROVE  \/ \E i \in Buckets, s \in Slots :
              buckets[i][s].fp # 0 /\ x = token(buckets[i][s].fp, i)
         \/ \E t \in Threads :
              Displaced(t) /\ x = token(frame[t].hand.fp, frame[t].index)
BY DEF Tokens, StoredTokens, DisplacedTokens, occupied, is_empty

\* After a step, too, an occupied slot has its token in the filter.
LEMMA StoredTokenNext ==
  ASSUME NEW i \in Buckets, NEW s \in Slots, buckets'[i][s].fp # 0
  PROVE  token(buckets'[i][s].fp, i) \in Tokens'
<1>1. <<i, s>> \in {q \in Buckets \X Slots : occupied(buckets[q[1]][q[2]])}'
  BY DEF occupied, is_empty
<1>2. token(buckets'[<<i, s>>[1]][<<i, s>>[2]].fp, <<i, s>>[1]) \in StoredTokens'
  BY <1>1 DEF StoredTokens, token, Pair
<1>. QED
  BY <1>2 DEF Tokens

\* And so has a block on its way.
LEMMA DisplacedTokenNext ==
  ASSUME NEW t \in Threads, Displaced(t)'
  PROVE  token(frame'[t].hand.fp, frame'[t].index) \in Tokens'
BY DEF Tokens, DisplacedTokens, token, Pair

\* What leaves the filter in a step of thread t was in a slot that changes its
\* fingerprint or in the hand of t.
LEMMA LostFrom ==
  ASSUME Shapes, NEW t \in Threads, Begin(t) \/ Continue(t), NEW x \in Tokens \ Tokens'
  PROVE  \/ \E i \in Buckets, s \in Slots :
              /\ buckets[i][s].fp # 0 /\ x = token(buckets[i][s].fp, i)
              /\ buckets'[i][s].fp # buckets[i][s].fp
         \/ Displaced(t) /\ x = token(frame[t].hand.fp, frame[t].index)
<1>1. CASE \E i \in Buckets, s \in Slots :
             buckets[i][s].fp # 0 /\ x = token(buckets[i][s].fp, i)
  BY <1>1, StoredTokenNext
<1>2. CASE \E u \in Threads : Displaced(u) /\ x = token(frame[u].hand.fp, frame[u].index)
  <2>1. PICK u \in Threads : Displaced(u) /\ x = token(frame[u].hand.fp, frame[u].index)
    BY <1>2
  <2>2. CASE u # t
    <3>1. pc'[u] = pc[u] /\ frame'[u] = frame[u]
      BY <2>2, OthersUnchanged
    <3>2. Displaced(u)'
      BY <2>1, <3>1 DEF Displaced, new_item
    <3>. QED
      BY <2>1, <3>1, <3>2, DisplacedTokenNext
  <2>. QED
    BY <2>1, <2>2
<1>. QED
  BY <1>1, <1>2, TokenSource

\* A step that leaves the fingerprints of the slots alone, by a thread that moves
\* no block, loses nothing.
LEMMA NothingLost ==
  ASSUME Shapes, NEW t \in Threads, Begin(t) \/ Continue(t), ~Displaced(t),
         \A i \in Buckets, s \in Slots : buckets'[i][s].fp = buckets[i][s].fp
  PROVE  Tokens \subseteq Tokens'
BY LostFrom

-----------------------------------------------------------------------------
(* What the sections do to the fingerprints of the slots. *)

\* A lookup changes no fingerprint (bucket.rs, contains_and_update).
LEMMA HitKeepsFingerprints ==
  ASSUME Shapes, NEW t \in Threads, NEW i \in Buckets, Hit(t, i)
  PROVE  \A j \in Buckets, s \in Slots : buckets'[j][s].fp = buckets[j][s].fp
<1> DEFINE b == look_up(buckets[i], frame[t].fp, frame[t].update)
<1>1. \A s \in Slots : b[s].fp = buckets[i][s].fp
  BY LookUpType, LocalTypes, BucketOf DEF Hit
<1>2. buckets' = [buckets EXCEPT ![i] = b]
  BY DEF Hit
<1> HIDE DEF b
<1>. QED
  BY <1>1, <1>2 DEF Shapes

\* A removal empties one slot, which has the fingerprint (bucket.rs, remove).
LEMMA ClearEmptiesOne ==
  ASSUME Shapes, NEW t \in Threads, NEW i \in Buckets, Clear(t, i)
  PROVE  \E s \in Slots :
           /\ buckets[i][s].fp = frame[t].fp /\ buckets'[i][s].fp = 0
           /\ \A j \in Buckets, r \in Slots :
                <<j, r>> # <<i, s>> => buckets'[j][r].fp = buckets[j][r].fp
<1> DEFINE b == remove(buckets[i], frame[t].fp)
<1>1. PICK s \in Slots : /\ buckets[i][s].fp = frame[t].fp
                         /\ b = [buckets[i] EXCEPT ![s] = ResetBlock]
  BY RemoveType, BucketOf DEF Clear
<1>2. buckets' = [buckets EXCEPT ![i] = b]
  BY DEF Clear
<1>3. ResetBlock.fp = 0 /\ buckets[i] \in [Slots -> DataBlocks]
  BY DEF ResetBlock, Shapes, BucketStates
<1> HIDE DEF b
<1>. QED
  BY <1>1, <1>2, <1>3 DEF Shapes

\* A scan leaves or empties every slot (bucket.rs, age_lru_counters and
\* age_ttl_counters).
LEMMA ScanEmpties ==
  ASSUME Shapes, NEW t \in Threads, Scan(t)
  PROVE  \A j \in Buckets, s \in Slots : buckets'[j][s].fp \in {buckets[j][s].fp, 0}
<1> DEFINE f    == frame[t]
           i    == position(f.pos)
           used == IF ages_lru(f.api) THEN age_lru_counters(buckets[i]) ELSE buckets[i]
           left == IF ages_ttl(f.api) THEN age_ttl_counters(used) ELSE used
<1>1. i \in Buckets /\ buckets[i] \in BucketStates
  BY IndexTypes, BucketOf
<1>2. used \in BucketStates /\ \A s \in Slots : used[s].fp \in {buckets[i][s].fp, 0}
  BY <1>1, AgeBucketType
<1>3. \A s \in Slots : left[s].fp \in {buckets[i][s].fp, 0}
  BY <1>2, AgeBucketType
<1>4. buckets' = [buckets EXCEPT ![i] = left]
  BY DEF Scan
<1> HIDE DEF left, i
<1>. QED
  BY <1>1, <1>3, <1>4 DEF Shapes

-----------------------------------------------------------------------------
(* One step of a thread. *)

\* How a thread may take a fingerprint out of the filter: it removes it, reports
\* it as evicted, or ages one of its two buckets.
Loses(t, x) ==
  \/ /\ pc[t] \in {"remove_i1", "remove_i2"} /\ pc'[t] = "count_sub"
     /\ x = token(frame[t].fp, frame[t].home)
  \/ /\ pc[t] \in {"kick", "place"} /\ pc'[t] = "idle" /\ ret'[t] = Evicted(x[1])
     /\ x = token(frame[t].hand.fp, frame[t].index)
  \/ pc[t] = "scan" /\ position(frame[t].pos) \in x[2]

\* The beginning of a call loses nothing.
LEMMA BeginKeepsTokens ==
  ASSUME Shapes, NEW t \in Threads, Begin(t)
  PROVE  Tokens \subseteq Tokens'
<1>1. pc[t] = "idle" /\ buckets' = buckets
  BY DEF Begin, CallInsert, CallInsertIfNotPresent, CallContains, CallGetAssociatedData,
         CallRemove, CallScan, ScanPartition, GetItemCount, Call
<1>. QED
  BY <1>1, NothingLost DEF Displaced

\* A lookup loses nothing: it changes no fingerprint (filter.rs, contains,
\* get_associated_data).
LEMMA LookKeepsTokens ==
  ASSUME Shapes, NEW t \in Threads, LookFirst(t) \/ LookSecond(t)
  PROVE  Tokens \subseteq Tokens'
<1>1. ~Displaced(t) /\ Continue(t)
  BY DEF Displaced, LookFirst, LookSecond, Continue
<1>2. \A i \in Buckets, s \in Slots : buckets'[i][s].fp = buckets[i][s].fp
  <2>1. CASE UNCHANGED buckets
    BY <2>1
  <2>. QED
    BY <2>1, HitKeepsFingerprints, LocalTypes DEF LookFirst, LookSecond
<1>. QED
  BY <1>1, <1>2, NothingLost

\* An insertion into a bucket loses nothing: it fills an empty slot or merges
\* into one that has the fingerprint already, and the block that was on its way
\* has arrived (bucket.rs, insert).
LEMMA LandKeepsTokens ==
  ASSUME Shapes, NEW t \in Threads, NEW i \in Buckets, Land(t, i), Continue(t),
         Displaced(t) => i = frame[t].index
  PROVE  Tokens \subseteq Tokens'
<1> DEFINE b   == buckets[i]
           d   == frame[t].hand
           new == insert(b, d)
<1>1. b \in BucketStates /\ d \in DataBlocks /\ inserts(b, d)
  BY LocalTypes, BucketOf DEF Land
<1>2. PICK s \in Slots : /\ b[s].fp \in {0, d.fp} /\ new[s].fp = d.fp
                         /\ \A r \in Slots \ {s} : new[r] = b[r]
  BY <1>1, InsertType
<1>3. buckets' = [buckets EXCEPT ![i] = new]
  BY DEF Land
<1> HIDE DEF new
<1>4. buckets'[i][s].fp = d.fp
  BY <1>2, <1>3 DEF Shapes
<1>5. ASSUME NEW j \in Buckets, NEW r \in Slots, buckets[j][r].fp # 0
      PROVE  buckets'[j][r].fp = buckets[j][r].fp
  BY <1>2, <1>3, <1>5 DEF Shapes
<1>6. Displaced(t) => token(d.fp, frame[t].index) \in Tokens'
  BY <1>4, StoredTokenNext DEF Displaced
<1>. QED
  BY <1>5, <1>6, LostFrom

\* The tries of an insertion before its kicks lose nothing (filter.rs, insert).
LEMMA InsertKeepsTokens ==
  ASSUME Shapes, NEW t \in Threads, InsertFirst(t) \/ InsertSecond(t)
  PROVE  Tokens \subseteq Tokens'
<1>1. ~Displaced(t) /\ Continue(t)
  BY DEF Displaced, InsertFirst, InsertSecond, Continue
<1>2. CASE Land(t, frame[t].home) \/ Land(t, second(t))
  BY <1>1, <1>2, LandKeepsTokens, LocalTypes
<1>3. CASE UNCHANGED buckets
  BY <1>1, <1>3, NothingLost
<1>. QED
  BY <1>2, <1>3 DEF InsertFirst, InsertSecond, Full

\* A kick loses nothing: the victim goes from its slot into the hand of the
\* thread, and the block in hand into that slot.  If there is nothing to kick, the
\* block in hand is reported (filter.rs, insert).
LEMMA KickLoss ==
  ASSUME Shapes, NEW t \in Threads, Kick(t), NEW x \in Tokens \ Tokens'
  PROVE  Loses(t, x)
<1> DEFINE i    == frame[t].index
           hand == frame[t].hand
<1>1. i \in Buckets /\ hand \in DataBlocks /\ Continue(t) /\ pc[t] = "kick"
  BY LocalTypes DEF Kick, Continue
<1>2. CASE UNCHANGED buckets /\ Return(t, Evicted(hand.fp))
  <2>1. x = token(hand.fp, i)
    BY <1>1, <1>2, LostFrom
  <2>2. x[1] = hand.fp /\ pc'[t] = "idle" /\ ret'[t] = Evicted(hand.fp)
    BY <1>2, <2>1 DEF token, Return, Goto, Shapes
  <2>. QED
    BY <1>1, <2>1, <2>2 DEF Loses
<1>3. CASE \E s \in victims(t) :
             LET out == buckets[i][s]
             IN  /\ buckets' = [buckets EXCEPT ![i] = swap(@, s, hand)]
                 /\ frame' = [frame EXCEPT ![t].hand = out,
                                           ![t].index = after_kick(hand, out, i)]
                 /\ Goto(t, "place")
  <2>1. PICK s \in victims(t) :
          /\ buckets' = [buckets EXCEPT ![i] = swap(buckets[i], s, hand)]
          /\ frame' = [frame EXCEPT ![t].hand = buckets[i][s],
                                    ![t].index = after_kick(hand, buckets[i][s], i)]
          /\ Goto(t, "place")
    BY <1>3
  <2> DEFINE out == buckets[i][s]
             new == swap(buckets[i], s, hand)
  <2>2. s \in Slots /\ buckets[i] \in BucketStates /\ out.fp \in Fingerprint
    BY <1>1, VictimTypes, BucketOf, BlockOf
  <2>3. \A r \in Slots : new[r] = IF r = s THEN hand ELSE buckets[i][r]
    BY <1>1, <2>2, SwapType
  <2> HIDE DEF new
  <2>4. /\ buckets'[i] = new
        /\ \A j \in Buckets \ {i} : buckets'[j] = buckets[j]
    BY <1>1, <2>1 DEF Shapes, new
  <2>5. pc'[t] = "place" /\ frame'[t].hand = out /\ frame'[t].index = alt_index(out.fp, i)
    BY <2>1 DEF Goto, Shapes, Frames, after_kick
  <2>6. out.fp # 0 => token(out.fp, i) \in Tokens'
    <3>1. out.fp # 0 => Displaced(t)'
      BY <2>5 DEF Displaced
    <3>2. token(out.fp, alt_index(out.fp, i)) = token(out.fp, i)
      BY <1>1, <2>2, TokenOther
    <3>. QED
      BY <2>5, <3>1, <3>2, DisplacedTokenNext
  <2>7. hand.fp # 0 => token(hand.fp, i) \in Tokens'
    <3>1. buckets'[i][s] = hand
      BY <2>2, <2>3, <2>4
    <3>. QED
      BY <1>1, <2>2, <3>1, StoredTokenNext
  <2>8. ASSUME NEW j \in Buckets, NEW r \in Slots, buckets[j][r].fp # 0,
               buckets'[j][r].fp # buckets[j][r].fp
        PROVE  j = i /\ buckets[j][r] = out
    BY <2>3, <2>4, <2>8
  <2>. QED
    BY <1>1, <2>6, <2>7, <2>8, LostFrom DEF Displaced
<1>. QED
  BY <1>2, <1>3 DEF Kick

\* A displaced block lands, stays in hand for the next kick, or is reported when
\* the kicks are used up (filter.rs, insert).
LEMMA PlaceLoss ==
  ASSUME Shapes, NEW t \in Threads, Place(t), NEW x \in Tokens \ Tokens'
  PROVE  Loses(t, x)
<1> DEFINE i    == frame[t].index
           hand == frame[t].hand
<1>1. i \in Buckets /\ Continue(t) /\ pc[t] = "place" /\ frame[t].kicks \in Nat
  BY LocalTypes, FilterConstants DEF Place, Continue
<1>2. CASE Land(t, i)
  BY <1>1, <1>2, LandKeepsTokens
<1>3. CASE UNCHANGED buckets /\ Return(t, Evicted(hand.fp))
  <2>1. x = token(hand.fp, i)
    BY <1>1, <1>3, LostFrom
  <2>2. x[1] = hand.fp /\ pc'[t] = "idle" /\ ret'[t] = Evicted(hand.fp)
    BY <1>3, <2>1 DEF token, Return, Goto, Shapes
  <2>. QED
    BY <1>1, <2>1, <2>2 DEF Loses
<1>4. CASE /\ UNCHANGED buckets /\ Goto(t, "kick")
           /\ frame' = [frame EXCEPT ![t].kicks = @ + 1]
  <2>1. /\ pc'[t] = "kick" /\ frame'[t].hand = hand /\ frame'[t].index = i
        /\ frame'[t].kicks = frame[t].kicks + 1
    BY <1>4 DEF Goto, Shapes, Frames
  <2>2. Displaced(t) => Displaced(t)'
    BY <1>1, <2>1 DEF Displaced, new_item
  <2>. QED
    BY <1>1, <1>4, <2>1, <2>2, LostFrom, DisplacedTokenNext
<1>. QED
  BY <1>2, <1>3, <1>4 DEF Place, Full

\* A removal takes away the fingerprint of its key, from either bucket of the
\* pair, and nothing else (filter.rs, remove).
LEMMA RemoveLoss ==
  ASSUME Shapes, NEW t \in Threads, RemoveFirst(t) \/ RemoveSecond(t),
         NEW x \in Tokens \ Tokens'
  PROVE  Loses(t, x)
<1>1. ~Displaced(t) /\ Continue(t) /\ pc[t] \in {"remove_i1", "remove_i2"}
  BY DEF Displaced, RemoveFirst, RemoveSecond, Continue
<1>2. ASSUME NEW i \in {frame[t].home, second(t)}, Clear(t, i)
      PROVE  Loses(t, x)
  <2> DEFINE fp == frame[t].fp
  <2>1. i \in Buckets /\ fp \in Fingerprint /\ frame[t].home \in Buckets
    BY LocalTypes
  <2>2. x = token(fp, i)
    BY <1>1, <1>2, <2>1, ClearEmptiesOne, LostFrom
  <2>3. token(fp, i) = token(fp, frame[t].home)
    BY <2>1, TokenOther DEF second
  <2>4. pc'[t] = "count_sub"
    BY <1>2 DEF Clear, Goto, Shapes
  <2>. QED
    BY <1>1, <2>2, <2>3, <2>4 DEF Loses
<1>3. CASE UNCHANGED buckets
  BY <1>1, <1>3, NothingLost
<1>. QED
  BY <1>2, <1>3 DEF RemoveFirst, RemoveSecond

\* A scan takes fingerprints out of the bucket it ages only (filter.rs,
\* scan_and_update_full).
LEMMA ScanLoss ==
  ASSUME Shapes, NEW t \in Threads, Scan(t), NEW x \in Tokens \ Tokens'
  PROVE  Loses(t, x)
<1> DEFINE i == position(frame[t].pos)
<1>1. ~Displaced(t) /\ Continue(t) /\ pc[t] = "scan"
  BY DEF Displaced, Scan, Continue
<1>2. \E b : buckets' = [buckets EXCEPT ![i] = b]
  BY DEF Scan
<1>3. \A j \in Buckets \ {i} : buckets'[j] = buckets[j]
  BY <1>2 DEF Shapes
<1>4. PICK j \in Buckets, s \in Slots :
        x = token(buckets[j][s].fp, j) /\ buckets'[j][s].fp # buckets[j][s].fp
  BY <1>1, LostFrom
<1>5. j = i
  BY <1>3, <1>4
<1>6. i \in x[2]
  BY <1>4, <1>5 DEF token, Pair
<1>. QED
  BY <1>1, <1>6 DEF Loses

\* Whatever a thread does, it takes a fingerprint out of the filter in one of
\* the three ways.
LEMMA ThreadLoss ==
  ASSUME Shapes, NEW t \in Threads, Begin(t) \/ Continue(t), NEW x \in Tokens \ Tokens'
  PROVE  Loses(t, x)
<1>1. CASE Begin(t)
  BY <1>1, BeginKeepsTokens
<1>2. CASE LookFirst(t) \/ LookSecond(t)
  BY <1>2, LookKeepsTokens
<1>3. CASE InsertFirst(t) \/ InsertSecond(t)
  BY <1>3, InsertKeepsTokens
<1>4. CASE Kick(t) \/ Place(t)
  BY <1>4, KickLoss, PlaceLoss
<1>5. CASE CountAdd(t) \/ CountSub(t)
  <2>1. ~Displaced(t) /\ UNCHANGED buckets
    BY <1>5 DEF Displaced, CountAdd, CountSub
  <2>. QED
    BY <2>1, NothingLost
<1>6. CASE RemoveFirst(t) \/ RemoveSecond(t) \/ Scan(t)
  BY <1>6, RemoveLoss, ScanLoss
<1>. QED
  BY <1>1, <1>2, <1>3, <1>4, <1>5, <1>6 DEF Continue

\* No step of any thread loses a fingerprint silently.
LEMMA NoStepLoses ==
  ASSUME StateOK, [Next]_vars, NEW x \in Tokens \ Tokens'
  PROVE  \E t \in Threads : Loses(t, x)
<1>1. CASE Next
  BY <1>1, ThreadLoss DEF Next, StateOK
<1>2. CASE UNCHANGED vars
  <2>1. Tokens' = Tokens
    BY <1>2 DEF vars, Tokens, StoredTokens, DisplacedTokens, Displaced, new_item, token, Pair
  <2>. QED
    BY <2>1
<1>. QED
  BY <1>1, <1>2

\* A fingerprint leaves the filter only when a thread removes it, reports it as
\* evicted, or ages one of its two buckets; the kicks of concurrent insertions
\* never drop or overwrite one (filter.rs, insert, remove, scan_and_update_full).
THEOREM NothingLostSilently == Spec => NoSilentLoss
<1> DEFINE A == \A x \in Tokens \ Tokens' : \E t \in Threads :
                  \/ /\ pc[t] \in {"remove_i1", "remove_i2"} /\ pc'[t] = "count_sub"
                     /\ x = token(frame[t].fp, frame[t].home)
                  \/ /\ pc[t] \in {"kick", "place"} /\ ret'[t] = Evicted(x[1])
                     /\ x = token(frame[t].hand.fp, frame[t].index)
                  \/ pc[t] = "scan" /\ position(frame[t].pos) \in x[2]
<1>1. StateOK /\ [Next]_vars => A
  BY NoStepLoses DEF Loses
<1>2. Spec => [][A]_vars
  <2> HIDE DEF A
  <2>. QED
    BY <1>1, StateCorrect, PTL DEF Spec
<1>. QED
  BY <1>2 DEF NoSilentLoss

-----------------------------------------------------------------------------
(* Counters that wrap. *)

\* A counter that wraps may be reduced before or after an addition (filter.rs, the
\* fetch_add and fetch_sub of item_count).
LEMMA WrapOnce ==
  ASSUME NEW m \in Nat \ {0}, NEW x \in Int, NEW a \in Int
  PROVE  ((x % m) + a) % m = (x + a) % m
<1> DEFINE y == (x % m) + a
           p == x \div m
           q == y \div m
           r == y % m
<1>1. x % m \in Int /\ p \in Int /\ x = m * p + (x % m)
  BY Divided
<1>2. y \in Int
  BY <1>1
<1>3. r \in 0 .. m - 1 /\ q \in Int /\ y = m * q + r
  BY <1>2, Divided
<1>4. x + a = m * p + y
  BY <1>1
<1>5. m * p \in Int /\ m * q \in Int /\ m * p + m * q = m * (p + q) /\ p + q \in Int
  BY <1>1, <1>3
<1> HIDE DEF y, p, q, r
<1>6. x + a = m * (p + q) + r
  BY <1>3, <1>4, <1>5
<1>7. (m * (p + q) + r) % m = r
  BY <1>3, <1>5, RemainderUnique
<1>. QED
  BY <1>6, <1>7 DEF y, r

-----------------------------------------------------------------------------
(* Occupied slots, bucket by bucket. *)

InUse(b) == {s \in Slots : b[s].fp # 0}

\* The slots of a bucket can be counted.
LEMMA InUseFinite ==
  ASSUME NEW b
  PROVE  IsFiniteSet(InUse(b)) /\ Cardinality(InUse(b)) \in Nat
<1>1. IsFiniteSet(Slots)
  BY BucketSizeIsPositive, FS_Interval DEF Slots
<1>2. InUse(b) \in SUBSET Slots
  BY DEF InUse
<1>. QED
  BY <1>1, <1>2, FS_Subset, FS_CardinalityType

\* A filter has a bounded number of slots.
LEMMA PlacesFinite == IsFiniteSet(Buckets \X Slots)
<1>1. IsFiniteSet(MaskBits)
  BY FilterConstants, FS_Interval DEF MaskBits
<1>2. IsFiniteSet(SUBSET MaskBits)
  BY <1>1, FS_SUBSET
<1>3. IsFiniteSet(0 .. BucketSize - 1)
  BY BucketSizeIsPositive, FS_Interval
<1>4. IsFiniteSet(Buckets) /\ IsFiniteSet(Slots)
  BY <1>2, <1>3 DEF Buckets, Slots
<1>. QED
  BY <1>4, FS_Product

\* So the occupied ones can be counted.
LEMMA OccupiedFinite == IsFiniteSet(Occupied) /\ Cardinality(Occupied) \in Nat
<1>1. Occupied \in SUBSET (Buckets \X Slots)
  BY DEF Occupied
<1>2. IsFiniteSet(Occupied)
  BY <1>1, PlacesFinite, FS_Subset
<1>. QED
  BY <1>2, FS_CardinalityType

\* The set {i} \X S has as many members as S.
LEMMA RowSize ==
  ASSUME NEW i, NEW S, IsFiniteSet(S)
  PROVE  IsFiniteSet({i} \X S) /\ Cardinality({i} \X S) = Cardinality(S)
<1>1. IsFiniteSet({i}) /\ Cardinality({i}) = 1
  BY FS_Singleton
<1>2. /\ IsFiniteSet({i} \X S) /\ Cardinality(S) \in Nat
      /\ Cardinality({i} \X S) = Cardinality({i}) * Cardinality(S)
  BY <1>1, FS_Product, FS_CardinalityType
<1>3. Cardinality({i} \X S) = 1 * Cardinality(S)
  BY <1>1, <1>2
<1>. QED
  BY <1>2, <1>3

\* A disjoint union has as many members as its parts together.
LEMMA DisjointSize ==
  ASSUME NEW S, NEW T, IsFiniteSet(S), IsFiniteSet(T), S \cap T = {}
  PROVE  /\ IsFiniteSet(S \cup T)
         /\ Cardinality(S \cup T) = Cardinality(S) + Cardinality(T)
BY FS_Union, FS_EmptySet, FS_CardinalityType

\* A section that changes one bucket changes the number of occupied slots by what
\* it changes there.
LEMMA OccupiedByBucket ==
  ASSUME Shapes, NEW i \in Buckets, NEW b, buckets' = [buckets EXCEPT ![i] = b]
  PROVE  Cardinality(Occupied)'
           = Cardinality(Occupied) + Cardinality(InUse(b)) - Cardinality(InUse(buckets[i]))
<1> DEFINE Rest == {p \in Occupied : p[1] # i}
           Old  == {i} \X InUse(buckets[i])
           New  == {i} \X InUse(b)
<1>1. Occupied = Rest \cup Old /\ Rest \cap Old = {}
  BY DEF Occupied, InUse, occupied, is_empty
<1>2. buckets'[i] = b /\ \A j \in Buckets : j # i => buckets'[j] = buckets[j]
  BY DEF Shapes
<1>3. Occupied' = Rest \cup New /\ Rest \cap New = {}
  BY <1>2 DEF Occupied, InUse, occupied, is_empty
<1>4. IsFiniteSet(Rest) /\ Cardinality(Rest) \in Nat
  BY OccupiedFinite, FS_Subset, FS_CardinalityType
<1>5. /\ IsFiniteSet(Old) /\ Cardinality(Old) = Cardinality(InUse(buckets[i]))
      /\ IsFiniteSet(New) /\ Cardinality(New) = Cardinality(InUse(b))
      /\ Cardinality(Old) \in Nat /\ Cardinality(New) \in Nat
  <2>1. ASSUME NEW c
        PROVE  /\ IsFiniteSet({i} \X InUse(c)) /\ Cardinality({i} \X InUse(c)) \in Nat
               /\ Cardinality({i} \X InUse(c)) = Cardinality(InUse(c))
    <3>1. IsFiniteSet(InUse(c)) /\ Cardinality(InUse(c)) \in Nat
      BY InUseFinite
    <3>. QED
      BY <3>1, RowSize
  <2>. QED
    BY <2>1
<1> HIDE DEF Rest, Old, New
<1>6. Cardinality(Occupied) = Cardinality(Rest) + Cardinality(Old)
  BY <1>1, <1>4, <1>5, DisjointSize
<1>7. Cardinality(Occupied') = Cardinality(Rest) + Cardinality(New)
  BY <1>3, <1>4, <1>5, DisjointSize
<1>. QED
  BY <1>4, <1>5, <1>6, <1>7

\* Swapping a block into a slot counts one if the block is not empty, and takes one
\* off if the slot was not (bucket.rs, kick_random and kick_lru).
LEMMA InUseSwap ==
  ASSUME NEW b, NEW new, NEW s \in Slots, \A r \in Slots \ {s} : new[r].fp = b[r].fp
  PROVE  Cardinality(InUse(new)) = Cardinality(InUse(b)) + (IF new[s].fp # 0 THEN 1 ELSE 0)
                                                         - (IF b[s].fp # 0 THEN 1 ELSE 0)
<1> DEFINE Rest == InUse(b) \ {s}
<1>1. IsFiniteSet(Rest) /\ Cardinality(Rest) \in Nat /\ s \notin Rest
  BY InUseFinite, FS_RemoveElement, FS_CardinalityType
<1>2. /\ InUse(b) = IF b[s].fp # 0 THEN Rest \cup {s} ELSE Rest
      /\ InUse(new) = IF new[s].fp # 0 THEN Rest \cup {s} ELSE Rest
  BY DEF InUse
<1>3. Cardinality(Rest \cup {s}) = Cardinality(Rest) + 1
  BY <1>1, FS_AddElement
<1> HIDE DEF Rest
<1>. QED
  BY <1>1, <1>2, <1>3

\* A step that leaves every fingerprint alone leaves the occupied slots alone.
LEMMA OccupiedSame ==
  ASSUME \A i \in Buckets, s \in Slots : buckets'[i][s].fp = buckets[i][s].fp
  PROVE  Occupied' = Occupied
BY DEF Occupied, occupied, is_empty

\* Aging reports as many blocks as it has emptied slots (bucket.rs,
\* age_lru_counters and age_ttl_counters).
LEMMA ClearedCounts ==
  ASSUME NEW before, NEW after, \A s \in Slots : after[s].fp \in {before[s].fp, 0}
  PROVE  Cardinality(InUse(before)) = Cardinality(InUse(after)) + cleared(before, after)
<1> DEFINE Gone == {s \in Slots : occupied(before[s]) /\ ~occupied(after[s])}
<1>1. InUse(before) = InUse(after) \cup Gone /\ InUse(after) \cap Gone = {}
  BY DEF InUse, occupied, is_empty
<1>2. Gone \in SUBSET InUse(before)
  BY DEF InUse, occupied, is_empty
<1>3. IsFiniteSet(Gone) /\ IsFiniteSet(InUse(after))
  BY <1>2, InUseFinite, FS_Subset
<1>4. cleared(before, after) = Cardinality(Gone)
  BY DEF cleared
<1> HIDE DEF Gone
<1>. QED
  BY <1>1, <1>3, <1>4, DisjointSize

-----------------------------------------------------------------------------
(* What is due. *)

\* Thread t still has to count one.
Adds(t) ==
  \/ pc[t] = "count_add"
  \/ /\ frame[t].hand.fp = 0
     /\ pc[t] = "place" \/ (pc[t] = "kick" /\ ~new_item(t))

ToCount(p) == IF p THEN 1 ELSE 0

\* A step in which the locals and the section of no thread but t change.
Alone(t) == \A u \in Threads \ {t} : pc'[u] = pc[u] /\ frame'[u] = frame[u]

\* The methods of a thread touch the locals of no other (filter.rs).
LEMMA StepsAlone ==
  ASSUME Shapes, NEW t \in Threads, Begin(t) \/ Continue(t)
  PROVE  Alone(t)
BY OthersUnchanged DEF Alone

\* A step of thread t changes the additions that are due by its own.
LEMMA ToAddStep ==
  ASSUME Shapes, IsFiniteSet(Threads), NEW t \in Threads, Alone(t)
  PROVE  /\ Cardinality(ToAdd) \in Nat
         /\ Cardinality(ToAdd)' = Cardinality(ToAdd) + ToCount(Adds(t)') - ToCount(Adds(t))
<1> DEFINE Rest == {u \in Threads \ {t} : Adds(u)}
<1>1. ToAdd = (IF Adds(t) THEN Rest \cup {t} ELSE Rest) /\ t \notin Rest
  BY DEF ToAdd, Adds
<1>2. ToAdd' = IF Adds(t)' THEN Rest \cup {t} ELSE Rest
  <2>1. \A u \in Threads \ {t} : Adds(u)' <=> Adds(u)
    BY DEF Alone, Adds, new_item
  <2>2. ToAdd' = {u \in Threads : Adds(u)'}
    BY DEF ToAdd, Adds
  <2>. QED
    BY <2>1, <2>2
<1>3. IsFiniteSet(Rest) /\ Cardinality(Rest) \in Nat
  BY FS_Subset, FS_CardinalityType
<1>4. IsFiniteSet(Rest \cup {t}) /\ Cardinality(Rest \cup {t}) = Cardinality(Rest) + 1
  BY <1>1, <1>3, FS_AddElement
<1> HIDE DEF Rest
<1>. QED
  BY <1>1, <1>2, <1>3, <1>4 DEF ToCount

\* And the subtractions by what it has removed.
LEMMA ToSubtractStep ==
  ASSUME Shapes, Shapes', IsFiniteSet(Threads), NEW t \in Threads, Alone(t)
  PROVE  /\ Cardinality(ToSubtract) \in Nat /\ IsFiniteSet(ToSubtract)
         /\ Cardinality(ToSubtract)'
              = Cardinality(ToSubtract) + frame'[t].removed - frame[t].removed
<1> DEFINE Row(u) == {u} \X (1 .. frame[u].removed)
           Rest   == {p \in ToSubtract : p[1] # t}
           New    == {t} \X (1 .. frame'[t].removed)
<1>1. \A u \in Threads : frame[u].removed \in Nat
  BY LocalTypes
<1>2. frame'[t].removed \in Nat
  BY DEF Shapes, Frames
<1>3. IsFiniteSet(ToSubtract)
  <2> DEFINE Rows == {Row(u) : u \in Threads}
             f    == [u \in Threads |-> Row(u)]
  <2>1. f \in Surjection(Threads, Rows)
    BY DEF Surjection
  <2>2. IsFiniteSet(Rows)
    BY <2>1, FS_Surjection
  <2>3. \A n \in Nat : IsFiniteSet(1 .. n)
    BY FS_Interval
  <2>4. \A u \in Threads : IsFiniteSet(Row(u))
    BY <1>1, <2>3, RowSize
  <2>5. IsFiniteSet(UNION Rows)
    BY <2>2, <2>4, FS_UNION
  <2>. QED
    BY <2>5 DEF ToSubtract
<1>4. ToSubtract = Rest \cup Row(t) /\ Rest \cap Row(t) = {}
  BY DEF ToSubtract
<1>5. ToSubtract' = Rest \cup New /\ Rest \cap New = {}
  BY DEF Alone, ToSubtract
<1>6. IsFiniteSet(Rest) /\ Cardinality(Rest) \in Nat
  BY <1>3, FS_Subset, FS_CardinalityType
<1>7. \A n \in Nat : IsFiniteSet(1 .. n) /\ Cardinality(1 .. n) = n
  BY FS_Interval
<1>8. /\ IsFiniteSet(Row(t)) /\ Cardinality(Row(t)) = frame[t].removed
      /\ IsFiniteSet(New) /\ Cardinality(New) = frame'[t].removed
  BY <1>1, <1>2, <1>7, RowSize
<1> HIDE DEF Rest, New, Row
<1>9. Cardinality(ToSubtract) = Cardinality(Rest) + frame[t].removed
  BY <1>4, <1>6, <1>8, DisjointSize
<1>10. Cardinality(ToSubtract') = Cardinality(Rest) + frame'[t].removed
  BY <1>5, <1>6, <1>8, DisjointSize
<1>. QED
  BY <1>1, <1>2, <1>3, <1>6, <1>9, <1>10

-----------------------------------------------------------------------------
(* The counter.  Drift is the counter plus the balance of what is due and   *)
(* what is there.                                                           *)

Balance == Cardinality(ToAdd) - Cardinality(ToSubtract) - Cardinality(Occupied)

BalanceType ==
  /\ Cardinality(ToAdd) \in Int /\ Cardinality(ToSubtract) \in Int
  /\ Cardinality(Occupied) \in Int

\* A thread has nothing to subtract before it has removed or scanned, an insertion
\* has a block in hand until it kicks, and a removal looks for a fingerprint.
CountInv(t) ==
  /\ pc[t] \notin {"scan", "count_sub"} => frame[t].removed = 0
  /\ \/ pc[t] \in {"look_i1", "look_i2"} /\ frame[t].api = "insert_if_not_present"
     \/ pc[t] \in {"insert_i1", "insert_i2"}
     \/ pc[t] = "kick" /\ new_item(t)
     => frame[t].hand.fp # 0
  /\ pc[t] \in {"remove_i1", "remove_i2"} => frame[t].fp # 0

\* A step that adds k to the counter, and leaves the balance k lower and e higher,
\* lets the counter drift by e.
LEMMA DriftBy ==
  ASSUME Shapes, BalanceType, BalanceType', NEW k \in Int, NEW e \in Int,
         items' = (items + k) % (UsizeMax + 1), Balance' = Balance - k + e
  PROVE  Drift' = (Drift + e) % (UsizeMax + 1)
<1> DEFINE m == UsizeMax + 1
<1>1. m \in Nat \ {0} /\ items \in Int
  BY FilterConstants DEF Shapes
<1>2. items' \in Int
  BY <1>1
<1>3. Drift = (items + Balance) % m
  <2>1. items + Cardinality(ToAdd) - Cardinality(ToSubtract) - Cardinality(Occupied)
          = items + Balance
    BY <1>1 DEF BalanceType, Balance
  <2>. QED
    BY <2>1 DEF Drift
<1>4. Drift' = (items' + Balance') % m
  <2>1. (items + Cardinality(ToAdd) - Cardinality(ToSubtract) - Cardinality(Occupied))'
          = items' + Balance'
    BY <1>2 DEF BalanceType, Balance
  <2>. QED
    BY <2>1 DEF Drift
<1>5. Balance \in Int
  BY DEF BalanceType, Balance
<1>6. items' = (items + k) % m
  OBVIOUS
<1> HIDE DEF m
<1>7. /\ items + k \in Int /\ items + Balance \in Int /\ Balance - k + e \in Int
      /\ (items + k) + (Balance - k + e) = (items + Balance) + e
  BY <1>1, <1>5
<1>8. (((items + k) % m) + (Balance - k + e)) % m = ((items + k) + (Balance - k + e)) % m
  BY <1>1, <1>7, WrapOnce
<1>9. (((items + Balance) % m) + e) % m = ((items + Balance) + e) % m
  BY <1>1, <1>7, WrapOnce
<1>10. Drift' = (Drift + e) % m
  BY <1>3, <1>4, <1>6, <1>7, <1>8, <1>9
<1>. QED
  BY <1>10 DEF m

\* What a step of thread t does to the balance.
LEMMA BalanceStep ==
  ASSUME Shapes, Shapes', IsFiniteSet(Threads), NEW t \in Threads, Alone(t)
  PROVE  /\ BalanceType /\ BalanceType'
         /\ Balance' = Balance + ToCount(Adds(t)') - ToCount(Adds(t))
                               - (frame'[t].removed - frame[t].removed)
                               - (Cardinality(Occupied)' - Cardinality(Occupied))
<1>1. Cardinality(Occupied) \in Int
  BY OccupiedFinite
<1>2. Cardinality(Occupied)' \in Int
  <2>1. Occupied' \in SUBSET (Buckets \X Slots)
    BY DEF Occupied
  <2>. QED
    BY <2>1, PlacesFinite, FS_Subset, FS_CardinalityType
<1>3. /\ Cardinality(ToAdd) \in Int /\ Cardinality(ToSubtract) \in Int
      /\ ToCount(Adds(t)) \in Int /\ ToCount(Adds(t)') \in Int
      /\ frame[t].removed \in Int /\ frame'[t].removed \in Int
  <2>1. frame'[t].removed \in Nat
    BY DEF Shapes, Frames
  <2>. QED
    BY <2>1, ToAddStep, ToSubtractStep, FS_CardinalityType, LocalTypes DEF ToCount
<1>4. /\ Cardinality(ToAdd)' = Cardinality(ToAdd) + ToCount(Adds(t)') - ToCount(Adds(t))
      /\ Cardinality(ToSubtract)' = Cardinality(ToSubtract) + frame'[t].removed - frame[t].removed
  BY ToAddStep, ToSubtractStep
<1>5. BalanceType /\ BalanceType'
  BY <1>1, <1>2, <1>3, <1>4 DEF BalanceType
<1>. QED
  BY <1>1, <1>2, <1>3, <1>4, <1>5 DEF Balance

\* A thread that has nothing to count and counts nothing leaves the drift as it is.
LEMMA StepDrift ==
  ASSUME Shapes, Shapes', IsFiniteSet(Threads), NEW t \in Threads, Alone(t),
         NEW k \in Int, NEW e \in Int, NEW dA \in Int, NEW dR \in Int, NEW dO \in Int,
         items' = (items + k) % (UsizeMax + 1),
         ToCount(Adds(t)') = ToCount(Adds(t)) + dA,
         frame'[t].removed = frame[t].removed + dR,
         Cardinality(Occupied)' = Cardinality(Occupied) + dO,
         dA - dR - dO = e - k
  PROVE  Drift' = (Drift + e) % (UsizeMax + 1)
<1>1. /\ BalanceType /\ BalanceType'
      /\ Balance' = Balance + ToCount(Adds(t)') - ToCount(Adds(t))
                            - (frame'[t].removed - frame[t].removed)
                            - (Cardinality(Occupied)' - Cardinality(Occupied))
  BY BalanceStep
<1>2. /\ Balance \in Int /\ ToCount(Adds(t)) \in Int /\ frame[t].removed \in Int
      /\ Cardinality(Occupied) \in Int
  BY <1>1, LocalTypes DEF BalanceType, Balance, ToCount
<1>3. Balance' = Balance - k + e
  BY <1>1, <1>2
<1>. QED
  BY <1>1, <1>3, DriftBy

\* A number in range is its own remainder.
LEMMA InRange ==
  ASSUME NEW m \in Nat \ {0}, NEW r \in 0 .. m - 1
  PROVE  r % m = r
<1>1. (m * 0 + r) % m = r
  BY RemainderUnique
<1>2. m * 0 + r = r
  OBVIOUS
<1>. QED
  BY <1>1, <1>2

\* The drift is in range, and so is the counter.
LEMMA DriftRange ==
  ASSUME Shapes, BalanceType
  PROVE  (Drift + 0) % (UsizeMax + 1) = Drift /\ (items + 0) % (UsizeMax + 1) = items
<1> DEFINE m == UsizeMax + 1
<1>1. m \in Nat \ {0} /\ items \in 0 .. m - 1 /\ Drift \in 0 .. m - 1
  BY FilterConstants DEF Shapes, BalanceType, Drift
<1>2. Drift % m = Drift /\ items % m = items
  BY <1>1, InRange
<1>3. Drift + 0 = Drift /\ items + 0 = items
  BY <1>1
<1>. QED
  BY <1>2, <1>3

\* A step that leaves the counter, and the balance, as they are.
LEMMA NoDrift ==
  ASSUME Shapes, Shapes', IsFiniteSet(Threads), NEW t \in Threads, Alone(t),
         NEW dA \in Int, NEW dR \in Int, NEW dO \in Int, UNCHANGED items,
         ToCount(Adds(t)') = ToCount(Adds(t)) + dA,
         frame'[t].removed = frame[t].removed + dR,
         Cardinality(Occupied)' = Cardinality(Occupied) + dO,
         dA - dR - dO = 0
  PROVE  Drift' = Drift
<1>1. (Drift + 0) % (UsizeMax + 1) = Drift /\ (items + 0) % (UsizeMax + 1) = items
  BY DriftRange, BalanceStep
<1>2. dA - dR - dO = 0 - 0
  OBVIOUS
<1>3. Drift' = (Drift + 0) % (UsizeMax + 1)
  BY <1>1, <1>2, StepDrift
<1>. QED
  BY <1>1, <1>3

\* A step with no effect on what the counter stands for.
LEMMA NothingToCount ==
  ASSUME Shapes, Shapes', IsFiniteSet(Threads), NEW t \in Threads, Alone(t),
         UNCHANGED items, Occupied' = Occupied, Adds(t)' <=> Adds(t),
         frame'[t].removed = frame[t].removed
  PROVE  Drift' = Drift
<1>1. ToCount(Adds(t)') = ToCount(Adds(t)) + 0
  BY DEF ToCount
<1>2. frame'[t].removed = frame[t].removed + 0
  BY LocalTypes
<1>3. Cardinality(Occupied)' = Cardinality(Occupied) + 0
  BY OccupiedFinite
<1>4. 0 - 0 - 0 = 0
  OBVIOUS
<1>. QED
  BY <1>1, <1>2, <1>3, <1>4, NoDrift

-----------------------------------------------------------------------------
(* CountInv is inductive. *)

\* A call begins with nothing removed, and one that inserts has a block in hand
\* (filter.rs, public methods).
LEMMA CountInvBegin ==
  ASSUME Shapes, NEW t \in Threads, Begin(t)
  PROVE  CountInv(t)' /\ frame'[t].removed = 0 /\ ~Adds(t)'
<1>1. CASE BeginsInsertion(t)
  <2>1. PICK k \in Keys, values \in InsertArgs :
          /\ \/ frame'[t].api = "insert" /\ pc'[t] = "insert_i1"
             \/ frame'[t].api = "insert_if_not_present" /\ pc'[t] = "look_i1"
          /\ CalledWith(frame'[t], frame'[t].api, k)
          /\ frame'[t].hand = new_data_block(get_fingerprint_and_index(k).fp, values)
    BY <1>1, Zenon DEF BeginsInsertion
  <2>2. frame'[t].hand.fp # 0
    BY <2>1, KeyTypes, NewDataBlockType, ArgumentsAreValues
  <2>3. frame'[t].removed = 0
    BY <2>1 DEF CalledWith
  <2>. QED
    BY <2>1, <2>2, <2>3 DEF CountInv, Adds
<1>2. CASE BeginsKeyed(t)
  BY <1>2, KeyTypes DEF BeginsKeyed, CalledWith, CountInv, Adds
<1>3. CASE BeginsUnkeyed(t)
  BY <1>3 DEF BeginsUnkeyed, CountInv, Adds
<1>. QED
  BY <1>1, <1>2, <1>3, BeginForms

\* And so it goes on.
LEMMA CountInvContinue ==
  ASSUME Shapes, NEW t \in Threads, CountInv(t), Continue(t)
  PROVE  CountInv(t)'
<1>1. CASE pc'[t] \in {"idle", "count_add"}
  BY <1>1, EndsEmpty DEF CountInv, NoFrame
<1>2. CASE pc'[t] \in {"count_sub", "scan"}
  BY <1>2 DEF CountInv
<1>3. CASE GoesToNext(t) \/ StartsToKick(t)
  BY <1>3 DEF GoesToNext, StartsToKick, SameKey, CountInv, new_item
<1>4. CASE TakesOut(t)
  BY <1>4 DEF TakesOut, SameKey, CountInv
<1>5. CASE KicksOn(t)
  <2>1. frame[t].kicks \in Nat
    BY LocalTypes, FilterConstants
  <2>. QED
    BY <1>5, <2>1 DEF KicksOn, SameKey, CountInv, new_item
<1>. QED
  BY <1>1, <1>2, <1>3, <1>4, <1>5, ContinueForms

AllCountInv == StateOK /\ \A t \in Threads : CountInv(t)

\* Whatever the threads do.
LEMMA CountInvStep == AllCountInv /\ [Next]_vars => AllCountInv'
<1> SUFFICES ASSUME AllCountInv, [Next]_vars PROVE AllCountInv'
  OBVIOUS
<1>1. StateOK'
  BY StateOKStep DEF AllCountInv
<1>2. CASE UNCHANGED vars
  <2>1. UNCHANGED <<pc, frame>>
    BY <1>2 DEF vars
  <2>. QED
    BY <1>1, <2>1 DEF AllCountInv, CountInv, new_item
<1>3. ASSUME NEW t \in Threads, Begin(t) \/ Continue(t), NEW u \in Threads
      PROVE  CountInv(u)'
  <2>1. CASE u = t
    BY <1>3, <2>1, CountInvBegin, CountInvContinue DEF AllCountInv, StateOK
  <2>2. CASE u # t
    <3>1. pc'[u] = pc[u] /\ frame'[u] = frame[u]
      BY <1>3, <2>2, OthersUnchanged DEF AllCountInv, StateOK
    <3>. QED
      BY <3>1 DEF AllCountInv, CountInv, new_item
  <2>. QED
    BY <2>1, <2>2
<1>. QED
  BY <1>1, <1>2, <1>3 DEF AllCountInv, Next

-----------------------------------------------------------------------------
(* What each section does to the drift. *)

\* An insertion into a bucket counts what it fills; one that merges counts one
\* that is not there (filter.rs, insert).
LEMMA LandDrift ==
  ASSUME Shapes, Shapes', IsFiniteSet(Threads), NEW t \in Threads, CountInv(t), Continue(t),
         NEW i \in Buckets, Land(t, i), pc[t] \in {"insert_i1", "insert_i2", "place"}
  PROVE  Drift' = Drift \/ (Drift' = wrapping_add(Drift, 1) /\ Merges(t))
<1> DEFINE b   == buckets[i]
           d   == frame[t].hand
           new == insert(b, d)
<1>1. b \in BucketStates /\ d \in DataBlocks /\ inserts(b, d)
  BY LocalTypes, BucketOf DEF Land
<1>2. PICK s \in Slots : /\ b[s].fp \in {0, d.fp} /\ new[s].fp = d.fp
                         /\ \A r \in Slots \ {s} : new[r] = b[r]
  BY <1>1, InsertType
<1>3. buckets' = [buckets EXCEPT ![i] = new] /\ UNCHANGED items /\ pc'[t] = "count_add"
  BY DEF Land, Goto, Shapes
<1>4. frame'[t].removed = frame[t].removed + 0
  <2>1. frame[t].removed = 0 /\ frame'[t].removed = 0
    BY <1>3, EndsEmpty DEF CountInv, NoFrame
  <2>. QED
    BY <2>1
<1>5. Adds(t)' /\ (Adds(t) <=> d.fp = 0)
  BY <1>3 DEF Adds, CountInv
<1> HIDE DEF new
<1>6. /\ Cardinality(InUse(new)) = Cardinality(InUse(b)) + (IF d.fp # 0 THEN 1 ELSE 0)
                                                         - (IF b[s].fp # 0 THEN 1 ELSE 0)
      /\ Cardinality(InUse(b)) \in Int
  <2>1. \A r \in Slots \ {s} : new[r].fp = b[r].fp
    BY <1>2
  <2> HIDE DEF b
  <2>2. Cardinality(InUse(new)) = Cardinality(InUse(b)) + (IF new[s].fp # 0 THEN 1 ELSE 0)
                                                        - (IF b[s].fp # 0 THEN 1 ELSE 0)
    BY <2>1, InUseSwap
  <2>. QED
    BY <1>2, <2>2, InUseFinite
<1>7. Cardinality(Occupied)' = Cardinality(Occupied) + Cardinality(InUse(new))
                                                     - Cardinality(InUse(b))
  BY <1>3, OccupiedByBucket
<1>8. Cardinality(Occupied) \in Int
  BY OccupiedFinite
<1>9. CASE b[s].fp = 0
  <2> DEFINE e == IF d.fp # 0 THEN 1 ELSE 0
  <2>1. Cardinality(Occupied)' = Cardinality(Occupied) + e
    BY <1>6, <1>7, <1>8, <1>9
  <2>2. ToCount(Adds(t)') = ToCount(Adds(t)) + e /\ e - 0 - e = 0 /\ e \in Int
    BY <1>5 DEF ToCount
  <2> HIDE DEF e
  <2>. QED
    BY <1>3, <1>4, <2>1, <2>2, NoDrift, StepsAlone
<1>10. CASE b[s].fp # 0
  <2>1. d.fp # 0 /\ b[s].fp = d.fp
    BY <1>2, <1>10
  <2>2. Cardinality(Occupied)' = Cardinality(Occupied) + 0
    BY <1>6, <1>7, <1>8, <1>10, <2>1
  <2>3. ToCount(Adds(t)') = ToCount(Adds(t)) + 1 /\ 1 - 0 - 0 = 1 - 0
    BY <1>5, <2>1 DEF ToCount
  <2>4. items' = (items + 0) % (UsizeMax + 1)
    BY <1>3, DriftRange, BalanceStep, StepsAlone
  <2>5. Drift' = (Drift + 1) % (UsizeMax + 1)
    BY <1>4, <2>2, <2>3, <2>4, StepDrift, StepsAlone
  <2>6. Occupied' = Occupied
    <3>1. \A j \in Buckets, r \in Slots : buckets'[j][r].fp = buckets[j][r].fp
      BY <1>2, <1>3, <2>1 DEF Shapes
    <3>. QED
      BY <3>1, OccupiedSame
  <2>. QED
    BY <1>3, <2>1, <2>5, <2>6 DEF Merges, wrapping_add
<1>. QED
  BY <1>9, <1>10

\* A kick fills the slot it has emptied, unless it swaps an empty block
\* (filter.rs, insert).
LEMMA TakesOutDrift ==
  ASSUME Shapes, Shapes', IsFiniteSet(Threads), NEW t \in Threads, CountInv(t), Continue(t),
         TakesOut(t), UNCHANGED items
  PROVE  Drift' = Drift
<1> DEFINE i    == frame[t].index
           b    == buckets[i]
           hand == frame[t].hand
<1>1. PICK s \in victims(t) :
        /\ frame'[t].hand = b[s] /\ buckets' = [buckets EXCEPT ![i] = swap(b, s, hand)]
  BY DEF TakesOut
<1>2. i \in Buckets /\ b \in BucketStates /\ hand \in DataBlocks /\ s \in Slots
  BY LocalTypes, BucketOf, VictimTypes
<1> DEFINE new == swap(b, s, hand)
<1>3. new[s] = hand /\ \A r \in Slots \ {s} : new[r] = b[r]
  BY <1>2, SwapType
<1>4. /\ Adds(t)' <=> b[s].fp = 0
      /\ Adds(t) <=> hand.fp = 0
      /\ frame'[t].removed = frame[t].removed
  BY <1>1 DEF Adds, TakesOut, SameKey, CountInv
<1>5. buckets' = [buckets EXCEPT ![i] = new]
  BY <1>1
<1> HIDE DEF new
<1> DEFINE e == (IF hand.fp # 0 THEN 1 ELSE 0) - (IF b[s].fp # 0 THEN 1 ELSE 0)
<1>6. Cardinality(InUse(new)) = Cardinality(InUse(b)) + e /\ Cardinality(InUse(b)) \in Int
  <2>1. s \in Slots /\ \A r \in Slots \ {s} : new[r].fp = b[r].fp
    BY <1>2, <1>3
  <2> HIDE DEF b
  <2>2. Cardinality(InUse(new)) = Cardinality(InUse(b)) + (IF new[s].fp # 0 THEN 1 ELSE 0)
                                                        - (IF b[s].fp # 0 THEN 1 ELSE 0)
    BY <2>1, InUseSwap
  <2>. QED
    BY <1>3, <2>2, InUseFinite
<1>7. Cardinality(Occupied)' = Cardinality(Occupied) + Cardinality(InUse(new))
                                                     - Cardinality(InUse(b))
  BY <1>2, <1>5, OccupiedByBucket
<1>8. e \in Int /\ Cardinality(Occupied) \in Int
  BY OccupiedFinite
<1>9. ToCount(Adds(t)') = ToCount(Adds(t)) + e /\ e - 0 - e = 0
  BY <1>4 DEF ToCount
<1> HIDE DEF e
<1>10. Cardinality(Occupied)' = Cardinality(Occupied) + e
  BY <1>6, <1>7, <1>8
<1>11. frame'[t].removed = frame[t].removed + 0
  BY <1>4, LocalTypes
<1>. QED
  BY <1>8, <1>9, <1>10, <1>11, NoDrift, StepsAlone

\* An insertion that gives up reports the block in hand; if that is empty, it has
\* filled a slot which nobody counts (filter.rs, insert).
LEMMA GiveUpDrift ==
  ASSUME Shapes, Shapes', IsFiniteSet(Threads), NEW t \in Threads, CountInv(t), Continue(t),
         pc[t] \in {"kick", "place"}, Return(t, Evicted(frame[t].hand.fp)),
         UNCHANGED <<buckets, items>>
  PROVE  \/ Drift' = Drift
         \/ Drift' = wrapping_sub(Drift, 1) /\ pc'[t] = "idle" /\ ret'[t] = Evicted(0)
<1>1. pc'[t] = "idle" /\ ret'[t] = Evicted(frame[t].hand.fp)
  BY DEF Return, Goto, Shapes
<1>2. frame'[t].removed = 0 /\ frame[t].removed = 0
  BY <1>1, EndsEmpty DEF CountInv, NoFrame
<1>3. ~Adds(t)' /\ (Adds(t) <=> frame[t].hand.fp = 0)
  BY <1>1 DEF Adds, CountInv
<1>4. Occupied' = Occupied
  BY OccupiedSame
<1>5. CASE frame[t].hand.fp # 0
  BY <1>2, <1>3, <1>4, <1>5, NothingToCount, StepsAlone
<1>6. CASE frame[t].hand.fp = 0
  <2>1. ToCount(Adds(t)') = ToCount(Adds(t)) + -1 /\ -1 - 0 - 0 = -1 - 0 /\ -1 \in Int
    BY <1>3, <1>6 DEF ToCount
  <2>2. frame'[t].removed = frame[t].removed + 0
    BY <1>2
  <2>3. Cardinality(Occupied)' = Cardinality(Occupied) + 0
    BY <1>4, OccupiedFinite
  <2>4. items' = (items + 0) % (UsizeMax + 1)
    BY DriftRange, BalanceStep, StepsAlone
  <2>5. Drift' = (Drift + -1) % (UsizeMax + 1)
    BY <2>1, <2>2, <2>3, <2>4, StepDrift, StepsAlone
  <2>6. Drift + -1 = Drift - 1
    <3>1. Drift \in Int
      BY BalanceStep, StepsAlone, FilterConstants DEF Drift, BalanceType, Shapes
    <3>. QED
      BY <3>1
  <2>. QED
    BY <1>1, <1>6, <2>5, <2>6 DEF wrapping_sub
<1>. QED
  BY <1>5, <1>6

\* A removal empties one slot and has one to subtract (filter.rs, remove).
LEMMA ClearDrift ==
  ASSUME Shapes, Shapes', IsFiniteSet(Threads), NEW t \in Threads, CountInv(t), Continue(t),
         pc[t] \in {"remove_i1", "remove_i2"}, NEW i \in Buckets, Clear(t, i)
  PROVE  Drift' = Drift
<1> DEFINE b == buckets[i]
<1>1. b \in BucketStates
  BY BucketOf
<1>2. PICK s \in Slots : /\ b[s].fp = frame[t].fp
                         /\ remove(b, frame[t].fp) = [b EXCEPT ![s] = ResetBlock]
  <2>1. contains(b, frame[t].fp)
    BY DEF Clear
  <2> HIDE DEF b
  <2>. QED
    BY <1>1, <2>1, RemoveType
<1> DEFINE new == [b EXCEPT ![s] = ResetBlock]
<1>3. /\ buckets' = [buckets EXCEPT ![i] = new] /\ UNCHANGED items /\ pc'[t] = "count_sub"
      /\ frame'[t].removed = 1
  BY <1>2 DEF Clear, Goto, Shapes, NoFrame
<1>4. new[s].fp = 0 /\ \A r \in Slots \ {s} : new[r].fp = b[r].fp
  BY <1>1 DEF BucketStates, ResetBlock
<1> HIDE DEF new
<1>5. Cardinality(InUse(new)) = Cardinality(InUse(b)) + 0 - 1 /\ Cardinality(InUse(b)) \in Int
  <2>1. Cardinality(InUse(new)) = Cardinality(InUse(b)) + (IF new[s].fp # 0 THEN 1 ELSE 0)
                                                        - (IF b[s].fp # 0 THEN 1 ELSE 0)
    BY <1>4, InUseSwap
  <2>. QED
    BY <1>2, <1>4, <2>1, InUseFinite DEF CountInv
<1>6. Cardinality(Occupied)' = Cardinality(Occupied) + Cardinality(InUse(new))
                                                     - Cardinality(InUse(b))
  BY <1>3, OccupiedByBucket
<1>7. Cardinality(Occupied)' = Cardinality(Occupied) + -1
  BY <1>5, <1>6, OccupiedFinite
<1>8. ToCount(Adds(t)') = ToCount(Adds(t)) + 0
  BY <1>3 DEF Adds, ToCount
<1>9. frame'[t].removed = frame[t].removed + 1
  BY <1>3 DEF CountInv
<1>10. 0 - 1 - -1 = 0 /\ -1 \in Int
  OBVIOUS
<1>. QED
  BY <1>3, <1>7, <1>8, <1>9, <1>10, NoDrift, StepsAlone

\* Whether a scan goes on or ends, it has removed the blocks that are gone.
LEMMA ScanRemoves ==
  ASSUME frame \in [Threads -> Frames], NEW t \in Threads, NEW gone, NEW api,
         \/ frame' = [frame EXCEPT ![t].pos = @ + 1, ![t].removed = gone]
         \/ frame' = [frame EXCEPT ![t] = [NoFrame EXCEPT !.api = api, !.removed = gone]]
         \/ gone = 0 /\ frame' = [frame EXCEPT ![t] = NoFrame]
  PROVE  frame'[t].removed = gone
<1>1. CASE frame' = [frame EXCEPT ![t].pos = @ + 1, ![t].removed = gone]
  <2>1. frame'[t] = [frame[t] EXCEPT !.pos = frame[t].pos + 1, !.removed = gone]
    BY <1>1
  <2>. QED
    BY <2>1 DEF Frames
<1>2. CASE frame' = [frame EXCEPT ![t] = [NoFrame EXCEPT !.api = api, !.removed = gone]]
  BY <1>2 DEF NoFrame
<1>3. CASE gone = 0 /\ frame' = [frame EXCEPT ![t] = NoFrame]
  BY <1>3 DEF NoFrame
<1>. QED
  BY <1>1, <1>2, <1>3

\* A scan has as much to subtract as it has emptied (filter.rs,
\* scan_and_update_full).
LEMMA ScanDrift ==
  ASSUME Shapes, Shapes', IsFiniteSet(Threads), NEW t \in Threads, Continue(t), Scan(t)
  PROVE  Drift' = Drift
<1> DEFINE f    == frame[t]
           i    == position(f.pos)
           b    == buckets[i]
           used == IF ages_lru(f.api) THEN age_lru_counters(b) ELSE b
           left == IF ages_ttl(f.api) THEN age_ttl_counters(used) ELSE used
           dO   == 0 - (cleared(b, used) + cleared(used, left))
<1>1. i \in Buckets /\ b \in BucketStates
  BY IndexTypes, BucketOf
<1>2. used \in BucketStates /\ \A s \in Slots : used[s].fp \in {b[s].fp, 0}
  BY <1>1, AgeBucketType
<1>3. \A s \in Slots : left[s].fp \in {used[s].fp, 0}
  BY <1>2, AgeBucketType
<1>4. buckets' = [buckets EXCEPT ![i] = left] /\ UNCHANGED items /\ pc[t] = "scan"
  BY DEF Scan
<1>5. pc'[t] # "count_add" /\ pc'[t] # "place" /\ pc'[t] # "kick"
  BY DEF Scan, Goto, Return, Shapes
<1>6. frame'[t].removed = f.removed + cleared(b, used) + cleared(used, left)
  <2> DEFINE gone == f.removed + cleared(b, used) + cleared(used, left)
  <2>1. \/ frame' = [frame EXCEPT ![t].pos = @ + 1, ![t].removed = gone]
        \/ frame' = [frame EXCEPT ![t] = [NoFrame EXCEPT !.api = f.api, !.removed = gone]]
        \/ gone = 0 /\ frame' = [frame EXCEPT ![t] = NoFrame]
    BY DEF Scan, Return
  <2> HIDE DEF gone
  <2>2. frame'[t].removed = gone
    BY <2>1, ScanRemoves DEF Shapes
  <2>. QED
    BY <2>2 DEF gone
<1>7. cleared(b, used) \in Nat /\ cleared(used, left) \in Nat /\ f.removed \in Nat
  BY ClearedType, LocalTypes
<1>8. /\ Cardinality(InUse(b)) = Cardinality(InUse(used)) + cleared(b, used)
      /\ Cardinality(InUse(used)) = Cardinality(InUse(left)) + cleared(used, left)
  BY <1>2, <1>3, ClearedCounts
<1>9. /\ Cardinality(InUse(b)) \in Nat /\ Cardinality(InUse(used)) \in Nat
      /\ Cardinality(InUse(left)) \in Nat
  BY InUseFinite
<1> HIDE DEF i, b, used, left
<1>10. Cardinality(Occupied)' = Cardinality(Occupied) + Cardinality(InUse(left))
                                                      - Cardinality(InUse(b))
  BY <1>1, <1>4, OccupiedByBucket DEF b
<1>11. /\ Cardinality(Occupied)' = Cardinality(Occupied) + dO /\ dO \in Int
       /\ frame'[t].removed = f.removed + (0 - dO)
       /\ 0 - (0 - dO) - dO = 0 /\ 0 - dO \in Int
  <2> DEFINE c1 == cleared(b, used)
             c2 == cleared(used, left)
  <2>1. c1 \in Nat /\ c2 \in Nat /\ dO = 0 - (c1 + c2) /\ frame'[t].removed = f.removed + c1 + c2
    BY <1>6, <1>7
  <2>2. Cardinality(Occupied)' = Cardinality(Occupied) - (c1 + c2)
    BY <1>7, <1>8, <1>9, <1>10, OccupiedFinite
  <2> HIDE DEF c1, c2, dO
  <2>. QED
    BY <1>7, <2>1, <2>2, OccupiedFinite
<1> HIDE DEF dO
<1>12. ToCount(Adds(t)') = ToCount(Adds(t)) + 0
  BY <1>4, <1>5 DEF Adds, ToCount
<1>. QED
  BY <1>4, <1>11, <1>12, NoDrift, StepsAlone

\* The two accesses to the counter settle what is due (filter.rs, the fetch_add
\* and fetch_sub of item_count).
LEMMA CountDue ==
  ASSUME Shapes, Shapes', IsFiniteSet(Threads), NEW t \in Threads, CountInv(t), Continue(t),
         CountAdd(t) \/ CountSub(t)
  PROVE  Drift' = Drift
<1>1. pc'[t] = "idle" /\ UNCHANGED buckets /\ frame'[t].removed = 0
  <2>1. pc'[t] = "idle" /\ UNCHANGED buckets
    BY DEF CountAdd, CountSub, Return, Goto, Shapes
  <2>. QED
    BY <2>1, EndsEmpty DEF NoFrame
<1>2. Occupied' = Occupied
  BY <1>1, OccupiedSame
<1>3. Cardinality(Occupied)' = Cardinality(Occupied) + 0
  BY <1>2, OccupiedFinite
<1>4. (Drift + 0) % (UsizeMax + 1) = Drift
  BY DriftRange, BalanceStep, StepsAlone
<1>5. ~Adds(t)'
  BY <1>1 DEF Adds
<1>6. CASE CountAdd(t)
  <2>1. items' = (items + 1) % (UsizeMax + 1) /\ pc[t] = "count_add"
    BY <1>6 DEF CountAdd, wrapping_add
  <2>2. ToCount(Adds(t)') = ToCount(Adds(t)) + -1 /\ -1 - 0 - 0 = 0 - 1 /\ -1 \in Int
    BY <1>5, <2>1 DEF Adds, ToCount
  <2>3. frame'[t].removed = frame[t].removed + 0
    BY <1>1, <2>1 DEF CountInv
  <2>4. Drift' = (Drift + 0) % (UsizeMax + 1)
    BY <1>3, <2>1, <2>2, <2>3, StepDrift, StepsAlone
  <2>. QED
    BY <1>4, <2>4
<1>7. CASE CountSub(t)
  <2> DEFINE n == frame[t].removed
  <2>1. n \in Int /\ items \in Int
    BY LocalTypes, FilterConstants DEF Shapes
  <2>2. items' = (items + (0 - n)) % (UsizeMax + 1) /\ pc[t] = "count_sub"
    <3>1. items - n = items + (0 - n)
      BY <2>1
    <3>. QED
      BY <1>7, <3>1 DEF CountSub, wrapping_sub
  <2>3. ToCount(Adds(t)') = ToCount(Adds(t)) + 0
    BY <1>5, <2>2 DEF Adds, ToCount
  <2>4. frame'[t].removed = n + (0 - n) /\ 0 - n \in Int /\ 0 - (0 - n) - 0 = 0 - (0 - n)
    BY <1>1, <2>1
  <2>5. Drift' = (Drift + 0) % (UsizeMax + 1)
    BY <1>3, <2>2, <2>3, <2>4, StepDrift, StepsAlone
  <2>. QED
    BY <1>4, <2>5
<1>. QED
  BY <1>6, <1>7

-----------------------------------------------------------------------------
(* The counter drifts in two ways only. *)

\* The ways in which a step of thread t may move the counter away from the slots.
Drifts(t) ==
  \/ Drift' = Drift
  \/ Drift' = wrapping_add(Drift, 1) /\ Merges(t)
  \/ /\ Drift' = wrapping_sub(Drift, 1)
     /\ pc[t] \in {"kick", "place"} /\ pc'[t] = "idle" /\ ret'[t] = Evicted(0)

\* The beginning of a call moves nothing.
LEMMA BeginDrift ==
  ASSUME Shapes, Shapes', IsFiniteSet(Threads), NEW t \in Threads, CountInv(t), Begin(t)
  PROVE  Drift' = Drift
<1>1. pc[t] = "idle" /\ UNCHANGED <<buckets, items>>
  BY BeginForms
<1>2. ~Adds(t) /\ ~Adds(t)' /\ frame'[t].removed = frame[t].removed
  BY <1>1, CountInvBegin DEF Adds, CountInv
<1>3. Occupied' = Occupied
  BY <1>1, OccupiedSame
<1>. QED
  BY <1>1, <1>2, <1>3, NothingToCount, StepsAlone

\* A section that changes no fingerprint and leaves the counter to the next one,
\* in a method that kicks nothing, moves nothing.
LEMMA QuietDrift ==
  ASSUME Shapes, Shapes', IsFiniteSet(Threads), NEW t \in Threads, CountInv(t), Continue(t),
         UNCHANGED items, pc[t] \notin {"kick", "place", "count_add", "count_sub", "scan"},
         pc'[t] \notin {"place", "count_add", "count_sub", "scan"},
         pc'[t] = "kick" => StartsToKick(t),
         \A i \in Buckets, s \in Slots : buckets'[i][s].fp = buckets[i][s].fp
  PROVE  Drift' = Drift
<1>1. CountInv(t)'
  BY CountInvContinue
<1>2. frame'[t].removed = frame[t].removed
  BY <1>1 DEF CountInv
<1>3. ~Adds(t)
  BY DEF Adds
<1>4. ~Adds(t)'
  <2>1. CASE pc'[t] = "kick"
    BY <2>1 DEF StartsToKick, CountInv, Adds
  <2>. QED
    BY <2>1 DEF Adds
<1>. QED
  BY <1>2, <1>3, <1>4, OccupiedSame, NothingToCount, StepsAlone

\* Whatever section a thread is in.
LEMMA ContinueDrift ==
  ASSUME Shapes, Shapes', IsFiniteSet(Threads), NEW t \in Threads, CountInv(t), Continue(t)
  PROVE  Drifts(t)
<1>1. /\ frame[t].home \in Buckets /\ second(t) \in Buckets /\ frame[t].index \in Buckets
      /\ frame[t].kicks \in Nat
  BY LocalTypes, FilterConstants
<1>2. CASE LookFirst(t) \/ LookSecond(t)
  <2>1. \A i \in Buckets, s \in Slots : buckets'[i][s].fp = buckets[i][s].fp
    <3>1. CASE UNCHANGED buckets
      BY <3>1
    <3>. QED
      BY <1>1, <1>2, <3>1, HitKeepsFingerprints DEF LookFirst, LookSecond
  <2>2. /\ UNCHANGED items /\ pc[t] \in {"look_i1", "look_i2"}
        /\ pc'[t] \in {"idle", "look_i2", "insert_i1"}
    BY <1>2 DEF LookFirst, LookSecond, Hit, Return, Goto, Shapes
  <2>. QED
    BY <2>1, <2>2, QuietDrift DEF Drifts
<1>3. CASE InsertFirst(t) \/ InsertSecond(t)
  <2>1. pc[t] \in {"insert_i1", "insert_i2"}
    BY <1>3 DEF InsertFirst, InsertSecond
  <2>2. CASE Land(t, frame[t].home) \/ Land(t, second(t))
    BY <1>1, <2>1, <2>2, LandDrift DEF Drifts
  <2>3. CASE UNCHANGED <<buckets, items>> /\ pc'[t] \in {"insert_i2", "idle", "kick"}
    <3>1. pc'[t] = "kick" => StartsToKick(t)
      BY <2>1, ContinueForms DEF GoesToNext, TakesOut, KicksOn
    <3>. QED
      BY <2>1, <2>3, <3>1, QuietDrift DEF Drifts
  <2>. QED
    BY <1>3, <2>2, <2>3 DEF InsertFirst, InsertSecond, Full, Return, Goto, Shapes
<1>4. CASE Kick(t)
  <2>1. CASE Return(t, Evicted(frame[t].hand.fp)) /\ UNCHANGED buckets
    BY <1>4, <2>1, GiveUpDrift DEF Kick, Drifts
  <2>2. CASE pc'[t] = "place"
    <3>1. TakesOut(t)
      BY <1>4, <2>2, ContinueForms DEF Kick, GoesToNext, StartsToKick, KicksOn
    <3>. QED
      BY <1>4, <3>1, TakesOutDrift DEF Kick, Drifts
  <2>. QED
    BY <1>4, <2>1, <2>2 DEF Kick, Goto, Shapes
<1>5. CASE Place(t)
  <2>1. pc[t] = "place"
    BY <1>5 DEF Place
  <2>2. CASE Land(t, frame[t].index)
    BY <1>1, <2>1, <2>2, LandDrift DEF Drifts
  <2>3. CASE Return(t, Evicted(frame[t].hand.fp)) /\ UNCHANGED <<buckets, items>>
    BY <2>1, <2>3, GiveUpDrift DEF Drifts
  <2>4. CASE UNCHANGED <<buckets, items>> /\ pc'[t] = "kick"
    <3>1. KicksOn(t)
      BY <2>1, <2>4, ContinueForms DEF GoesToNext, StartsToKick, TakesOut
    <3>2. (Adds(t)' <=> Adds(t)) /\ frame'[t].removed = frame[t].removed
      BY <1>1, <3>1 DEF KicksOn, SameKey, Adds, new_item
    <3>. QED
      BY <2>4, <3>2, OccupiedSame, NothingToCount, StepsAlone DEF Drifts
  <2>. QED
    BY <1>5, <2>2, <2>3, <2>4 DEF Place, Full, Goto, Shapes
<1>6. CASE CountAdd(t) \/ CountSub(t)
  BY <1>6, CountDue DEF Drifts
<1>7. CASE RemoveFirst(t) \/ RemoveSecond(t)
  <2>1. pc[t] \in {"remove_i1", "remove_i2"}
    BY <1>7 DEF RemoveFirst, RemoveSecond
  <2>2. CASE Clear(t, frame[t].home) \/ Clear(t, second(t))
    BY <1>1, <2>1, <2>2, ClearDrift DEF Drifts
  <2>3. CASE UNCHANGED <<buckets, items>> /\ pc'[t] \in {"remove_i2", "idle"}
    BY <2>1, <2>3, QuietDrift DEF Drifts
  <2>. QED
    BY <1>7, <2>2, <2>3 DEF RemoveFirst, RemoveSecond, Return, Goto, Shapes
<1>8. CASE Scan(t)
  BY <1>8, ScanDrift DEF Drifts
<1>. QED
  BY <1>2, <1>3, <1>4, <1>5, <1>6, <1>7, <1>8 DEF Continue

\* No step moves the counter away from the slots but in these ways.
LEMMA NextDrift ==
  ASSUME IsFiniteSet(Threads), AllCountInv, StateOK', [Next]_vars
  PROVE  Drift' = Drift \/ \E t \in Threads : Drifts(t)
<1>1. CASE Next
  <2>1. PICK t \in Threads : Begin(t) \/ Continue(t)
    BY <1>1 DEF Next
  <2>. QED
    BY <2>1, BeginDrift, ContinueDrift DEF AllCountInv, StateOK
<1>2. CASE UNCHANGED vars
  BY <1>2 DEF vars, Drift, ToAdd, ToSubtract, Occupied, new_item
<1>. QED
  BY <1>1, <1>2

\* AllCountInv holds in every state.
LEMMA AlwaysCountInv == Spec => []AllCountInv
<1>1. Init => AllCountInv
  BY InitShapes DEF Init, AllCountInv, StateOK, LookupLocals, CountInv, NoFrame
<1>. QED
  BY <1>1, CountInvStep, PTL DEF Spec

\* Every method keeps the counter in step with the slots, whatever the order in
\* which the threads get to it, but for two cases: an insertion that merges into
\* a stored block still counts one more (filter.rs:411), and one that gives up
\* with an empty block in hand has filled a slot it does not count.
THEOREM CounterDriftsOnlyTwoWays ==
  ASSUME IsFiniteSet(Threads)
  PROVE  Spec => CountDrift
<1> DEFINE A == \/ Drift' = Drift
                \/ Drift' = wrapping_add(Drift, 1) /\ \E t \in Threads : Merges(t)
                \/ /\ Drift' = wrapping_sub(Drift, 1)
                   /\ \E t \in Threads : pc[t] \in {"kick", "place"} /\ ret'[t] = Evicted(0)
<1>1. AllCountInv /\ StateOK' /\ [Next]_vars => A
  BY NextDrift DEF Drifts
<1>2. Spec => [][A]_vars
  <2> HIDE DEF A
  <2>. QED
    BY <1>1, AlwaysCountInv, StateCorrect, PTL DEF Spec
<1>. QED
  BY <1>2 DEF CountDrift
=============================================================================
