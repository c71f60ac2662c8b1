---------------------------- MODULE CuckooConfig ----------------------------
(***************************************************************************)
(* The configuration (src/src/config.rs): what the builder asks for, what  *)
(* build() makes of it or why it refuses, and which configurations may     *)
(* read the buckets of which.                                              *)
(***************************************************************************)
EXTENDS FieldConfig

CONSTANTS
  UsizeMax,        \* usize::MAX, scaled down
  U32Max,          \* u32::MAX, scaled down, of buckets_mask
  None,
  FilterOverhead,  \* size_of the filter, its counter and its Vec
  BucketOverhead   \* size_of a Mutex<Bucket>

ASSUME ConfigConstants ==
  /\ UsizeMax \in Nat /\ U32Max \in Nat /\ U32Max <= UsizeMax
  /\ FilterOverhead \in Nat /\ BucketOverhead \in Nat
  /\ None \notin Int

BitCount == 1 .. 32

\* The configurations of fields (DataBlockFieldConfiguration).
FieldConfigs ==
  [start_byte : Int, end_byte : Int, shift : Int, mask : SUBSET Int, in_value_mask : SUBSET Int]

LruAgingStrategies == [decrement : Nat \cup {None}]   \* None for Halving

Halving == [decrement |-> None]

LruConfigs ==
  [counter_bits : BitCount, remove_on_zero : BOOLEAN, aging_strategy : LruAgingStrategies,
   starting_value : Nat, increment : Nat]

TtlConfigs == [ttl : Nat \ {0}, ttl_bits : BitCount]

CounterConfigs == [counter_bits : BitCount, change_on_insert : Int, change_on_lookup : Int]

\* The builder; a field that is not enabled is None.
ConfigurationBuilders ==
  [fingerprint_bits : BitCount, bucket_size : 1 .. UsizeMax,
   max_entries : 0 .. UsizeMax, max_kicks : 0 .. UsizeMax,
   lru : LruConfigs \cup {None}, ttl : TtlConfigs \cup {None},
   counter : CounterConfigs \cup {None}]

ASSUME NoneIsNoValue ==
  /\ None \notin LruConfigs /\ None \notin TtlConfigs /\ None \notin CounterConfigs
  /\ None \notin FieldConfigs

-----------------------------------------------------------------------------
(* build() *)

widths(b) ==
  [f \in Fields |->
     CASE f = "fp"      -> b.fingerprint_bits
       [] f = "lru"     -> IF b.lru = None THEN 0 ELSE b.lru.counter_bits
       [] f = "ttl"     -> IF b.ttl = None THEN 0 ELSE b.ttl.ttl_bits
       [] f = "counter" -> IF b.counter = None THEN 0 ELSE b.counter.counter_bits]

field_configs(l) == [f \in Fields |-> IF l[f] = 0 THEN None ELSE config(l, f)]

\* Mutant: the buckets that fill up are counted, not those that are begun.
required_bucket_count_down(b) == b.max_entries \div b.bucket_size

required_bucket_count(b) == (b.max_entries + b.bucket_size - 1) \div b.bucket_size

\* Mutant: a power of two is not its own next one.
next_power_of_two_above(n) ==
  LET k == CHOOSE k \in 0 .. 64 : n < 2 ^ k /\ \A j \in 0 .. k - 1 : 2 ^ j <= n IN 2 ^ k

\* No power of two is larger than 2^64, whatever usize is.
next_power_of_two(n) ==
  LET k == CHOOSE k \in 0 .. 64 : n <= 2 ^ k /\ \A j \in 0 .. k - 1 : 2 ^ j < n IN 2 ^ k

Err(e) == [error |-> e]

Ok(c) == [value |-> c]

is_ok(result) == "value" \in DOMAIN result

build(b) ==
  LET l            == widths(b)
      bucket_count == next_power_of_two(required_bucket_count(b))
      byte_size    == b.bucket_size * data_block_size(l)
  IN  IF bucket_count > UsizeMax THEN Err("BucketCountTooBig")
      ELSE IF byte_size > UsizeMax THEN Err("BucketTooBig")
      ELSE Ok([bucket_size |-> b.bucket_size, max_kicks |-> b.max_kicks,
               fields |-> field_configs(l),
               lru |-> b.lru, ttl |-> b.ttl, counter |-> b.counter,
               data_block_size |-> data_block_size(l), bucket_byte_size |-> byte_size,
               bucket_count |-> bucket_count,
               buckets_mask |-> (bucket_count - 1) % (U32Max + 1)])

-----------------------------------------------------------------------------
\* Mutant: the fields are compared by their bytes.
field_compatible_bytes(c, d) ==
  \/ c = None /\ d = None
  \/ /\ c # None /\ d # None
     /\ c.start_byte = d.start_byte /\ c.end_byte = d.end_byte

field_compatible(c, d) == c = d

compatible_layout(c, d) ==
  /\ c.bucket_size = d.bucket_size
  /\ c.bucket_count = d.bucket_count
  /\ c.buckets_mask = d.buckets_mask
  /\ c.bucket_byte_size = d.bucket_byte_size
  /\ c.data_block_size = d.data_block_size
  /\ \A f \in Fields : field_compatible(c.fields[f], d.fields[f])

\* get_expected_memory_usage, before it is cut to a usize.
bytes_of_filter(c) ==
  FilterOverhead + BucketOverhead * c.bucket_count + c.bucket_byte_size * c.bucket_count
=============================================================================
