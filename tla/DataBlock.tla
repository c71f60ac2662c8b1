------------------------------ MODULE DataBlock ------------------------------
(***************************************************************************)
(* A slot of a bucket (src/src/data_block.rs) and what the operations of   *)
(* the filter do to the fields stored in it.  A block is a record of the   *)
(* values of its fields; how the fields are packed into bytes is left out. *)
(* A field that is not configured has no bits: its mask is 0, its value is *)
(* always 0, and every operation on it below yields 0.                     *)
(***************************************************************************)
EXTENDS Integers

CONSTANTS
  U32Max,            \* u32::MAX, scaled down for TLC
  None,              \* Option::None
  FpMask,            \* value masks of the fields, 2^bits - 1
  LruMask,
  TtlMask,
  CounterMask,
  LruStartingValue,  \* LruConfig
  LruIncrement,
  LruRemoveOnZero,
  LruHalving,        \* LruAgingStrategy: Halving if TRUE, else Decrement(..)
  LruDecrement,
  TtlDefault,        \* TtlConfig::ttl
  ChangeOnInsert,    \* CounterConfig
  ChangeOnLookup

U32 == 0 .. U32Max
I32 == -(U32Max \div 2) - 1 .. U32Max \div 2

ASSUME ConstantsAreU32 ==
  /\ U32Max \in Nat
  /\ FpMask \in U32 \ {0}
  /\ LruMask \in U32 /\ TtlMask \in U32 /\ CounterMask \in U32
  /\ LruStartingValue \in U32 /\ LruIncrement \in U32 /\ LruDecrement \in U32
  /\ TtlDefault \in U32 \ {0}
  /\ ChangeOnInsert \in I32 /\ ChangeOnLookup \in I32
  /\ LruRemoveOnZero \in BOOLEAN /\ LruHalving \in BOOLEAN

ASSUME NoneIsNotANumber == None \notin Int

LruEnabled == LruMask # 0
TtlEnabled == TtlMask # 0

Fingerprint == 0 .. FpMask

DataBlocks == [fp : Fingerprint, lru : 0 .. LruMask,
               ttl : 0 .. TtlMask, counter : 0 .. CounterMask]

\* What a caller may override on insertion and on lookup.
InsertValues == [ttl : U32 \cup {None}, counter : I32 \cup {None}]
LookupValues == [ttl : U32 \cup {None}, counter_diff : I32 \cup {None}]

unwrap_or(option, default) == IF option = None THEN default ELSE option

-----------------------------------------------------------------------------
(* Arithmetic of a field.  Storing masks the value (it keeps the low bits); *)
(* the counters are saturated before they are stored, the TTL is not.       *)

store_bits(mask, value) == value % (mask + 1)

saturating_add(a, b) == IF a + b > U32Max THEN U32Max ELSE a + b

saturating_sub(a, b) == IF a > b THEN a - b ELSE 0

saturating_add_signed(a, by) ==
  IF a + by < 0 THEN 0 ELSE IF a + by > U32Max THEN U32Max ELSE a + by

saturate(mask, value) == IF value > mask THEN mask ELSE value

\* Fingerprint 0 marks an empty slot, so a hash that gives 0 is moved up to 1.
fingerprint_new(hash, mask) ==
  IF hash % (mask + 1) = 0 THEN 1 ELSE hash % (mask + 1)

is_empty(fp) == fp = 0

-----------------------------------------------------------------------------
(* Operations on a block. *)

ResetBlock == [fp |-> 0, lru |-> 0, ttl |-> 0, counter |-> 0]

occupied(d) == ~is_empty(d.fp)

\* Mutant: a counter that passes its maximum wraps around.
update_counter_wrapping(d, by) ==
  [d EXCEPT !.counter = store_bits(CounterMask, saturating_add_signed(@, by))]

update_counter(d, by) ==
  [d EXCEPT !.counter = saturate(CounterMask, saturating_add_signed(@, by))]

set_ttl(d, ttl) == [d EXCEPT !.ttl = store_bits(TtlMask, ttl)]

init_lru_counter(d) ==
  [d EXCEPT !.lru = saturate(LruMask, LruStartingValue)]

inc_lru_counter(d) ==
  [d EXCEPT !.lru = saturate(LruMask, saturating_add(@, LruIncrement))]

new_data_block(fp, defaults) ==
  LET stored  == [ResetBlock EXCEPT !.fp = store_bits(FpMask, fp)]
      timed   == set_ttl(stored, unwrap_or(defaults.ttl, TtlDefault))
      counted == update_counter(timed, unwrap_or(defaults.counter, ChangeOnInsert))
  IN  init_lru_counter(counted)

\* What a lookup does to the block it finds.
touch(d, update) ==
  LET counted == update_counter(d, unwrap_or(update.counter_diff, ChangeOnLookup))
      timed   == IF update.ttl = None THEN counted ELSE set_ttl(counted, update.ttl)
  IN  inc_lru_counter(timed)

merge_associated_from(d, other) ==
  [d EXCEPT !.lru     = saturate(LruMask, saturating_add(@, other.lru)),
            !.ttl     = IF other.ttl > @ THEN other.ttl ELSE @,
            !.counter = saturate(CounterMask, saturating_add(@, other.counter))]

age_value(value) ==
  IF LruHalving THEN value \div 2 ELSE saturating_sub(value, LruDecrement)

age_lru_counter(d) ==
  IF LruRemoveOnZero /\ d.lru = 0
  THEN ResetBlock
  ELSE [d EXCEPT !.lru = store_bits(LruMask, age_value(@))]

\* Mutant: the block goes one scan after its TTL has reached 0.
age_ttl_counter_late(d) ==
  IF d.ttl = 0 THEN ResetBlock ELSE [d EXCEPT !.ttl = saturating_sub(@, 1)]

age_ttl_counter(d) ==
  IF saturating_sub(d.ttl, 1) = 0
  THEN ResetBlock
  ELSE [d EXCEPT !.ttl = saturating_sub(@, 1)]
=============================================================================
