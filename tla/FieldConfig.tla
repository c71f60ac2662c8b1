----------------------------- MODULE FieldConfig -----------------------------
(***************************************************************************)
(* Where build() puts the fields of a slot (src/src/config.rs), and the    *)
(* configuration of a field (src/src/data_block.rs).  l gives each field   *)
(* its width in bits, 0 if it is not configured; the fields follow one     *)
(* another in the order below.  A mask is the set of its 1-bits.           *)
(***************************************************************************)
EXTENDS Integers

Fields == {"fp", "lru", "ttl", "counter"}

U32Bits == 0 .. 31

start(l, f) ==
  CASE f = "fp"      -> 0
    [] f = "lru"     -> l["fp"]
    [] f = "ttl"     -> l["fp"] + l["lru"]
    [] f = "counter" -> l["fp"] + l["lru"] + l["ttl"]

bits(l) == l["fp"] + l["lru"] + l["ttl"] + l["counter"]

\* Mutant: the size is rounded down.
data_block_size_down(l) == bits(l) \div 8

data_block_size(l) == (bits(l) + 7) \div 8

\* Mutant: the mask is a u32.
field_config_narrow(from, to) ==
  LET start_byte == from \div 8
      end_byte   == (to - 1) \div 8
      shift      == 8 * (end_byte + 1) - to
  IN  [start_byte |-> start_byte, end_byte |-> end_byte, shift |-> shift,
       mask |-> (shift .. shift + (to - from) - 1) \cap U32Bits,
       in_value_mask |-> 0 .. (to - from) - 1]

\* DataBlockFieldConfiguration::new(from..to)
field_config(from, to) ==
  LET start_byte == from \div 8
      end_byte   == (to - 1) \div 8
      shift      == 8 * (end_byte + 1) - to
  IN  [start_byte |-> start_byte, end_byte |-> end_byte, shift |-> shift,
       mask |-> shift .. shift + (to - from) - 1,
       in_value_mask |-> 0 .. (to - from) - 1]

config(l, f) == field_config(start(l, f), start(l, f) + l[f])
=============================================================================
