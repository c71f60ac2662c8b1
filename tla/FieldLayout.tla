----------------------------- MODULE FieldLayout -----------------------------
(***************************************************************************)
(* The bytes of a slot (src/src/data_block.rs).  A number is the set of    *)
(* its 1-bits.  The slot is the set of its 1-bits too, numbered from the   *)
(* highest bit of the first byte: in the big-endian number made of the     *)
(* bytes up to and including byte e, bit n of the slot is the bit of       *)
(* weight 8 * (e + 1) - 1 - n.                                             *)
(***************************************************************************)
EXTENDS FieldConfig

CONSTANTS
  Layouts,  \* the configured widths of the fields; 0 if not configured
  Values    \* the numbers that are stored

VARIABLES layout, block

vars == <<layout, block>>

ASSUME LayoutsAreBitCounts ==
  \A l \in Layouts : l \in [Fields -> 0 .. 32] /\ l["fp"] > 0

ASSUME ValuesAreU32 == Values \subseteq SUBSET U32Bits

-----------------------------------------------------------------------------
(* Bit fields. *)

\* The bits of the bytes that field c touches.
window(c) == 8 * c.start_byte .. 8 * (c.end_byte + 1) - 1

last(c) == 8 * (c.end_byte + 1) - 1

\* The bytes of field c as a big-endian u64.
loaded_u64(b, c) == {last(c) - n : n \in b \cap window(c)}

load_bits(b, c) == {w - c.shift : w \in loaded_u64(b, c) \cap c.mask} \cap U32Bits

store_bits(b, c, value) ==
  LET masked_new_value == value \cap c.in_value_mask
      masked_old_value == loaded_u64(b, c) \ c.mask
      final_value      == masked_old_value \cup {w + c.shift : w \in masked_new_value}
  IN  (b \ window(c)) \cup ({last(c) - w : w \in final_value} \cap window(c))

-----------------------------------------------------------------------------
Init ==
  /\ layout \in Layouts
  /\ block = {}

Store(f, value) ==
  /\ layout[f] > 0
  /\ block' = store_bits(block, config(layout, f), value)
  /\ UNCHANGED layout

\* reset fills all bytes with 0.
Reset ==
  /\ block' = {}
  /\ UNCHANGED layout

Next == Reset \/ \E f \in Fields, value \in Values : Store(f, value)

Spec == Init /\ [][Next]_vars

-----------------------------------------------------------------------------
(* Properties. *)

\* The bytes that a field is loaded from and stored to are bytes of the slot, so
\* that no slice is out of range, and the padding behind the last field stays 0
\* (config.rs build, data_block.rs store_bits).
InsideSlot ==
  /\ layout \in Layouts
  /\ block \subseteq 0 .. bits(layout) - 1
  /\ \A f \in Fields :
       layout[f] > 0 => window(config(layout, f)) \subseteq 0 .. 8 * data_block_size(layout) - 1

field(f) == IF layout[f] = 0 THEN {} ELSE load_bits(block, config(layout, f))

Slot == INSTANCE FieldValues WITH values <- [f \in Fields |-> field(f)]

\* The bytes implement independent fields: a store changes what is loaded from
\* its field to the low bits of the value, and leaves the other fields alone,
\* wherever in a byte they start and however many bytes they span
\* (data_block.rs, load_bits and store_bits).
FieldsAreIndependent == Slot!Spec
=============================================================================
