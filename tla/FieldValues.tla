----------------------------- MODULE FieldValues -----------------------------
(***************************************************************************)
(* What the filter expects of a slot (src/src/data_block.rs): four fields, *)
(* each of which keeps the low bits of what is stored in it, whatever is   *)
(* stored in the others.  A number is the set of its 1-bits.               *)
(***************************************************************************)
EXTENDS Integers

CONSTANTS
  Layouts,  \* the configured widths of the fields; 0 if not configured
  Values    \* the numbers that are stored

VARIABLES layout, values

Fields == {"fp", "lru", "ttl", "counter"}

Init ==
  /\ layout \in Layouts
  /\ values = [f \in Fields |-> {}]

Store(f, value) ==
  /\ layout[f] > 0
  /\ values' = [values EXCEPT ![f] = value \cap 0 .. layout[f] - 1]
  /\ UNCHANGED layout

Reset ==
  /\ values' = [f \in Fields |-> {}]
  /\ UNCHANGED layout

Next == Reset \/ \E f \in Fields, value \in Values : Store(f, value)

Spec == Init /\ [][Next]_<<layout, values>>
=============================================================================
