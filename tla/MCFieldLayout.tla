---------------------------- MODULE MCFieldLayout ----------------------------
(***************************************************************************)
(* Layouts with fields that start and end on and off byte boundaries, the  *)
(* widest field, also where it spans five bytes, and absent fields;        *)
(* numbers with all bits set, none, or every other one.                    *)
(***************************************************************************)
EXTENDS FieldLayout

SomeLayouts == {l \in [Fields -> {0, 3, 7, 8, 32}] :
                  l["fp"] \in {7, 8} /\ \A f \in Fields \ {"fp"} : l[f] \in {0, 3, 32}}

SomeValues == {{}, U32Bits, {n \in U32Bits : n % 2 = 0}}
=============================================================================
