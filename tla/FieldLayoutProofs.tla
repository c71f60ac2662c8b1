--------------------------- MODULE FieldLayoutProofs ---------------------------
(***************************************************************************)
(* The bytes of a slot implement independent fields, for every layout.     *)
(***************************************************************************)
EXTENDS FieldLayout, TLAPS

\* The bits from .. to - 1 of the slot, read as a number.
range(b, from, to) == {v \in 0 .. to - from - 1 : to - 1 - v \in b}

\* The bytes of a field cover its bits (data_block.rs,
\* DataBlockFieldConfiguration::new).
LEMMA ConfigShape ==
  ASSUME NEW from \in Nat, NEW to \in Nat, from < to, to - from <= 32
  PROVE  LET c == field_config(from, to)
         IN  /\ c.start_byte \in Nat /\ c.end_byte \in Nat /\ c.shift \in Nat
             /\ 8 * c.start_byte <= from
             /\ last(c) \in Nat /\ to - 1 <= last(c) /\ last(c) < to + 7
             /\ c.shift = last(c) + 1 - to
             /\ c.mask = c.shift .. last(c) - from
             /\ c.in_value_mask = 0 .. to - from - 1
             /\ window(c) = 8 * c.start_byte .. last(c)
<1> DEFINE s == from \div 8
           e == (to - 1) \div 8
<1>1. s \in Nat /\ 8 * s <= from
  OBVIOUS
<1>2. e \in Nat /\ 8 * e <= to - 1 /\ to - 1 < 8 * (e + 1)
  OBVIOUS
<1> HIDE DEF s, e
<1>3. field_config(from, to) =
        [start_byte |-> s, end_byte |-> e, shift |-> 8 * (e + 1) - to,
         mask |-> (8 * (e + 1) - to) .. (8 * (e + 1) - to) + (to - from) - 1,
         in_value_mask |-> 0 .. (to - from) - 1]
  BY DEF field_config, s, e
<1>4. (8 * (e + 1) - to) + (to - from) - 1 = 8 * (e + 1) - 1 - from
  BY <1>2
<1>. QED
  BY <1>1, <1>2, <1>3, <1>4 DEF last, window

\* Loading gives the bits of the field (data_block.rs, load_bits).
LEMMA LoadIsRange ==
  ASSUME NEW from \in Nat, NEW to \in Nat, from < to, to - from <= 32, NEW b \in SUBSET Nat
  PROVE  load_bits(b, field_config(from, to)) = range(b, from, to)
<1> DEFINE c == field_config(from, to)
<1>1. /\ c.shift \in Nat /\ c.start_byte \in Nat
      /\ 8 * c.start_byte <= from /\ to - 1 <= last(c) /\ last(c) \in Nat
      /\ c.shift = last(c) + 1 - to
      /\ c.mask = c.shift .. last(c) - from
      /\ window(c) = 8 * c.start_byte .. last(c)
  BY ConfigShape
<1> HIDE DEF c
<1>2. ASSUME NEW v \in load_bits(b, c) PROVE v \in range(b, from, to)
  <2>1. PICK n \in b \cap window(c) : last(c) - n \in c.mask /\ v = last(c) - n - c.shift
    BY <1>2 DEF load_bits, loaded_u64
  <2>2. n \in Nat /\ v = to - 1 - n
    BY <1>1, <2>1
  <2>3. to - 1 - v = n
    BY <2>2
  <2>4. c.shift <= last(c) - n /\ last(c) - n <= last(c) - from
    BY <1>1, <2>1, <2>2
  <2>5. v \in 0 .. to - from - 1
    <3>1. c.shift = last(c) + 1 - to /\ last(c) \in Nat
      BY <1>1
    <3>2. n <= to - 1 /\ from <= n
      BY <2>2, <2>4, <3>1
    <3>. QED
      BY <2>2, <3>2
  <2>. QED
    BY <2>1, <2>3, <2>5 DEF range
<1>3. ASSUME NEW v \in range(b, from, to) PROVE v \in load_bits(b, c)
  <2>1. v \in 0 .. to - from - 1 /\ to - 1 - v \in b
    BY <1>3 DEF range
  <2> DEFINE n == to - 1 - v
  <2>2. n \in b \cap window(c)
    BY <1>1, <2>1
  <2>3. last(c) - n \in c.mask /\ v = last(c) - n - c.shift
    BY <1>1, <2>1
  <2>4. v \in U32Bits
    BY <2>1 DEF U32Bits
  <2> HIDE DEF n
  <2>5. last(c) - n \in loaded_u64(b, c) \cap c.mask
    BY <2>2, <2>3 DEF loaded_u64
  <2>. QED
    BY <2>3, <2>4, <2>5 DEF load_bits
<1>. QED
  BY <1>2, <1>3 DEF c

\* Storing writes the bits of the field, and no other (data_block.rs, store_bits).
LEMMA StoreWritesRange ==
  ASSUME NEW from \in Nat, NEW to \in Nat, from < to, to - from <= 32, NEW b \in SUBSET Nat,
         NEW value \in SUBSET Nat
  PROVE  LET after == store_bits(b, field_config(from, to), value)
         IN  /\ after \in SUBSET Nat
             /\ \A n \in Nat : n \in after <=> IF from <= n /\ n < to
                                              THEN to - 1 - n \in value
                                              ELSE n \in b
<1> DEFINE c     == field_config(from, to)
           after == store_bits(b, c, value)
           old   == loaded_u64(b, c) \ c.mask
           new   == {w + c.shift : w \in value \cap c.in_value_mask}
<1>1. /\ c.shift \in Nat /\ c.start_byte \in Nat
      /\ 8 * c.start_byte <= from /\ to - 1 <= last(c) /\ last(c) \in Nat
      /\ c.shift = last(c) + 1 - to
      /\ c.mask = c.shift .. last(c) - from
      /\ c.in_value_mask = 0 .. to - from - 1
      /\ window(c) = 8 * c.start_byte .. last(c)
  BY ConfigShape
<1> HIDE DEF c
<1>2. after = (b \ window(c)) \cup ({last(c) - w : w \in old \cup new} \cap window(c))
  BY DEF store_bits
<1>3. window(c) \subseteq Nat
  BY <1>1
<1>4. ASSUME NEW n \in window(c)
      PROVE  /\ n \in after <=> last(c) - n \in old \cup new
             /\ last(c) - n \in old <=> n \in b /\ ~(from <= n /\ n < to)
             /\ last(c) - n \in new <=> from <= n /\ n < to /\ to - 1 - n \in value
  <2>1. n \in Nat /\ last(c) \in Nat /\ 8 * c.start_byte <= n /\ n <= last(c)
    BY <1>1
  <2>2. \A w \in old \cup new : w \in Int
    BY <1>1 DEF loaded_u64
  <2>3. \A w \in Int : last(c) - w = n <=> w = last(c) - n
    BY <2>1
  <2> HIDE DEF old, new
  <2>4. n \in {last(c) - w : w \in old \cup new} <=> last(c) - n \in old \cup new
    BY <2>2, <2>3
  <2>5. n \in after <=> last(c) - n \in old \cup new
    BY <1>2, <2>4
  <2>6. last(c) - n \in loaded_u64(b, c) <=> n \in b
    BY <1>3, <2>1 DEF loaded_u64
  <2>7. last(c) - n \in c.mask <=> from <= n /\ n < to
    BY <1>1, <2>1
  <2>8. last(c) - n \in old <=> n \in b /\ ~(from <= n /\ n < to)
    BY <2>6, <2>7 DEF old
  <2>9. last(c) - n \in new <=> from <= n /\ n < to /\ to - 1 - n \in value
    <3>1. \A w \in Nat : last(c) - n = w + c.shift <=> w = to - 1 - n
      <4>1. c.shift = last(c) + 1 - to /\ last(c) \in Nat /\ c.shift \in Nat /\ n \in Nat
        BY <1>1, <2>1
      <4>. QED
        BY <4>1
    <3>2. last(c) - n \in new <=> to - 1 - n \in value \cap c.in_value_mask
      BY <1>1, <3>1 DEF new
    <3>. QED
      BY <1>1, <2>1, <3>2
  <2>. QED
    BY <2>5, <2>8, <2>9
<1>5. ASSUME NEW n \in Nat, n \notin window(c)
      PROVE  (n \in after <=> n \in b) /\ ~(from <= n /\ n < to)
  BY <1>1, <1>2, <1>5
<1>6. after \subseteq Nat
  BY <1>2, <1>3
<1> HIDE DEF after, old, new
<1>7. \A n \in Nat : n \in after <=> IF from <= n /\ n < to THEN to - 1 - n \in value
                                                           ELSE n \in b
  <2> TAKE n \in Nat
  <2>1. CASE n \in window(c)
    BY <1>4, <2>1
  <2>2. CASE n \notin window(c)
    BY <1>5, <2>2
  <2>. QED
    BY <2>1, <2>2
<1>. QED
  BY <1>6, <1>7 DEF after, c

-----------------------------------------------------------------------------
(* The layout of build. *)

\* The fields lie one behind the other (config.rs, build).
LEMMA FieldsDisjoint ==
  ASSUME NEW l \in [Fields -> 0 .. 32]
  PROVE  /\ bits(l) \in Nat
         /\ \A f \in Fields : /\ l[f] \in 0 .. 32 /\ start(l, f) \in Nat
                              /\ start(l, f) + l[f] <= bits(l)
         /\ \A f, g \in Fields : f # g => \/ start(l, f) + l[f] <= start(l, g)
                                         \/ start(l, g) + l[g] <= start(l, f)
<1> DEFINE fp      == l["fp"]
           lru     == l["lru"]
           ttl     == l["ttl"]
           counter == l["counter"]
<1>1. fp \in 0 .. 32 /\ lru \in 0 .. 32 /\ ttl \in 0 .. 32 /\ counter \in 0 .. 32
  BY DEF Fields
<1>2. /\ start(l, "fp") = 0
      /\ start(l, "lru") = fp
      /\ start(l, "ttl") = fp + lru
      /\ start(l, "counter") = fp + lru + ttl
      /\ bits(l) = fp + lru + ttl + counter
  BY DEF start, bits
<1>3. /\ l["fp"] = fp /\ l["lru"] = lru
      /\ l["ttl"] = ttl /\ l["counter"] = counter
  OBVIOUS
<1> HIDE DEF fp, lru, ttl, counter
<1>4. bits(l) \in Nat
  BY <1>1, <1>2
<1>5. ASSUME NEW f \in Fields
      PROVE  /\ l[f] \in 0 .. 32 /\ start(l, f) \in Nat
             /\ start(l, f) + l[f] <= bits(l)
  <2>1. CASE f = "fp"
    BY <1>1, <1>2, <1>3, <2>1
  <2>2. CASE f = "lru"
    BY <1>1, <1>2, <1>3, <2>2
  <2>3. CASE f = "ttl"
    BY <1>1, <1>2, <1>3, <2>3
  <2>4. CASE f = "counter"
    BY <1>1, <1>2, <1>3, <2>4
  <2>. QED
    BY <2>1, <2>2, <2>3, <2>4 DEF Fields
<1>6. ASSUME NEW f \in Fields, NEW g \in Fields, f # g
      PROVE  \/ start(l, f) + l[f] <= start(l, g)
             \/ start(l, g) + l[g] <= start(l, f)
  <2>1. CASE f = "fp" \/ g = "fp"
    BY <1>1, <1>2, <1>3, <1>6, <2>1 DEF Fields
  <2>2. CASE f = "counter" \/ g = "counter"
    BY <1>1, <1>2, <1>3, <1>6, <2>2 DEF Fields
  <2>3. CASE (f = "lru" /\ g = "ttl") \/ (f = "ttl" /\ g = "lru")
    BY <1>1, <1>2, <1>3, <2>3
  <2>. QED
    BY <1>6, <2>1, <2>2, <2>3 DEF Fields
<1>. QED
  BY <1>4, <1>5, <1>6

\* The bytes of a field are bytes of the slot (config.rs, data_block_size).
LEMMA WindowInSlot ==
  ASSUME NEW l \in [Fields -> 0 .. 32], NEW f \in Fields, l[f] > 0
  PROVE  window(config(l, f)) \subseteq 0 .. 8 * data_block_size(l) - 1
<1> DEFINE from == start(l, f)
           to   == start(l, f) + l[f]
           c    == field_config(from, to)
<1>1. from \in Nat /\ to \in Nat /\ from < to /\ to - from <= 32
      /\ bits(l) \in Nat /\ to <= bits(l)
  BY FieldsDisjoint
<1> HIDE DEF from, to
<1>2. c.end_byte = (to - 1) \div 8
  BY DEF field_config
<1>3. c.start_byte \in Nat /\ c.end_byte \in Nat
      /\ window(c) = 8 * c.start_byte .. 8 * (c.end_byte + 1) - 1
  BY <1>1, ConfigShape DEF window
<1>4. c.end_byte + 1 <= (bits(l) + 7) \div 8
  BY <1>1, <1>2
<1>5. data_block_size(l) \in Nat /\ c.end_byte + 1 <= data_block_size(l)
  BY <1>1, <1>4 DEF data_block_size
<1> HIDE DEF c
<1>6. window(c) \subseteq 0 .. 8 * data_block_size(l) - 1
  BY <1>3, <1>5
<1>. QED
  BY <1>6 DEF config, c, from, to

\* What storing a value in a field does to the slot.
LEMMA StoreInField ==
  ASSUME NEW l \in [Fields -> 0 .. 32], NEW f \in Fields, l[f] > 0,
         NEW b \in SUBSET Nat, NEW value \in SUBSET Nat
  PROVE  LET after == store_bits(b, config(l, f), value)
             to    == start(l, f) + l[f]
         IN  /\ after \in SUBSET Nat
             /\ \A n \in Nat : n \in after <=> IF start(l, f) <= n /\ n < to
                                              THEN to - 1 - n \in value
                                              ELSE n \in b
<1>1. /\ start(l, f) \in Nat /\ start(l, f) + l[f] \in Nat
      /\ start(l, f) < start(l, f) + l[f] /\ (start(l, f) + l[f]) - start(l, f) <= 32
  BY FieldsDisjoint
<1>. QED
  BY <1>1, StoreWritesRange DEF config

\* Loading a field gives its bits of the slot (data_block.rs, load_bits).
LEMMA LoadFromField ==
  ASSUME NEW l \in [Fields -> 0 .. 32], NEW f \in Fields, l[f] > 0, NEW b \in SUBSET Nat
  PROVE  load_bits(b, config(l, f)) =
           {v \in 0 .. l[f] - 1 : start(l, f) + l[f] - 1 - v \in b}
<1>1. /\ start(l, f) \in Nat /\ start(l, f) + l[f] \in Nat /\ l[f] \in Nat
      /\ start(l, f) < start(l, f) + l[f] /\ (start(l, f) + l[f]) - start(l, f) <= 32
      /\ (start(l, f) + l[f]) - start(l, f) - 1 = l[f] - 1
  BY FieldsDisjoint
<1>2. load_bits(b, config(l, f)) = range(b, start(l, f), start(l, f) + l[f])
  BY <1>1, LoadIsRange DEF config
<1>. QED
  BY <1>1, <1>2 DEF range

\* A store changes its own field, to the low bits of the value
\* (data_block.rs, store_bits and load_bits).
LEMMA LoadAfterStore ==
  ASSUME NEW l \in [Fields -> 0 .. 32], NEW f \in Fields, l[f] > 0,
         NEW b \in SUBSET Nat, NEW value \in SUBSET Nat
  PROVE  load_bits(store_bits(b, config(l, f), value), config(l, f)) = value \cap 0 .. l[f] - 1
<1> DEFINE after == store_bits(b, config(l, f), value)
           to    == start(l, f) + l[f]
<1>1. /\ after \in SUBSET Nat
      /\ \A n \in Nat : n \in after <=> IF start(l, f) <= n /\ n < to
                                       THEN to - 1 - n \in value
                                       ELSE n \in b
  BY StoreInField
<1>2. start(l, f) \in Nat /\ l[f] \in Nat
  BY FieldsDisjoint
<1> HIDE DEF after
<1>3. after \in SUBSET Nat
  BY <1>1
<1>4. load_bits(after, config(l, f)) =
        {v \in 0 .. l[f] - 1 : start(l, f) + l[f] - 1 - v \in after}
  BY <1>3, LoadFromField
<1>5. ASSUME NEW v \in 0 .. l[f] - 1
      PROVE  start(l, f) + l[f] - 1 - v \in after <=> v \in value
  <2> DEFINE n == start(l, f) + l[f] - 1 - v
  <2>1. n \in Nat /\ start(l, f) <= n /\ n < to /\ to - 1 - n = v
    BY <1>2
  <2> HIDE DEF n
  <2>2. n \in after <=> v \in value
    BY <1>1, <2>1
  <2>. QED
    BY <2>2 DEF n
<1>6. {v \in 0 .. l[f] - 1 : start(l, f) + l[f] - 1 - v \in after}
        = {v \in 0 .. l[f] - 1 : v \in value}
  BY <1>5, Zenon
<1>7. {v \in 0 .. l[f] - 1 : v \in value} = value \cap 0 .. l[f] - 1
  OBVIOUS
<1>. QED
  BY <1>4, <1>6, <1>7 DEF after

\* And it leaves the other fields alone.
LEMMA LoadOther ==
  ASSUME NEW l \in [Fields -> 0 .. 32], NEW f \in Fields, l[f] > 0,
         NEW g \in Fields, g # f, l[g] > 0, NEW b \in SUBSET Nat, NEW value \in SUBSET Nat
  PROVE  load_bits(store_bits(b, config(l, f), value), config(l, g)) = load_bits(b, config(l, g))
<1> DEFINE after == store_bits(b, config(l, f), value)
           to    == start(l, f) + l[f]
<1>1. /\ after \in SUBSET Nat
      /\ \A n \in Nat : n \in after <=> IF start(l, f) <= n /\ n < to
                                       THEN to - 1 - n \in value
                                       ELSE n \in b
  BY StoreInField
<1>2. /\ start(l, f) \in Nat /\ l[f] \in Nat /\ start(l, g) \in Nat /\ l[g] \in Nat
      /\ to <= start(l, g) \/ start(l, g) + l[g] <= start(l, f)
  BY FieldsDisjoint
<1> HIDE DEF after
<1>3. /\ load_bits(after, config(l, g)) =
           {v \in 0 .. l[g] - 1 : start(l, g) + l[g] - 1 - v \in after}
      /\ load_bits(b, config(l, g)) =
           {v \in 0 .. l[g] - 1 : start(l, g) + l[g] - 1 - v \in b}
  BY <1>1, LoadFromField
<1>4. ASSUME NEW v \in 0 .. l[g] - 1
      PROVE  start(l, g) + l[g] - 1 - v \in after <=> start(l, g) + l[g] - 1 - v \in b
  <2> DEFINE n == start(l, g) + l[g] - 1 - v
  <2>1. n \in Nat /\ ~(start(l, f) <= n /\ n < to)
    BY <1>2
  <2> HIDE DEF n
  <2>2. n \in after <=> n \in b
    BY <1>1, <2>1
  <2>. QED
    BY <2>2 DEF n
<1>5. load_bits(after, config(l, g)) = load_bits(b, config(l, g))
  BY <1>3, <1>4
<1>. QED
  BY <1>5 DEF after

-----------------------------------------------------------------------------
(* Theorems. *)

\* No slice of the bytes of a slot is out of range, and the padding stays 0
\* (config.rs build, data_block.rs store_bits).
THEOREM AlwaysInsideSlot == Spec => []InsideSlot
<1>1. \A l \in Layouts : l \in [Fields -> 0 .. 32]
  BY LayoutsAreBitCounts
<1>2. Init => InsideSlot
  BY <1>1, WindowInSlot DEF Init, InsideSlot
<1>3. InsideSlot /\ [Next]_vars => InsideSlot'
  <2> SUFFICES ASSUME InsideSlot, [Next]_vars PROVE InsideSlot'
    OBVIOUS
  <2>1. layout \in [Fields -> 0 .. 32] /\ bits(layout) \in Nat
    BY <1>1, FieldsDisjoint DEF InsideSlot
  <2>2. layout' = layout
    BY DEF Next, Store, Reset, vars
  <2>3. block' \subseteq 0 .. bits(layout) - 1
    <3>1. ASSUME NEW f \in Fields, NEW value \in Values, Store(f, value)
          PROVE  block' \subseteq 0 .. bits(layout) - 1
      <4>1. value \in SUBSET Nat
        BY ValuesAreU32 DEF U32Bits
      <4>2. block \in SUBSET Nat
        BY DEF InsideSlot
      <4>3. /\ block' \in SUBSET Nat
            /\ \A n \in block' :
                 \/ start(layout, f) <= n /\ n < start(layout, f) + layout[f]
                 \/ n \in block
        BY <2>1, <3>1, <4>1, <4>2, StoreInField DEF Store
      <4>4. /\ layout[f] \in Nat /\ start(layout, f) \in Nat
            /\ start(layout, f) + layout[f] <= bits(layout)
        BY <2>1, FieldsDisjoint
      <4>5. ASSUME NEW n \in block' PROVE n \in 0 .. bits(layout) - 1
        <5>1. n \in Nat
          BY <4>3
        <5>2. CASE n \in block
          BY <5>2 DEF InsideSlot
        <5>3. CASE n < start(layout, f) + layout[f]
          BY <2>1, <4>4, <5>1, <5>3
        <5>. QED
          BY <4>3, <5>2, <5>3
      <4>. QED
        BY <4>5
    <3>2. CASE Reset \/ UNCHANGED vars
      BY <3>2 DEF Reset, vars, InsideSlot
    <3>. QED
      BY <3>1, <3>2 DEF Next
  <2>. QED
    BY <2>2, <2>3 DEF InsideSlot
<1>. QED
  BY <1>2, <1>3, PTL DEF Spec

\* The bytes implement four independent fields, for every layout and every value:
\* storing one field never damages a neighbour (data_block.rs, load_bits and
\* store_bits).
THEOREM BytesImplementFields == Spec => FieldsAreIndependent
<1> DEFINE values == [f \in Fields |-> field(f)]
<1>1. Init => Slot!Init
  <2> SUFFICES ASSUME Init PROVE Slot!Init
    OBVIOUS
  <2>1. layout \in Layouts /\ layout \in [Fields -> 0 .. 32] /\ block = {}
    BY LayoutsAreBitCounts DEF Init
  <2>2. \A f \in Fields : field(f) = {}
    BY <2>1, LoadFromField DEF field
  <2>. QED
    BY <2>1, <2>2 DEF Slot!Init, Slot!Fields, Fields
<1>2. InsideSlot /\ [Next]_vars => [Slot!Next]_<<layout, values>>
  <2> SUFFICES ASSUME InsideSlot, [Next]_vars PROVE [Slot!Next]_<<layout, values>>
    OBVIOUS
  <2>1. layout \in [Fields -> 0 .. 32] /\ block \in SUBSET Nat
    BY LayoutsAreBitCounts DEF InsideSlot
  <2>2. ASSUME NEW f \in Fields, NEW value \in Values, Store(f, value)
        PROVE  Slot!Store(f, value)
    <3>1. layout[f] > 0 /\ layout' = layout /\ block' = store_bits(block, config(layout, f), value)
      BY <2>2 DEF Store
    <3>2. value \in SUBSET Nat
      BY ValuesAreU32 DEF U32Bits
    <3>3. field(f)' = value \cap 0 .. layout[f] - 1
      BY <2>1, <3>1, <3>2, LoadAfterStore DEF field
    <3>4. ASSUME NEW g \in Fields, g # f PROVE field(g)' = field(g)
      <4>1. layout[g] \in 0 .. 32
        BY <2>1
      <4>2. layout[g] > 0 =>
              load_bits(block', config(layout, g)) = load_bits(block, config(layout, g))
        BY <2>1, <3>1, <3>2, <3>4, LoadOther
      <4>. QED
        BY <3>1, <4>1, <4>2 DEF field
    <3>5. values' = [values EXCEPT ![f] = value \cap 0 .. layout[f] - 1]
      BY <3>3, <3>4
    <3>. QED
      BY <3>1, <3>5 DEF Slot!Store, Slot!Fields, Fields
  <2>3. CASE Reset
    <3>1. layout' = layout /\ block' = {}
      BY <2>3 DEF Reset
    <3>2. \A f \in Fields : field(f)' = {}
      BY <2>1, <3>1, LoadFromField DEF field
    <3>. QED
      BY <3>1, <3>2 DEF Slot!Next, Slot!Reset, Slot!Fields, Fields
  <2>4. CASE UNCHANGED vars
    BY <2>4 DEF vars, field
  <2>. QED
    BY <2>2, <2>3, <2>4 DEF Next, Slot!Next, Slot!Fields, Fields
<1>. QED
  BY <1>1, <1>2, AlwaysInsideSlot, PTL DEF Spec, FieldsAreIndependent, Slot!Spec
=============================================================================
