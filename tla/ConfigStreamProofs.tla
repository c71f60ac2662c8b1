------------------------- MODULE ConfigStreamProofs -------------------------
(***************************************************************************)
(* Theorems about the configuration and its export, for any builders, any  *)
(* versions of the crate and any place at which the stream is cut.         *)
(***************************************************************************)
EXTENDS ConfigStream, SequenceTheorems, Arithmetic

-----------------------------------------------------------------------------
(* How many buckets there are. *)

\* A usize has at most 64 bits (config.rs, checked_next_power_of_two).
UsizeFits == UsizeMax < 2 ^ 64

\* Powers of two are ordered as their exponents are.
LEMMA PowersGrow ==
  ASSUME NEW k \in Nat
  PROVE  \A m \in Nat : k < m => 2 ^ k < 2 ^ m
<1> DEFINE p == 2 ^ k
           S == {m \in Nat : k < m => p < 2 ^ m}
<1>1. 0 \in S
  OBVIOUS
<1>2. ASSUME NEW m \in Nat, m \in S PROVE m + 1 \in S
  <2> DEFINE q == 2 ^ m
             r == 2 ^ (m + 1)
  <2>1. p \in Nat \ {0} /\ q \in Nat \ {0} /\ r = 2 * q
    BY Powers
  <2>2. k < m => p < q
    BY <1>2
  <2>3. m = k => p = q
    OBVIOUS
  <2> HIDE DEF p, q, r
  <2>4. k < m + 1 => p < r
    BY <2>1, <2>2, <2>3
  <2>. QED
    BY <2>4 DEF r
<1> HIDE DEF S
<1>3. \A m \in Nat : m \in S
  BY <1>1, <1>2, CountUp
<1>. QED
  BY <1>3 DEF S, p

\* A greater exponent gives no smaller power.
LEMMA PowersOrdered ==
  ASSUME NEW m \in Nat, NEW k \in 0 .. m
  PROVE  2 ^ k <= 2 ^ m
<1> DEFINE p == 2 ^ k
           q == 2 ^ m
<1>1. p \in Nat /\ q \in Nat /\ (k < m => p < q)
  BY Powers, PowersGrow
<1>2. k = m => p = q
  OBVIOUS
<1> HIDE DEF p, q
<1>3. p <= q
  BY <1>1, <1>2
<1>. QED
  BY <1>3 DEF p, q

\* A number has a least power of two that is not below it.
LEMMA LeastPower ==
  ASSUME NEW m \in Nat, NEW n \in Nat, n <= 2 ^ m
  PROVE  \E k \in 0 .. m : n <= 2 ^ k /\ \A j \in 0 .. k - 1 : 2 ^ j < n
<1> DEFINE Enough == {k \in 0 .. m : n <= 2 ^ k}
<1>1. Enough \in SUBSET Nat /\ Enough # {}
  <2>1. m \in Enough
    OBVIOUS
  <2>2. Enough \subseteq 0 .. m
    OBVIOUS
  <2> HIDE DEF Enough
  <2>. QED
    BY <2>1, <2>2
<1>2. PICK k \in Enough : \A j \in Enough : k <= j
  BY <1>1, Least
<1>3. \A j \in 0 .. k - 1 : 2 ^ j < n
  <2> TAKE j \in 0 .. k - 1
  <2>1. j \in 0 .. m /\ ~(k <= j)
    OBVIOUS
  <2>2. j \notin Enough
    BY <1>2, <2>1
  <2>3. 2 ^ j \in Nat
    BY Powers
  <2> DEFINE p == 2 ^ j
  <2>4. ~(n <= p)
    BY <2>1, <2>2
  <2> HIDE DEF p
  <2>. QED
    BY <2>3, <2>4 DEF p
<1>. QED
  BY <1>2, <1>3

\* The bucket count is the least power of two that is enough (config.rs, build).
LEMMA NextPower ==
  ASSUME NEW n \in Nat, n <= 2 ^ 64
  PROVE  \E k \in 0 .. 64 : /\ next_power_of_two(n) = 2 ^ k /\ n <= 2 ^ k
                            /\ \A j \in 0 .. k - 1 : 2 ^ j < n
<1> DEFINE Enough(k) == n <= 2 ^ k /\ \A j \in 0 .. k - 1 : 2 ^ j < n
           k0 == CHOOSE k \in 0 .. 64 : Enough(k)
<1>1. \E k \in 0 .. 64 : Enough(k)
  BY LeastPower
<1>2. next_power_of_two(n) = 2 ^ k0
  BY DEF next_power_of_two
<1> HIDE DEF Enough
<1>3. k0 \in 0 .. 64 /\ Enough(k0)
  BY <1>1
<1> HIDE DEF k0
<1>. QED
  BY <1>2, <1>3 DEF Enough

\* A power of two is its own next one.
LEMMA NextOfPower ==
  ASSUME NEW k \in 0 .. 64
  PROVE  next_power_of_two(2 ^ k) = 2 ^ k
<1> DEFINE n == 2 ^ k
<1>1. n \in Nat
  BY Powers
<1>2. n <= 2 ^ 64
  BY PowersOrdered
<1>3. PICK j \in 0 .. 64 : /\ next_power_of_two(n) = 2 ^ j /\ n <= 2 ^ j
                           /\ \A i \in 0 .. j - 1 : 2 ^ i < n
  BY <1>1, <1>2, NextPower
<1>4. ~(k < j)
  <2> SUFFICES ASSUME k < j PROVE FALSE
    OBVIOUS
  <2>1. k \in 0 .. j - 1
    OBVIOUS
  <2>2. n < n
    BY <1>3, <2>1
  <2> HIDE DEF n
  <2>. QED
    BY <1>1, <2>2
<1>5. ~(j < k)
  <2> SUFFICES ASSUME j < k PROVE FALSE
    OBVIOUS
  <2> DEFINE m == 2 ^ j
  <2>1. m < n /\ m \in Nat
    BY Powers, PowersGrow
  <2>2. n <= m
    BY <1>3
  <2> HIDE DEF m, n
  <2>. QED
    BY <1>1, <2>1, <2>2
<1>. QED
  BY <1>3, <1>4, <1>5

-----------------------------------------------------------------------------
(* What build() makes of a builder. *)

\* Division rounds up (config.rs, div_ceil in build).
LEMMA RoundsUp ==
  ASSUME NEW b \in ConfigurationBuilders
  PROVE  /\ required_bucket_count(b) \in 0 .. UsizeMax
         /\ required_bucket_count(b) * b.bucket_size >= b.max_entries
         /\ (required_bucket_count(b) - 1) * b.bucket_size < b.max_entries
<1> DEFINE s == b.bucket_size
           n == b.max_entries
           q == (n + s - 1) \div s
           r == (n + s - 1) % s
<1>1. s \in Nat \ {0} /\ n \in Nat /\ n <= UsizeMax
  BY ConfigConstants DEF ConfigurationBuilders
<1>2. required_bucket_count(b) = q
  BY DEF required_bucket_count
<1>3. n + s - 1 \in Int
  BY <1>1
<1>4. q \in Int /\ r \in 0 .. s - 1 /\ n + s - 1 = s * q + r
  BY <1>1, <1>3, Divided
<1> HIDE DEF s, n, q, r
<1>5. s * q \in Int /\ s * q = q * s /\ (q - 1) * s = s * q - s
  BY <1>1, <1>4
<1>6. q * s >= n /\ (q - 1) * s < n
  BY <1>1, <1>4, <1>5
<1>7. q >= 0
  <2> SUFFICES ASSUME q < 0 PROVE FALSE
    BY <1>4
  <2>1. s * q + s <= s * 0
    BY <1>1, <1>4, NextMultiple
  <2>. QED
    BY <1>1, <1>5, <1>6, <2>1
<1>8. q <= n
  <2> SUFFICES ASSUME n < q PROVE FALSE
    BY <1>1, <1>4
  <2>1. s * n + s <= s * q
    BY <1>1, <1>4, NextMultiple
  <2>2. n <= s * n
    BY <1>1
  <2>3. s * n \in Int
    BY <1>1
  <2>. QED
    BY <1>1, <1>4, <1>5, <1>6, <2>1, <2>2, <2>3
<1>. QED
  BY <1>1, <1>2, <1>4, <1>6, <1>7, <1>8, ConfigConstants DEF s, n

\* The widths that build() works with are widths, and a slot has a byte at least.
LEMMA WidthTypes ==
  ASSUME NEW b \in ConfigurationBuilders
  PROVE  /\ widths(b) \in [Fields -> 0 .. 32] /\ widths(b)["fp"] = b.fingerprint_bits
         /\ widths(b)["fp"] \in BitCount
         /\ data_block_size(widths(b)) \in Nat \ {0}
<1> DEFINE l == widths(b)
<1>1. /\ b.fingerprint_bits \in BitCount /\ b.lru \in LruConfigs \cup {None}
      /\ b.ttl \in TtlConfigs \cup {None} /\ b.counter \in CounterConfigs \cup {None}
  BY DEF ConfigurationBuilders
<1>2. /\ b.lru # None => b.lru.counter_bits \in BitCount
      /\ b.ttl # None => b.ttl.ttl_bits \in BitCount
      /\ b.counter # None => b.counter.counter_bits \in BitCount
  BY <1>1 DEF LruConfigs, TtlConfigs, CounterConfigs
<1>3. l \in [Fields -> 0 .. 32] /\ l["fp"] = b.fingerprint_bits
  BY <1>1, <1>2 DEF widths, Fields, BitCount
<1> HIDE DEF l
<1>4. bits(l) \in Nat \ {0}
  <2>1. l["fp"] \in 1 .. 32
    BY <1>1, <1>3 DEF BitCount
  <2>2. l["lru"] \in 0 .. 32 /\ l["ttl"] \in 0 .. 32 /\ l["counter"] \in 0 .. 32
    BY <1>3 DEF Fields
  <2>3. \A w \in 1 .. 32 : \A x, y, z \in 0 .. 32 : w + x + y + z \in Nat \ {0}
    OBVIOUS
  <2>. QED
    BY <2>1, <2>2, <2>3 DEF bits
<1>5. data_block_size(l) \in Nat \ {0}
  BY <1>4 DEF data_block_size
<1>. QED
  BY <1>1, <1>3, <1>5 DEF l

\* No usize is beyond a power of two that is beyond the greatest.
LEMMA BelowPower ==
  ASSUME NEW m \in Nat, UsizeMax < 2 ^ m, NEW n \in Nat, n <= UsizeMax
  PROVE  n <= 2 ^ m
BY Powers, ConfigConstants

\* What build() has made is made of a power of two of buckets, the least that is
\* enough (config.rs, build).
LEMMA Built ==
  ASSUME UsizeFits, NEW b \in ConfigurationBuilders, is_ok(build(b))
  PROVE  LET c == build(b).value
         IN  /\ c.bucket_size = b.bucket_size /\ c.max_kicks = b.max_kicks
             /\ c.lru = b.lru /\ c.ttl = b.ttl /\ c.counter = b.counter
             /\ c.fields = field_configs(widths(b))
             /\ c.bucket_byte_size = b.bucket_size * data_block_size(widths(b))
             /\ c.bucket_count = next_power_of_two(required_bucket_count(b))
             /\ c.bucket_count \in Nat \ {0} /\ c.bucket_count <= UsizeMax
             /\ c.buckets_mask = (c.bucket_count - 1) % (U32Max + 1)
             /\ \E k \in 0 .. 64 : /\ c.bucket_count = 2 ^ k
                                   /\ required_bucket_count(b) <= 2 ^ k
                                   /\ \A j \in 0 .. k - 1 : 2 ^ j < required_bucket_count(b)
<1> DEFINE n == next_power_of_two(required_bucket_count(b))
           m == b.bucket_size * data_block_size(widths(b))
<1>1. is_ok(build(b)) <=> ~(n > UsizeMax) /\ ~(m > UsizeMax)
  BY DEF is_ok, build, Ok, Err
<1>2. ~(n > UsizeMax) /\ ~(m > UsizeMax)
  BY <1>1
<1>3. build(b) = Ok([bucket_size |-> b.bucket_size, max_kicks |-> b.max_kicks,
                     fields |-> field_configs(widths(b)),
                     lru |-> b.lru, ttl |-> b.ttl, counter |-> b.counter,
                     data_block_size |-> data_block_size(widths(b)), bucket_byte_size |-> m,
                     bucket_count |-> n, buckets_mask |-> (n - 1) % (U32Max + 1)])
  BY <1>2 DEF build
<1>4. PICK k \in 0 .. 64 : /\ n = 2 ^ k /\ required_bucket_count(b) <= 2 ^ k
                           /\ \A j \in 0 .. k - 1 : 2 ^ j < required_bucket_count(b)
  <2>1. required_bucket_count(b) \in Nat /\ required_bucket_count(b) <= UsizeMax
    BY RoundsUp, ConfigConstants
  <2>2. required_bucket_count(b) <= 2 ^ 64
    BY <2>1, BelowPower DEF UsizeFits
  <2>. QED
    BY <2>1, <2>2, NextPower
<1>5. n \in Nat \ {0} /\ n <= UsizeMax
  <2>1. n \in Nat \ {0}
    BY <1>4, Powers
  <2> HIDE DEF n
  <2>. QED
    BY <1>2, <2>1, ConfigConstants
<1> HIDE DEF n, m
<1>6. build(b).value = [bucket_size |-> b.bucket_size, max_kicks |-> b.max_kicks,
                     fields |-> field_configs(widths(b)),
                     lru |-> b.lru, ttl |-> b.ttl, counter |-> b.counter,
                     data_block_size |-> data_block_size(widths(b)), bucket_byte_size |-> m,
                     bucket_count |-> n, buckets_mask |-> (n - 1) % (U32Max + 1)]
  BY <1>3 DEF Ok
<1> DEFINE c == build(b).value
           Fewest(x) == \E j \in 0 .. 64 :
                          /\ x = 2 ^ j /\ required_bucket_count(b) <= 2 ^ j
                          /\ \A i \in 0 .. j - 1 : 2 ^ i < required_bucket_count(b)
<1>7. Fewest(n)
  BY <1>4
<1>8. /\ c.bucket_size = b.bucket_size /\ c.max_kicks = b.max_kicks
      /\ c.lru = b.lru /\ c.ttl = b.ttl /\ c.counter = b.counter
      /\ c.fields = field_configs(widths(b))
      /\ c.bucket_byte_size = m /\ c.bucket_count = n
      /\ c.buckets_mask = (n - 1) % (U32Max + 1)
  BY <1>6
<1> HIDE DEF c, Fewest
<1>9. Fewest(c.bucket_count)
  BY <1>7, <1>8
<1>10. c.bucket_count \in Nat \ {0} /\ c.bucket_count <= UsizeMax
  BY <1>5, <1>8
<1>. QED
  BY <1>8, <1>9, <1>10 DEF n, m, c, Fewest

\* The number of slots that an export names makes import build the configuration
\* that was exported (exporter.rs, write_to and read_from).
LEMMA Rebuilt ==
  ASSUME UsizeFits, NEW b \in ConfigurationBuilders, is_ok(build(b)),
         NEW e \in ConfigurationBuilders,
         e = [b EXCEPT !.max_entries = build(b).value.bucket_count * b.bucket_size]
  PROVE  build(e) = build(b)
<1> DEFINE n == build(b).value.bucket_count
           s == b.bucket_size
<1>1. n \in Nat \ {0} /\ n = next_power_of_two(required_bucket_count(b))
      /\ \E k \in 0 .. 64 : n = 2 ^ k
  BY Built
<1>2. next_power_of_two(n) = n
  BY <1>1, NextOfPower
<1>3. s \in Nat \ {0}
  BY ConfigConstants DEF ConfigurationBuilders
<1>5. /\ e.bucket_size = s /\ e.max_entries = n * s /\ e.max_kicks = b.max_kicks
      /\ e.lru = b.lru /\ e.ttl = b.ttl /\ e.counter = b.counter
      /\ e.fingerprint_bits = b.fingerprint_bits
  BY DEF ConfigurationBuilders
<1> HIDE DEF n, s
<1>6. required_bucket_count(e) = n
  <2>1. (n * s + s - 1) \div s = n
    <3>1. ((s - 1) + s * n) \div s = ((s - 1) \div s) + n
      BY <1>1, <1>3, DividedShift
    <3>2. (s - 1) \div s = 0
      BY <1>3
    <3>3. n * s + s - 1 = (s - 1) + s * n
      BY <1>1, <1>3
    <3>. QED
      BY <1>1, <3>1, <3>2, <3>3
  <2>. QED
    BY <1>5, <2>1 DEF required_bucket_count
<1>7. widths(e) = widths(b)
  <2>1. widths(e) \in [Fields -> 0 .. 32] /\ widths(b) \in [Fields -> 0 .. 32]
    BY WidthTypes
  <2>2. \A f \in Fields : widths(e)[f] = widths(b)[f]
    BY <1>5 DEF widths, Fields
  <2>. QED
    BY <2>1, <2>2
<1>8. next_power_of_two(required_bucket_count(e)) = next_power_of_two(required_bucket_count(b))
  BY <1>1, <1>2, <1>6
<1>. QED
  BY <1>5, <1>7, <1>8 DEF build, s

\* Where a field lies is the configuration of a field, and tells its width
\* (data_block.rs, DataBlockFieldConfiguration::new).
LEMMA FieldTold ==
  ASSUME NEW l \in [Fields -> 0 .. 32], NEW f \in Fields
  PROVE  config(l, f) \in FieldConfigs /\ config(l, f).in_value_mask = 0 .. l[f] - 1
<1> DEFINE from == start(l, f)
           to == from + l[f]
<1>1. l["fp"] \in Int /\ l["lru"] \in Int /\ l["ttl"] \in Int /\ l[f] \in Int
  BY DEF Fields
<1>2. from \in Int
  BY <1>1 DEF start, Fields
<1>3. config(l, f) = field_config(from, to)
  BY DEF config
<1> HIDE DEF from
<1>4. to \in Int /\ to - from = l[f]
  BY <1>1, <1>2
<1> HIDE DEF to
<1>5. /\ from \div 8 \in Int /\ (to - 1) \div 8 \in Int
      /\ 8 * (((to - 1) \div 8) + 1) - to \in Int
  BY <1>2, <1>4
<1>6. \A x, y \in Int : x .. y \in SUBSET Int
  OBVIOUS
<1> DEFINE shift == 8 * (((to - 1) \div 8) + 1) - to
<1>7. shift \in Int /\ shift + (to - from) - 1 \in Int
  BY <1>2, <1>4, <1>5
<1> HIDE DEF shift
<1>8. field_config(from, to) =
        [start_byte |-> from \div 8, end_byte |-> (to - 1) \div 8, shift |-> shift,
         mask |-> shift .. shift + (to - from) - 1,
         in_value_mask |-> 0 .. (to - from) - 1]
  BY DEF field_config, shift
<1>. QED
  BY <1>1, <1>3, <1>4, <1>5, <1>6, <1>7, <1>8 DEF FieldConfigs

\* The numbers below a number tell which it is.
LEMMA IntervalTells ==
  ASSUME NEW x \in Nat \ {0}, NEW y \in Nat \ {0}, 0 .. x - 1 = 0 .. y - 1
  PROVE  x = y
<1>1. x - 1 \in 0 .. x - 1 /\ y - 1 \in 0 .. y - 1
  OBVIOUS
<1>2. x - 1 \in 0 .. y - 1 /\ y - 1 \in 0 .. x - 1
  BY <1>1
<1>3. x <= y /\ y <= x
  BY <1>2
<1>. QED
  BY <1>3

\* Fields that lie alike are equally wide (config.rs, compatible_layout).
LEMMA LayoutsTell ==
  ASSUME NEW b \in ConfigurationBuilders, NEW e \in ConfigurationBuilders,
         \A f \in Fields : field_configs(widths(b))[f] = field_configs(widths(e))[f]
  PROVE  widths(b) = widths(e)
<1> DEFINE l == widths(b)
           m == widths(e)
<1>1. l \in [Fields -> 0 .. 32] /\ m \in [Fields -> 0 .. 32]
  BY WidthTypes
<1>2. \A f \in Fields : field_configs(l)[f] = field_configs(m)[f]
  OBVIOUS
<1> HIDE DEF l, m
<1>3. ASSUME NEW f \in Fields PROVE l[f] = m[f]
  <2>1. /\ field_configs(l)[f] = IF l[f] = 0 THEN None ELSE config(l, f)
        /\ field_configs(m)[f] = IF m[f] = 0 THEN None ELSE config(m, f)
    BY DEF field_configs
  <2>2. /\ config(l, f) # None /\ config(l, f).in_value_mask = 0 .. l[f] - 1
        /\ config(m, f) # None /\ config(m, f).in_value_mask = 0 .. m[f] - 1
    BY <1>1, FieldTold, NoneIsNoValue
  <2>3. l[f] \in 0 .. 32 /\ m[f] \in 0 .. 32
    BY <1>1
  <2>4. CASE l[f] = 0 \/ m[f] = 0
    BY <1>2, <2>1, <2>2, <2>4
  <2>5. CASE l[f] # 0 /\ m[f] # 0
    <3>1. 0 .. l[f] - 1 = 0 .. m[f] - 1
      BY <1>2, <2>1, <2>2, <2>5
    <3>2. l[f] \in Nat \ {0} /\ m[f] \in Nat \ {0}
      BY <2>3, <2>5
    <3>. QED
      BY <3>1, <3>2, IntervalTells
  <2>. QED
    BY <2>4, <2>5
<1>. QED
  BY <1>1, <1>3 DEF l, m

-----------------------------------------------------------------------------
(* Reading what is left of a stream. *)

Units == Int \cup {Byte} \cup HasherNames

\* What is still to be read is the beginning of the given units, and the rest of
\* them are what has been cut off.
Kept(units) ==
  \E n \in 0 .. Len(units) : stream = SubSeq(units, 1, n) /\ cut = (n < Len(units))

\* The beginning of some units agrees with them.
LEMMA KeptUnits ==
  ASSUME NEW units \in Seq(Units), Kept(units)
  PROVE  /\ stream \in Seq(Units) /\ Len(stream) \in 0 .. Len(units)
         /\ \A i \in 1 .. Len(stream) : stream[i] = units[i]
         /\ cut = (Len(stream) < Len(units))
         /\ stream = SubSeq(units, 1, Len(stream))
<1>1. PICK n \in 0 .. Len(units) : stream = SubSeq(units, 1, n) /\ cut = (n < Len(units))
  BY DEF Kept
<1>2. Len(units) \in Nat /\ \A i \in 1 .. n : units[i] \in Units
  BY LenProperties, ElementOfSeq
<1>3. /\ stream \in Seq(Units) /\ Len(stream) = n
      /\ \A i \in 1 .. n : stream[i] = units[i]
  BY <1>1, <1>2, SubSeqProperties
<1>. QED
  BY <1>1, <1>3

\* Units that begin with some others begin the stream with them, as far as it goes.
LEMMA KeptBegin ==
  ASSUME NEW a \in Seq(Units), NEW w \in Seq(Units), Kept(a \o w)
  PROVE  /\ stream \in Seq(Units) /\ Len(stream) \in Nat
         /\ \A i \in 1 .. Len(a) : i <= Len(stream) => stream[i] = a[i]
         /\ stream = << >> <=> Len(stream) = 0
         /\ stream # << >> => Head(stream) = stream[1]
         /\ Len(stream) < Len(a) => cut
<1>1. /\ a \o w \in Seq(Units) /\ Len(a \o w) = Len(a) + Len(w)
      /\ Len(a) \in Nat /\ Len(w) \in Nat
      /\ \A i \in 1 .. Len(a) : (a \o w)[i] = a[i]
  BY ConcatProperties, LenProperties
<1>2. /\ stream \in Seq(Units) /\ Len(stream) \in 0 .. Len(a \o w)
      /\ \A i \in 1 .. Len(stream) : stream[i] = (a \o w)[i]
      /\ cut = (Len(stream) < Len(a \o w))
  BY <1>1, KeptUnits
<1>3. stream = << >> <=> Len(stream) = 0
  BY <1>2, EmptySeq
<1>4. stream # << >> => Head(stream) = stream[1]
  <2> SUFFICES ASSUME stream # << >> PROVE Head(stream) = stream[1]
    OBVIOUS
  <2>1. 1 \in 1 .. Len(stream) /\ Len(stream) \in 1 .. Len(stream)
    BY <1>2, <1>3
  <2>. QED
    BY <1>2, <2>1, HeadTailOfSubSeq, SubSeqFull
<1>5. Len(stream) < Len(a) => cut
  <2>1. Len(stream) < Len(a) => Len(stream) < Len(a \o w)
    BY <1>1, <1>2
  <2>2. cut <=> Len(stream) < Len(a \o w)
    BY <1>2, Zenon
  <2>. QED
    BY <2>1, <2>2
<1>6. \A i \in 1 .. Len(a) : i <= Len(stream) => stream[i] = a[i]
  <2> SUFFICES ASSUME NEW i \in 1 .. Len(a), i <= Len(stream) PROVE stream[i] = a[i]
    OBVIOUS
  <2>1. i \in 1 .. Len(stream)
    BY <1>1, <1>2
  <2>. QED
    BY <1>1, <1>2, <2>1
<1>. QED
  BY <1>1, <1>2, <1>3, <1>4, <1>5, <1>6

\* Reading the first of the units leaves the others.
LEMMA KeptRest ==
  ASSUME NEW a \in Seq(Units), NEW w \in Seq(Units), Kept(a \o w),
         Len(stream) >= Len(a), stream' = rest(Len(a)), cut' = cut
  PROVE  Kept(w)'
<1> DEFINE k == Len(a)
           n == Len(stream)
<1>1. /\ a \o w \in Seq(Units) /\ Len(a \o w) = k + Len(w)
      /\ k \in Nat /\ Len(w) \in Nat
      /\ \A i \in 1 .. k + Len(w) : (a \o w)[i] = IF i <= k THEN a[i] ELSE w[i - k]
  BY ConcatProperties, LenProperties
<1>2. /\ stream \in Seq(Units) /\ n \in 0 .. k + Len(w)
      /\ \A i \in 1 .. n : stream[i] = (a \o w)[i]
      /\ cut = (n < k + Len(w))
  BY <1>1, KeptUnits
<1>3. stream' = SubSeq(stream, k + 1, n)
  BY DEF rest
<1>4. n - k \in 0 .. Len(w)
  BY <1>1, <1>2
<1> DEFINE m == n - k
           v == SubSeq(w, 1, m)
<1>5. \A i \in k + 1 .. n : stream[i] \in Units
  BY <1>1, <1>2, ElementOfSeq
<1>6. /\ stream' \in Seq(Units) /\ Len(stream') = m
      /\ \A i \in 1 .. m : stream'[i] = stream[k + i]
  BY <1>1, <1>2, <1>3, <1>4, <1>5, SubSeqProperties
<1>7. \A i \in 1 .. m : w[i] \in Units
  BY <1>1, <1>4, ElementOfSeq
<1>8. v \in Seq(Units) /\ Len(v) = m /\ \A i \in 1 .. m : v[i] = w[i]
  BY <1>4, <1>7, SubSeqProperties
<1>9. \A i \in 1 .. m : stream'[i] = v[i]
  <2> TAKE i \in 1 .. m
  <2>1. k + i \in 1 .. n /\ k + i \in 1 .. k + Len(w) /\ ~(k + i <= k) /\ (k + i) - k = i
    BY <1>1, <1>2, <1>4
  <2>2. stream[k + i] = w[i]
    BY <1>1, <1>2, <2>1
  <2>. QED
    BY <1>6, <1>8, <2>2
<1> HIDE DEF v
<1>10. stream' = v
  BY <1>6, <1>8, <1>9, SeqEqual
<1>11. cut' = (m < Len(w))
  BY <1>1, <1>2
<1>. QED
  BY <1>4, <1>10, <1>11 DEF Kept, v

-----------------------------------------------------------------------------
(* The units of an export. *)

lru_part(c, v) == IF c.lru = None THEN << >> ELSE <<1>> \o lru_units(c.lru, v)

ttl_part(c) == IF c.ttl = None THEN << >> ELSE <<2>> \o ttl_units(c.ttl)

counter_part(c) == IF c.counter = None THEN << >> ELSE <<3>> \o counter_units(c.counter)

header(c) ==
  <<Cardinality(c.fields["fp"].in_value_mask), c.bucket_size,
    c.bucket_count * c.bucket_size, c.max_kicks>>

\* What follows, from each part on.
from_end(c) == <<newline>> \o bucket_units(c)

from_counter(c) == counter_part(c) \o from_end(c)

from_ttl(c) == ttl_part(c) \o from_counter(c)

from_lru(c, v) == lru_part(c, v) \o from_ttl(c)

from_header(c, v) == header(c) \o from_lru(c, v)

from_version(c, v) == version_units(v) \o from_header(c, v)

\* The units s are the unit a and after it the units t.
Before(a, t, s) ==
  /\ s \in Seq(Units) /\ Len(t) \in Nat /\ Len(s) = 1 + Len(t)
  /\ s[1] = a
  /\ Len(t) >= 1 => s[2] = t[1]
  /\ Len(t) >= 2 => s[3] = t[2]
  /\ Len(t) >= 3 => s[4] = t[3]
  /\ Len(t) >= 4 => s[5] = t[4]
  /\ Len(t) >= 5 => s[6] = t[5]
  /\ Len(t) >= 6 => s[7] = t[6]

\* A unit is put before other units.
LEMMA UnitBefore ==
  ASSUME NEW a \in Units, NEW t \in Seq(Units)
  PROVE  Before(a, t, <<a>> \o t)
<1> DEFINE s == <<a>> \o t
<1>1. <<a>> \in Seq(Units) /\ Len(<<a>>) = 1 /\ <<a>>[1] = a
  OBVIOUS
<1>2. /\ s \in Seq(Units) /\ Len(s) = 1 + Len(t) /\ Len(t) \in Nat
      /\ \A i \in 1 .. 1 + Len(t) : s[i] = IF i <= 1 THEN <<a>>[i] ELSE t[i - 1]
  BY <1>1, ConcatProperties, LenProperties
<1> HIDE DEF s
<1>3. s[1] = a
  BY <1>1, <1>2
<1>4. ASSUME NEW i \in 1 .. 6, Len(t) >= i PROVE s[i + 1] = t[i]
  <2>1. i + 1 \in 1 .. 1 + Len(t) /\ ~(i + 1 <= 1) /\ (i + 1) - 1 = i
    BY <1>2, <1>4
  <2>. QED
    BY <1>2, <2>1
<1>5. \A i \in 1 .. 6 : Len(t) >= i => s[i + 1] = t[i]
  BY <1>4
<1>6. /\ Len(t) >= 1 => s[2] = t[1]
      /\ Len(t) >= 2 => s[3] = t[2]
      /\ Len(t) >= 3 => s[4] = t[3]
      /\ Len(t) >= 4 => s[5] = t[4]
      /\ Len(t) >= 5 => s[6] = t[5]
      /\ Len(t) >= 6 => s[7] = t[6]
  BY <1>5
<1>. QED
  BY <1>2, <1>3, <1>6 DEF Before, s

\* The units of the settings of the LRU, after their tag, in each of the formats.
LruWritten(a, lru, v) ==
  /\ a \in Seq(Units) /\ Len(a) \in Nat /\ a[1] = 1 /\ a[2] = lru.counter_bits
  /\ v < 2000 => Len(a) = 2
  /\ v >= 2000 => a[3] = bit(lru.remove_on_zero)
  /\ v >= 2000 /\ v < 2002 => Len(a) = 3
  /\ v >= 2002 /\ lru.aging_strategy = Halving =>
       Len(a) = 6 /\ a[4] = 1 /\ a[5] = lru.starting_value /\ a[6] = lru.increment
  /\ v >= 2002 /\ lru.aging_strategy # Halving =>
       /\ Len(a) = 7 /\ a[4] = 2 /\ a[5] = lru.aging_strategy.decrement
       /\ a[6] = lru.starting_value /\ a[7] = lru.increment

\* LruConfig::write_to writes them (exporter.rs).
LEMMA LruPart ==
  ASSUME NEW lru \in LruConfigs, NEW v \in Nat
  PROVE  LruWritten(<<1>> \o lru_units(lru, v), lru, v)
<1> DEFINE n == lru.counter_bits
           z == bit(lru.remove_on_zero)
           x == lru.starting_value
           y == lru.increment
           d == lru.aging_strategy.decrement
           a == <<1>> \o lru_units(lru, v)
<1>1. /\ n \in Int /\ z \in Int /\ x \in Int /\ y \in Int
      /\ lru.aging_strategy # Halving => d \in Int
  <2>1. lru.aging_strategy \in LruAgingStrategies
    BY DEF LruConfigs
  <2>2. lru.aging_strategy = [decrement |-> d] /\ d \in Nat \cup {None}
    BY <2>1 DEF LruAgingStrategies
  <2>. QED
    BY <2>2 DEF LruConfigs, BitCount, bit, Halving
<1> HIDE DEF n, z, x, y, d
<1>2. 1 \in Units /\ 2 \in Units /\ n \in Units /\ z \in Units /\ x \in Units /\ y \in Units
      /\ (lru.aging_strategy # Halving => d \in Units)
  BY <1>1 DEF Units
<1>3. CASE v < 2000
  <2>0. v < 2002
    BY <1>3
  <2>1. lru_units(lru, v) = <<n>> \o << >> \o << >>
    BY <1>3, <2>0 DEF lru_units, n
  <2>2. lru_units(lru, v) = <<n>>
    BY <1>2, <2>1, ConcatEmptySeq
  <2>3. <<n>> \in Seq(Units) /\ Len(<<n>>) = 1 /\ <<n>>[1] = n
    BY <1>2
  <2>4. a \in Seq(Units) /\ Len(a) = 2 /\ a[1] = 1 /\ a[2] = n
    <3>1. Before(1, lru_units(lru, v), a)
      BY <1>2, <2>2, <2>3, UnitBefore
    <3> HIDE DEF a
    <3>. QED
      BY <1>2, <2>2, <2>3, <3>1 DEF Before
  <2> HIDE DEF a
  <2>. QED
    BY <1>3, <2>4 DEF LruWritten, a, n
<1>4. CASE v >= 2000 /\ v < 2002
  <2>1. lru_units(lru, v) = (<<n>> \o <<z>>) \o << >>
    BY <1>4 DEF lru_units, n, z
  <2>2. <<z>> \in Seq(Units) /\ Len(<<z>>) = 1 /\ <<z>>[1] = z
    BY <1>2
  <2> DEFINE t == <<n>> \o <<z>>
  <2>3. t \in Seq(Units) /\ Len(t) = 2 /\ t[1] = n /\ t[2] = z
    <3>1. Before(n, <<z>>, t)
      BY <1>2, <2>2, UnitBefore
    <3>. QED
      BY <1>2, <2>2, <3>1 DEF Before
  <2>4. lru_units(lru, v) = t
    BY <2>1, <2>3, ConcatEmptySeq
  <2> HIDE DEF t
  <2>5. a \in Seq(Units) /\ Len(a) = 3 /\ a[1] = 1 /\ a[2] = n /\ a[3] = z
    <3>1. Before(1, lru_units(lru, v), a)
      BY <1>2, <2>3, <2>4, UnitBefore
    <3> HIDE DEF a
    <3>. QED
      BY <1>2, <2>3, <2>4, <3>1 DEF Before
  <2> HIDE DEF a
  <2>. QED
    BY <1>4, <2>5 DEF LruWritten, a, n, z
<1>5. CASE v >= 2002
  <2> DEFINE u == strategy_units(lru.aging_strategy)
             w == <<x, y>>
             t == <<n>> \o <<z>>
  <2>0. ~(v < 2000) /\ ~(v < 2002)
    BY <1>5
  <2>1. lru_units(lru, v) = t \o (u \o w)
    BY <2>0 DEF lru_units, n, z, x, y
  <2>2. <<z>> \in Seq(Units) /\ Len(<<z>>) = 1 /\ <<z>>[1] = z
    BY <1>2
  <2>3. t \in Seq(Units) /\ Len(t) = 2 /\ t[1] = n /\ t[2] = z
    <3>1. Before(n, <<z>>, t)
      BY <1>2, <2>2, UnitBefore
    <3>. QED
      BY <1>2, <2>2, <3>1 DEF Before
  <2>4. w \in Seq(Units) /\ Len(w) = 2 /\ w[1] = x /\ w[2] = y
    BY <1>2
  <2>5. <<n>> \in Seq(Units) /\ <<z>> \in Seq(Units)
    BY <1>2
  <2>6. CASE lru.aging_strategy = Halving
    <3>1. u = <<1>>
      BY <2>6 DEF strategy_units
    <3> HIDE DEF u, w
    <3> DEFINE s == u \o w
    <3>2. s \in Seq(Units) /\ Len(s) = 3 /\ s[1] = 1 /\ s[2] = x /\ s[3] = y
      <4>1. Before(1, w, s)
        BY <1>2, <2>4, <3>1, UnitBefore
      <4>. QED
        BY <1>2, <2>4, <3>1, <4>1 DEF Before
    <3> HIDE DEF s
    <3>3. lru_units(lru, v) = <<n>> \o (<<z>> \o s)
      <4>1. (<<n>> \o <<z>>) \o s = <<n>> \o (<<z>> \o s)
        BY <2>5, <3>2, ConcatAssociative
      <4>. QED
        BY <2>1, <4>1 DEF s
    <3> DEFINE q == <<z>> \o s
    <3>4. /\ q \in Seq(Units) /\ Len(q) = 4
          /\ q[1] = z /\ q[2] = 1 /\ q[3] = x /\ q[4] = y
      <4>1. Before(z, s, q)
        BY <1>2, <3>2, UnitBefore
      <4>. QED
        BY <1>2, <3>2, <4>1 DEF Before
    <3> HIDE DEF q
    <3> DEFINE p == <<n>> \o q
    <3>5. /\ p \in Seq(Units) /\ Len(p) = 5
          /\ p[1] = n /\ p[2] = z /\ p[3] = 1 /\ p[4] = x /\ p[5] = y
      <4>1. Before(n, q, p)
        BY <1>2, <3>4, UnitBefore
      <4>. QED
        BY <1>2, <3>4, <4>1 DEF Before
    <3>6. lru_units(lru, v) = p
      BY <3>3 DEF q
    <3> HIDE DEF p
    <3>7. /\ a \in Seq(Units) /\ Len(a) = 6
          /\ a[1] = 1 /\ a[2] = n /\ a[3] = z /\ a[4] = 1 /\ a[5] = x /\ a[6] = y
      <4>1. Before(1, lru_units(lru, v), a)
        BY <1>2, <3>5, <3>6, UnitBefore
      <4> HIDE DEF a
      <4>. QED
        BY <1>2, <3>5, <3>6, <4>1 DEF Before
    <3> HIDE DEF a
    <3>. QED
      BY <1>5, <2>6, <3>7 DEF LruWritten, a, n, z, x, y
  <2>7. CASE lru.aging_strategy # Halving
    <3>1. u = <<2, d>>
      BY <2>7 DEF strategy_units, d
    <3>2. u \in Seq(Units) /\ Len(u) = 2 /\ u[1] = 2 /\ u[2] = d
      BY <1>2, <2>7, <3>1
    <3> HIDE DEF u, w
    <3> DEFINE s == u \o w
    <3>3. /\ s \in Seq(Units) /\ Len(s) = 4
          /\ s[1] = 2 /\ s[2] = d /\ s[3] = x /\ s[4] = y
      <4>1. /\ s \in Seq(Units) /\ Len(s) = Len(u) + Len(w)
            /\ \A i \in 1 .. Len(u) + Len(w) : s[i] = IF i <= Len(u) THEN u[i] ELSE w[i - Len(u)]
        BY <2>4, <3>2, ConcatProperties
      <4> HIDE DEF s
      <4>. QED
        BY <2>4, <3>2, <4>1
    <3> HIDE DEF s
    <3>4. lru_units(lru, v) = <<n>> \o (<<z>> \o s)
      <4>1. (<<n>> \o <<z>>) \o s = <<n>> \o (<<z>> \o s)
        BY <2>5, <3>3, ConcatAssociative
      <4>. QED
        BY <2>1, <4>1 DEF s
    <3> DEFINE q == <<z>> \o s
    <3>5. /\ q \in Seq(Units) /\ Len(q) = 5
          /\ q[1] = z /\ q[2] = 2 /\ q[3] = d /\ q[4] = x /\ q[5] = y
      <4>1. Before(z, s, q)
        BY <1>2, <3>3, UnitBefore
      <4>. QED
        BY <1>2, <3>3, <4>1 DEF Before
    <3> HIDE DEF q
    <3> DEFINE p == <<n>> \o q
    <3>6. /\ p \in Seq(Units) /\ Len(p) = 6
          /\ p[1] = n /\ p[2] = z /\ p[3] = 2 /\ p[4] = d /\ p[5] = x /\ p[6] = y
      <4>1. Before(n, q, p)
        BY <1>2, <3>5, UnitBefore
      <4>. QED
        BY <1>2, <3>5, <4>1 DEF Before
    <3>7. lru_units(lru, v) = p
      BY <3>4 DEF q
    <3> HIDE DEF p
    <3>8. /\ a \in Seq(Units) /\ Len(a) = 7
          /\ a[1] = 1 /\ a[2] = n /\ a[3] = z /\ a[4] = 2 /\ a[5] = d /\ a[6] = x /\ a[7] = y
      <4>1. Before(1, lru_units(lru, v), a)
        BY <1>2, <3>6, <3>7, UnitBefore
      <4> HIDE DEF a
      <4>. QED
        BY <1>2, <3>6, <3>7, <4>1 DEF Before
    <3> HIDE DEF a
    <3>. QED
      BY <1>5, <2>7, <3>8 DEF LruWritten, a, n, z, x, y, d
  <2>. QED
    BY <2>6, <2>7
<1>. QED
  BY <1>3, <1>4, <1>5

\* The settings of the TTL (exporter.rs, TtlConfig::write_to).
LEMMA TtlPart ==
  ASSUME NEW ttl \in TtlConfigs
  PROVE  LET a == <<2>> \o ttl_units(ttl)
         IN  /\ a \in Seq(Units) /\ Len(a) = 3
             /\ a[1] = 2 /\ a[2] = ttl.ttl /\ a[3] = ttl.ttl_bits
<1> DEFINE t == ttl_units(ttl)
           a == <<2>> \o t
<1>1. ttl.ttl \in Units /\ ttl.ttl_bits \in Units /\ 2 \in Units
  BY DEF TtlConfigs, BitCount, Units
<1>2. t \in Seq(Units) /\ Len(t) = 2 /\ t[1] = ttl.ttl /\ t[2] = ttl.ttl_bits
  BY <1>1 DEF ttl_units
<1> HIDE DEF t
<1>3. Before(2, t, a)
  BY <1>1, <1>2, UnitBefore
<1> HIDE DEF a
<1>4. a \in Seq(Units) /\ Len(a) = 3 /\ a[1] = 2 /\ a[2] = ttl.ttl /\ a[3] = ttl.ttl_bits
  BY <1>2, <1>3 DEF Before
<1>. QED
  BY <1>4 DEF a, t

\* The settings of the counter (exporter.rs, CounterConfig::write_to).
LEMMA CounterPart ==
  ASSUME NEW counter \in CounterConfigs
  PROVE  LET a == <<3>> \o counter_units(counter)
         IN  /\ a \in Seq(Units) /\ Len(a) = 4
             /\ a[1] = 3 /\ a[2] = counter.counter_bits
             /\ a[3] = counter.change_on_insert /\ a[4] = counter.change_on_lookup
<1> DEFINE t == counter_units(counter)
           a == <<3>> \o t
           n == counter.counter_bits
           x == counter.change_on_insert
           y == counter.change_on_lookup
<1>1. n \in Units /\ x \in Units /\ y \in Units /\ 3 \in Units
  BY DEF CounterConfigs, BitCount, Units
<1>2. t = <<n, x, y>>
  BY DEF counter_units
<1> HIDE DEF n, x, y, t
<1>3. t \in Seq(Units) /\ Len(t) = 3 /\ t[1] = n /\ t[2] = x /\ t[3] = y
  BY <1>1, <1>2
<1>4. Before(3, t, a)
  BY <1>1, <1>3, UnitBefore
<1> HIDE DEF a
<1>5. a \in Seq(Units) /\ Len(a) = 4 /\ a[1] = 3 /\ a[2] = n /\ a[3] = x /\ a[4] = y
  BY <1>3, <1>4 DEF Before
<1>. QED
  BY <1>5 DEF a, t, n, x, y

\* The three numbers of a version make up the version.
LEMMA VersionParts ==
  ASSUME NEW v \in Nat
  PROVE  1000000 * (v \div 1000000) + 1000 * ((v \div 1000) % 1000) + (v % 1000) = v
<1> DEFINE a == v \div 1000
           b == a \div 1000
           y == a % 1000
           z == v % 1000
           r == 1000 * y + z
           x == v \div 1000000
<1>1. z \in 0 .. 1000 - 1 /\ a \in Int /\ v = 1000 * a + z
  BY Divided
<1>2. y \in 0 .. 1000 - 1 /\ b \in Int /\ a = 1000 * b + y
  BY <1>1, Divided
<1> HIDE DEF a, b, y, z
<1>3. r \in Int /\ 0 <= r /\ r < 1000000 /\ v = r + 1000000 * b
  BY <1>1, <1>2
<1> HIDE DEF r
<1>4. x = (r \div 1000000) + b
  BY <1>2, <1>3, DividedShift
<1>5. r \div 1000000 = 0
  BY <1>3
<1> HIDE DEF x
<1>6. x = b
  BY <1>2, <1>4, <1>5
<1>7. 1000000 * x + 1000 * y + z = v
  BY <1>1, <1>2, <1>3, <1>6 DEF r
<1>. QED
  BY <1>7 DEF x, y, z, a

\* What ReadVersion makes of a version.
version_of(units) == 1000000 * units[2] + 1000 * units[3] + units[4]

\* The version of the crate, in the versions that wrote it (exporter.rs, write_to).
LEMMA VersionPart ==
  ASSUME NEW v \in Nat
  PROVE  /\ version_units(v) \in Seq(Units)
         /\ v < 2000 => version_units(v) = << >>
         /\ v >= 2000 => /\ Len(version_units(v)) = 4 /\ version_units(v)[1] = 0
                         /\ version_of(version_units(v)) = v
<1> DEFINE x == v \div 1000000
           y == (v \div 1000) % 1000
           z == v % 1000
<1>1. x \in Int /\ y \in Int /\ z \in Int /\ 0 \in Int
  OBVIOUS
<1>2. 1000000 * x + 1000 * y + z = v
  BY VersionParts
<1>3. v < 2000 => version_units(v) = << >>
  BY DEF version_units
<1>4. v >= 2000 => version_units(v) = <<0, x, y, z>>
  BY DEF version_units
<1>5. x \in Units /\ y \in Units /\ z \in Units /\ 0 \in Units
  BY <1>1 DEF Units
<1> HIDE DEF x, y, z
<1> DEFINE t == version_units(v)
<1>6. v < 2000 => t \in Seq(Units)
  BY <1>3
<1>7. v >= 2000 => /\ t \in Seq(Units) /\ Len(t) = 4
                   /\ t[1] = 0 /\ t[2] = x /\ t[3] = y /\ t[4] = z
  <2> DEFINE u == <<0, x, y, z>>
  <2>1. u \in Seq(Units) /\ Len(u) = 4 /\ u[1] = 0 /\ u[2] = x /\ u[3] = y /\ u[4] = z
    BY <1>5
  <2>2. v >= 2000 => t = u
    BY <1>4
  <2> HIDE DEF t, u
  <2>. QED
    BY <2>1, <2>2
<1> HIDE DEF t
<1>8. v >= 2000 => version_of(t) = v
  BY <1>1, <1>2, <1>7 DEF version_of
<1>9. v < 2000 \/ v >= 2000
  OBVIOUS
<1>. QED
  BY <1>3, <1>6, <1>7, <1>8, <1>9 DEF t

-----------------------------------------------------------------------------
(* Configurations that are exported. *)

ConfigType(c) ==
  /\ c.lru \in LruConfigs \cup {None} /\ c.ttl \in TtlConfigs \cup {None}
  /\ c.counter \in CounterConfigs \cup {None}
  /\ c.bucket_size \in Nat \ {0} /\ c.bucket_count \in Nat \ {0}
  /\ c.bucket_byte_size \in Nat \ {0} /\ c.max_kicks \in Nat
  /\ Cardinality(c.fields["fp"].in_value_mask) \in BitCount

\* build() makes such configurations, and the mask of the fingerprints tells how
\* wide they are (exporter.rs, write_to).
LEMMA BuiltType ==
  ASSUME UsizeFits, NEW b \in ConfigurationBuilders, is_ok(build(b))
  PROVE  /\ ConfigType(build(b).value)
         /\ Cardinality(build(b).value.fields["fp"].in_value_mask) = b.fingerprint_bits
         /\ build(b).value.bucket_size <= build(b).value.bucket_byte_size
<1> DEFINE c == build(b).value
           l == widths(b)
           d == data_block_size(l)
<1>1. /\ c.bucket_size = b.bucket_size /\ c.max_kicks = b.max_kicks
      /\ c.lru = b.lru /\ c.ttl = b.ttl /\ c.counter = b.counter
      /\ c.fields = field_configs(l) /\ c.bucket_byte_size = b.bucket_size * d
      /\ c.bucket_count \in Nat \ {0}
  BY Built
<1>2. /\ l \in [Fields -> 0 .. 32] /\ l["fp"] = b.fingerprint_bits /\ l["fp"] \in BitCount
      /\ d \in Nat \ {0}
  BY WidthTypes
<1> HIDE DEF c, d, l
<1>3. /\ b.bucket_size \in Nat \ {0} /\ b.max_kicks \in Nat
      /\ b.lru \in LruConfigs \cup {None} /\ b.ttl \in TtlConfigs \cup {None}
      /\ b.counter \in CounterConfigs \cup {None}
  BY ConfigConstants DEF ConfigurationBuilders
<1>4. b.bucket_size * d \in Nat \ {0} /\ b.bucket_size <= b.bucket_size * d
  <2> DEFINE s == b.bucket_size
  <2>1. s \in Nat \ {0}
    BY <1>3
  <2> HIDE DEF s
  <2>2. s * d = s * (d - 1) + s /\ s * (d - 1) \in Nat
    BY <1>2, <2>1
  <2>. QED
    BY <2>1, <2>2 DEF s
<1>5. Cardinality(c.fields["fp"].in_value_mask) = b.fingerprint_bits
  <2>1. "fp" \in Fields
    BY DEF Fields
  <2>2. l["fp"] \in 1 .. 32
    BY <1>2 DEF BitCount
  <2>3. c.fields["fp"] = config(l, "fp")
    BY <1>1, <2>1, <2>2 DEF field_configs
  <2>4. c.fields["fp"].in_value_mask = 0 .. l["fp"] - 1
    BY <1>2, <2>1, <2>3, FieldTold
  <2> DEFINE n == l["fp"]
  <2>5. n \in 1 .. 32
    BY <2>2
  <2> HIDE DEF n
  <2>6. Cardinality(0 .. n - 1) = n
    BY <2>5, FS_Interval
  <2>. QED
    BY <1>2, <2>4, <2>6 DEF n
<1>6. b.fingerprint_bits \in BitCount
  BY <1>2
<1>7. ConfigType(c)
  BY <1>1, <1>3, <1>4, <1>5, <1>6 DEF ConfigType
<1>8. c.bucket_size <= c.bucket_byte_size
  BY <1>1, <1>4
<1>. QED
  BY <1>5, <1>7, <1>8 DEF c

\* The four numbers that every export has (exporter.rs, write_to).
LEMMA HeaderPart ==
  ASSUME NEW c, ConfigType(c)
  PROVE  /\ header(c) \in Seq(Units) /\ Len(header(c)) = 4
         /\ header(c)[1] = Cardinality(c.fields["fp"].in_value_mask)
         /\ header(c)[2] = c.bucket_size
         /\ header(c)[3] = c.bucket_count * c.bucket_size
         /\ header(c)[4] = c.max_kicks
<1> DEFINE n == Cardinality(c.fields["fp"].in_value_mask)
           x == c.bucket_size
           y == c.bucket_count * c.bucket_size
           z == c.max_kicks
<1>1. n \in Int /\ x \in Int /\ y \in Int /\ z \in Int
  BY DEF ConfigType, BitCount
<1>2. header(c) = <<n, x, y, z>>
  BY DEF header
<1> HIDE DEF n, x, y, z
<1>3. n \in Units /\ x \in Units /\ y \in Units /\ z \in Units
  BY <1>1 DEF Units
<1>4. header(c) \in Seq(Units) /\ Len(header(c)) = 4 /\ header(c)[1] = n /\ header(c)[2] = x
      /\ header(c)[3] = y /\ header(c)[4] = z
  BY <1>2, <1>3
<1>. QED
  BY <1>4 DEF n, x, y, z

\* The buckets have a byte at least (exporter.rs, export_state).
LEMMA BucketPart ==
  ASSUME NEW c, ConfigType(c)
  PROVE  /\ bucket_units(c) \in Seq(Units)
         /\ Len(bucket_units(c)) = c.bucket_count * c.bucket_byte_size
         /\ c.bucket_count * c.bucket_byte_size \in Nat \ {0}
<1> DEFINE n == c.bucket_count * c.bucket_byte_size
           t == bucket_units(c)
<1>1. n \in Nat \ {0}
  <2>1. \A x, y \in Nat \ {0} : x * y \in Nat \ {0}
    OBVIOUS
  <2>. QED
    BY <2>1 DEF ConfigType
<1>2. t = [i \in 1 .. n |-> Byte]
  BY DEF bucket_units
<1> HIDE DEF n, t
<1>3. Byte \in Units
  BY DEF Units
<1>4. t \in [1 .. n -> Units]
  BY <1>2, <1>3
<1>5. t \in Seq(Units)
  BY <1>1, <1>4, SeqDef
<1>6. Len(t) \in Nat /\ DOMAIN t = 1 .. Len(t) /\ DOMAIN t = 1 .. n
  BY <1>4, <1>5, LenProperties
<1>7. Len(t) = n
  <2> DEFINE k == Len(t)
  <2>1. k \in Nat /\ 1 .. k = 1 .. n
    BY <1>6
  <2> HIDE DEF k
  <2>2. n \in 1 .. k
    BY <1>1, <2>1
  <2>3. k \in 1 .. n
    BY <2>1, <2>2
  <2>. QED
    BY <1>1, <2>1, <2>2, <2>3 DEF k
<1>. QED
  BY <1>1, <1>5, <1>7 DEF n, t

\* Each part, and what follows from it on, are units.
LEMMA PartTypes ==
  ASSUME NEW c, ConfigType(c), NEW v \in Nat
  PROVE  /\ lru_part(c, v) \in Seq(Units) /\ ttl_part(c) \in Seq(Units)
         /\ counter_part(c) \in Seq(Units) /\ <<newline>> \in Seq(Units)
         /\ from_end(c) \in Seq(Units) /\ from_counter(c) \in Seq(Units)
         /\ from_ttl(c) \in Seq(Units) /\ from_lru(c, v) \in Seq(Units)
         /\ from_header(c, v) \in Seq(Units) /\ from_version(c, v) \in Seq(Units)
<1>1. << >> \in Seq(Units)
  BY EmptySeq
<1>2. lru_part(c, v) \in Seq(Units)
  BY <1>1, LruPart DEF LruWritten, lru_part, ConfigType
<1>3. ttl_part(c) \in Seq(Units)
  BY <1>1, TtlPart DEF ttl_part, ConfigType
<1>4. counter_part(c) \in Seq(Units)
  BY <1>1, CounterPart DEF counter_part, ConfigType
<1>5. <<newline>> \in Seq(Units)
  <2>1. newline \in Units
    BY DEF newline, Units
  <2>. QED
    BY <2>1
<1>6. from_end(c) \in Seq(Units)
  BY <1>5, BucketPart, ConcatProperties DEF from_end
<1>7. from_counter(c) \in Seq(Units)
  BY <1>4, <1>6, ConcatProperties DEF from_counter
<1>8. from_ttl(c) \in Seq(Units)
  BY <1>3, <1>7, ConcatProperties DEF from_ttl
<1>9. from_lru(c, v) \in Seq(Units)
  BY <1>2, <1>8, ConcatProperties DEF from_lru
<1>10. from_header(c, v) \in Seq(Units)
  BY <1>9, HeaderPart, ConcatProperties DEF from_header
<1>11. from_version(c, v) \in Seq(Units)
  BY <1>10, VersionPart, ConcatProperties DEF from_version
<1>. QED
  BY <1>2, <1>3, <1>4, <1>5, <1>6, <1>7, <1>8, <1>9, <1>10, <1>11

\* The parts may be joined from the right as from the left.
LEMMA Regroup ==
  ASSUME NEW a \in Seq(Units), NEW b \in Seq(Units), NEW c \in Seq(Units)
  PROVE  (a \o b) \o c = a \o (b \o c)
BY ConcatAssociative

\* An export is its parts, one after the other (exporter.rs, export).
LEMMA ExportParts ==
  ASSUME NEW c, ConfigType(c), NEW v \in Nat, NEW name \in HasherNames
  PROVE  /\ <<name>> \in Seq(Units)
         /\ export(c, name, v) = <<name>> \o from_version(c, v)
<1> DEFINE N == <<name>>
           V == version_units(v)
           H == header(c)
           L == lru_part(c, v)
           T == ttl_part(c)
           C == counter_part(c)
           E == <<newline>>
           B == bucket_units(c)
           whole == (((V \o H) \o L) \o T) \o C
<1>1. N \in Seq(Units)
  <2>1. name \in Units
    BY DEF Units
  <2>. QED
    BY <2>1
<1>2. /\ V \in Seq(Units) /\ H \in Seq(Units) /\ L \in Seq(Units) /\ T \in Seq(Units)
      /\ C \in Seq(Units) /\ E \in Seq(Units) /\ B \in Seq(Units)
  <2>1. V \in Seq(Units)
    BY VersionPart
  <2>2. H \in Seq(Units) /\ B \in Seq(Units)
    BY HeaderPart, BucketPart
  <2>3. L \in Seq(Units) /\ T \in Seq(Units) /\ C \in Seq(Units) /\ E \in Seq(Units)
    BY PartTypes
  <2>. QED
    BY <2>1, <2>2, <2>3
<1>3. config_units(c, v) = whole
  BY DEF config_units, header, lru_part, ttl_part, counter_part
<1>4. export(c, name, v) = ((N \o whole) \o E) \o B
  BY <1>3 DEF export
<1>5. /\ from_end(c) = E \o B /\ from_counter(c) = C \o from_end(c)
      /\ from_ttl(c) = T \o from_counter(c) /\ from_lru(c, v) = L \o from_ttl(c)
      /\ from_header(c, v) = H \o from_lru(c, v)
      /\ from_version(c, v) = V \o from_header(c, v)
  BY DEF from_end, from_counter, from_ttl, from_lru, from_header, from_version
<1>6. /\ from_end(c) \in Seq(Units) /\ from_counter(c) \in Seq(Units)
      /\ from_ttl(c) \in Seq(Units) /\ from_lru(c, v) \in Seq(Units)
  BY PartTypes
<1> HIDE DEF N, V, H, L, T, C, E, B
<1>7. /\ V \o H \in Seq(Units) /\ (V \o H) \o L \in Seq(Units)
      /\ ((V \o H) \o L) \o T \in Seq(Units) /\ whole \in Seq(Units)
  <2>1. V \o H \in Seq(Units)
    BY <1>2, ConcatProperties
  <2>2. (V \o H) \o L \in Seq(Units)
    BY <1>2, <2>1, ConcatProperties
  <2>3. ((V \o H) \o L) \o T \in Seq(Units)
    BY <1>2, <2>2, ConcatProperties
  <2>4. whole \in Seq(Units)
    BY <1>2, <2>3, ConcatProperties
  <2>. QED
    BY <2>1, <2>2, <2>3, <2>4
<1> DEFINE A1 == V \o H
           A2 == A1 \o L
           A3 == A2 \o T
<1>8. A1 \o from_lru(c, v) = V \o (H \o from_lru(c, v))
  <2>1. V \in Seq(Units) /\ H \in Seq(Units) /\ from_lru(c, v) \in Seq(Units)
    BY <1>2, <1>6
  <2>. QED
    BY <2>1, Regroup
<1>9. A2 \o from_ttl(c) = A1 \o (L \o from_ttl(c))
  <2>1. A1 \in Seq(Units) /\ L \in Seq(Units) /\ from_ttl(c) \in Seq(Units)
    BY <1>2, <1>6, <1>7
  <2> HIDE DEF A1
  <2>. QED
    BY <2>1, Regroup
<1>10. A3 \o from_counter(c) = A2 \o (T \o from_counter(c))
  <2>1. A2 \in Seq(Units) /\ T \in Seq(Units) /\ from_counter(c) \in Seq(Units)
    BY <1>2, <1>6, <1>7
  <2> HIDE DEF A2
  <2>. QED
    BY <2>1, Regroup
<1>11. whole \o from_end(c) = A3 \o (C \o from_end(c))
  <2>1. A3 \in Seq(Units) /\ C \in Seq(Units) /\ from_end(c) \in Seq(Units)
    BY <1>2, <1>6, <1>7
  <2>2. whole = A3 \o C
    OBVIOUS
  <2> HIDE DEF A3, whole
  <2>3. (A3 \o C) \o from_end(c) = A3 \o (C \o from_end(c))
    BY <2>1, Regroup
  <2>. QED
    BY <2>2, <2>3
<1> HIDE DEF A1, A2, A3
<1>12. whole \o from_end(c) = from_version(c, v)
  BY <1>5, <1>8, <1>9, <1>10, <1>11
<1> HIDE DEF whole
<1>13. N \o whole \in Seq(Units)
  BY <1>1, <1>7, ConcatProperties
<1> DEFINE A4 == N \o whole
<1>14. (A4 \o E) \o B = A4 \o (E \o B)
  <2>1. A4 \in Seq(Units) /\ E \in Seq(Units) /\ B \in Seq(Units)
    BY <1>2, <1>13
  <2> HIDE DEF A4
  <2>. QED
    BY <2>1, Regroup
<1>15. (N \o whole) \o from_end(c) = N \o (whole \o from_end(c))
  <2>1. N \in Seq(Units) /\ whole \in Seq(Units) /\ from_end(c) \in Seq(Units)
    BY <1>1, <1>6, <1>7
  <2>. QED
    BY <2>1, Regroup
<1>16. ((N \o whole) \o E) \o B = N \o from_version(c, v)
  BY <1>5, <1>12, <1>14, <1>15
<1>. QED
  BY <1>1, <1>4, <1>16 DEF N

-----------------------------------------------------------------------------
(* The invariant: what is left of the stream when import has come so far.   *)

\* The configuration c has been built, and its filter fits into the memory.
Exported(c) ==
  /\ is_ok(build(asked)) /\ c = build(asked).value
  /\ bytes_of_filter(c) <= UsizeMax

\* Version v of the crate could write c.
Written(c, v) == v \in Nat /\ existed(c, v)

\* What is read as version a is in the format of version v.
Format(a, v) == a \in Nat /\ (a < 2000 <=> v < 2000) /\ (a < 2002 <=> v < 2002)

\* The builder when the fields have been read so far.
builder_of(c, lru, ttl, counter) ==
  [fingerprint_bits |-> Cardinality(c.fields["fp"].in_value_mask),
   bucket_size |-> c.bucket_size, max_entries |-> c.bucket_count * c.bucket_size,
   max_kicks |-> c.max_kicks, lru |-> lru, ttl |-> ttl, counter |-> counter]

whole_builder(c) == builder_of(c, c.lru, c.ttl, c.counter)

\* The next part is that of the LRU, that of the TTL, that of the counter, or the end.
AtLru(c, v) ==
  c.lru # None /\ builder = builder_of(c, None, None, None) /\ Kept(from_lru(c, v))

AtTtl(c) ==
  c.ttl # None /\ builder = builder_of(c, c.lru, None, None) /\ Kept(from_ttl(c))

AtCounter(c) ==
  /\ c.counter # None
  /\ builder = builder_of(c, c.lru, c.ttl, None) /\ Kept(from_counter(c))

AtEnd(c) == builder = whole_builder(c) /\ Kept(from_end(c))

\* The filter has a configuration in which the exported buckets can be read.
Imported ==
  /\ builder \in ConfigurationBuilders /\ is_ok(build(builder))
  /\ used.builder \in ConfigurationBuilders /\ is_ok(build(used.builder))
  /\ used.config = build(used.builder).value
  /\ compatible_layout(used.config, build(builder).value)

HasherStage ==
  \E c \in {configuration}, v \in Versions, name \in HasherNames :
    Exported(c) /\ Written(c, v) /\ Kept(<<name>> \o from_version(c, v))

VersionStage ==
  \E c \in {configuration}, v \in Versions :
    Exported(c) /\ Written(c, v) /\ Kept(from_version(c, v))

HeaderStage ==
  \E c \in {configuration}, v \in Versions :
    /\ Exported(c) /\ Written(c, v)
    /\ \/ stream = << >>
       \/ Format(version, v) /\ Kept(from_header(c, v))

FieldsStage ==
  \E c \in {configuration}, v \in Versions :
    /\ Exported(c) /\ Written(c, v) /\ Format(version, v)
    /\ AtLru(c, v) \/ AtTtl(c) \/ AtCounter(c) \/ AtEnd(c)

BucketsStage ==
  /\ Imported
  /\ \E c \in {configuration} :
       /\ Exported(c)
       /\ \/ stream = << >> /\ cut
          \/ builder = whole_builder(c) /\ Kept(bucket_units(c))

ImportedStage ==
  /\ Imported /\ stream = << >> /\ cut = FALSE
  /\ \E c \in {configuration} : Exported(c) /\ builder = whole_builder(c)

StreamInv ==
  /\ TypeOK
  /\ phase = "export" => is_ok(build(asked)) /\ configuration = build(asked).value
  /\ configuration # None => is_ok(build(asked))
  /\ phase = "hasher" => HasherStage
  /\ phase = "version" => VersionStage
  /\ phase = "header" => HeaderStage
  /\ phase = "fields" => FieldsStage
  /\ phase = "buckets" => BucketsStage
  /\ phase = "imported" => ImportedStage

\* What is exported is a configuration, and its slots can be counted
\* (config.rs, get_expected_memory_usage).
LEMMA ExportedType ==
  ASSUME UsizeFits, asked \in Builders, NEW c, Exported(c)
  PROVE  /\ asked \in ConfigurationBuilders /\ ConfigType(c)
         /\ Cardinality(c.fields["fp"].in_value_mask) = asked.fingerprint_bits
         /\ c.bucket_size = asked.bucket_size /\ c.max_kicks = asked.max_kicks
         /\ c.lru = asked.lru /\ c.ttl = asked.ttl /\ c.counter = asked.counter
         /\ c.bucket_count * c.bucket_size \in 0 .. UsizeMax
<1>1. asked \in ConfigurationBuilders /\ is_ok(build(asked)) /\ c = build(asked).value
  BY StreamConstants DEF Exported
<1>2. /\ ConfigType(c) /\ Cardinality(c.fields["fp"].in_value_mask) = asked.fingerprint_bits
      /\ c.bucket_size <= c.bucket_byte_size
  BY <1>1, BuiltType
<1>3. /\ c.bucket_size = asked.bucket_size /\ c.max_kicks = asked.max_kicks
      /\ c.lru = asked.lru /\ c.ttl = asked.ttl /\ c.counter = asked.counter
  BY <1>1, Built
<1>4. c.bucket_count * c.bucket_size \in 0 .. UsizeMax
  <2> DEFINE n == c.bucket_count
             s == c.bucket_size
             d == c.bucket_byte_size
             o == BucketOverhead
  <2>1. n \in Nat \ {0} /\ s \in Nat \ {0} /\ d \in Nat \ {0} /\ s <= d /\ o \in Nat
    BY <1>2, ConfigConstants DEF ConfigType
  <2>2. FilterOverhead + o * n + d * n <= UsizeMax
    BY DEF Exported, bytes_of_filter
  <2> HIDE DEF n, s, d, o
  <2>3. o * n \in Nat /\ d * n \in Nat /\ n * s \in Nat /\ d - s \in Nat
    BY <2>1
  <2>4. d * n = n * s + (d - s) * n /\ (d - s) * n \in Nat
    BY <2>1, <2>3
  <2>5. n * s <= UsizeMax
    BY <2>2, <2>3, <2>4, ConfigConstants
  <2>. QED
    BY <2>3, <2>5, ConfigConstants DEF n, s
<1>. QED
  BY <1>1, <1>2, <1>3, <1>4

\* Import fills builders that are builders, at whichever field it stops.
LEMMA BuilderType ==
  ASSUME UsizeFits, asked \in Builders, NEW c, Exported(c),
         NEW lru \in {None, c.lru}, NEW ttl \in {None, c.ttl}, NEW counter \in {None, c.counter}
  PROVE  builder_of(c, lru, ttl, counter) \in ConfigurationBuilders
<1>1. /\ ConfigType(c) /\ asked \in ConfigurationBuilders
      /\ Cardinality(c.fields["fp"].in_value_mask) = asked.fingerprint_bits
      /\ c.bucket_size = asked.bucket_size /\ c.max_kicks = asked.max_kicks
      /\ c.bucket_count * c.bucket_size \in 0 .. UsizeMax
  BY ExportedType
<1>2. /\ asked.fingerprint_bits \in BitCount /\ asked.bucket_size \in 1 .. UsizeMax
      /\ asked.max_kicks \in 0 .. UsizeMax
  BY <1>1 DEF ConfigurationBuilders
<1>3. /\ lru \in LruConfigs \cup {None} /\ ttl \in TtlConfigs \cup {None}
      /\ counter \in CounterConfigs \cup {None}
  BY <1>1 DEF ConfigType
<1>. QED
  BY <1>1, <1>2, <1>3 DEF builder_of, ConfigurationBuilders

\* The whole of it builds what was exported.
LEMMA WholeBuilds ==
  ASSUME UsizeFits, asked \in Builders, NEW c, Exported(c)
  PROVE  /\ whole_builder(c) \in ConfigurationBuilders
         /\ build(whole_builder(c)) = build(asked)
         /\ widths(whole_builder(c)) = widths(asked)
<1> DEFINE e == whole_builder(c)
<1>1. e \in ConfigurationBuilders
  BY BuilderType DEF whole_builder
<1>2. /\ asked \in ConfigurationBuilders
      /\ Cardinality(c.fields["fp"].in_value_mask) = asked.fingerprint_bits
      /\ c.bucket_size = asked.bucket_size /\ c.max_kicks = asked.max_kicks
      /\ c.lru = asked.lru /\ c.ttl = asked.ttl /\ c.counter = asked.counter
  BY ExportedType
<1>3. e = [asked EXCEPT !.max_entries = c.bucket_count * asked.bucket_size]
  BY <1>2 DEF whole_builder, builder_of, ConfigurationBuilders
<1>4. is_ok(build(asked)) /\ c = build(asked).value
  BY DEF Exported
<1>5. e = [asked EXCEPT !.max_entries = build(asked).value.bucket_count * asked.bucket_size]
  BY <1>3, <1>4
<1>6. build(e) = build(asked)
  BY <1>1, <1>2, <1>4, <1>5, Rebuilt
<1>7. widths(e) = widths(asked)
  <2>1. /\ e.fingerprint_bits = asked.fingerprint_bits /\ e.lru = asked.lru
        /\ e.ttl = asked.ttl /\ e.counter = asked.counter
    BY <1>2 DEF whole_builder, builder_of
  <2> HIDE DEF e
  <2>2. widths(e) \in [Fields -> 0 .. 32] /\ widths(asked) \in [Fields -> 0 .. 32]
    BY <1>1, <1>2, WidthTypes
  <2>3. \A f \in Fields : widths(e)[f] = widths(asked)[f]
    BY <2>1 DEF widths, Fields
  <2>. QED
    BY <2>2, <2>3
<1>. QED
  BY <1>1, <1>6, <1>7

-----------------------------------------------------------------------------
(* The steps. *)

\* A refusal ends the import and changes nothing else.
LEMMA RefuseStep ==
  ASSUME StreamInv, Refuse
  PROVE  StreamInv'
<1>1. TypeOK'
  BY DEF StreamInv, Refuse, TypeOK, Phases
<1>2. configuration' # None => is_ok(build(asked))'
  BY DEF StreamInv, Refuse
<1>3. phase' = "refused"
  BY DEF Refuse
<1>. QED
  BY <1>1, <1>2, <1>3 DEF StreamInv

\* build() makes the configuration of the filter (config.rs).
LEMMA BuildStep ==
  ASSUME StreamInv, Build
  PROVE  StreamInv'
<1>1. CASE ~is_ok(build(asked)) /\ Refuse
  BY <1>1, RefuseStep
<1>2. CASE is_ok(build(asked)) /\ phase' = "export" /\ configuration' = build(asked).value
           /\ UNCHANGED <<asked, cut, stream, version, builder, used>>
  <2>1. TypeOK'
    BY <1>2 DEF StreamInv, TypeOK, Phases
  <2>2. is_ok(build(asked))'
    BY <1>2
  <2>. QED
    BY <1>2, <2>1, <2>2 DEF StreamInv
<1>. QED
  BY <1>1, <1>2 DEF Build

\* The medium keeps a part of the export (exporter.rs, export).
LEMMA ExportStep ==
  ASSUME UsizeFits, StreamInv, Export
  PROVE  StreamInv'
<1> DEFINE whole(name, v) == export(configuration, name, v)
<1>1. /\ phase = "export" /\ bytes_of_filter(configuration) <= UsizeMax /\ phase' = "hasher"
      /\ UNCHANGED <<asked, configuration, version, builder, used>>
  BY DEF Export
<1>2. PICK v \in Versions, name \in HasherNames :
        /\ existed(configuration, v)
        /\ \E n \in 0 .. Len(whole(name, v)) :
             /\ stream' = SubSeq(whole(name, v), 1, n)
             /\ cut' = (n < Len(whole(name, v)))
  BY DEF Export
<1>3. PICK c \in {configuration} : TRUE
  OBVIOUS
<1>4. asked \in Builders /\ Exported(c) /\ Written(c, v)
  <2>1. v \in Nat
    BY StreamConstants
  <2>. QED
    BY <1>1, <1>2, <1>3, <2>1 DEF StreamInv, TypeOK, Exported, Written
<1>5. Exported(c)' /\ Written(c, v)
  BY <1>1, <1>4 DEF Exported
<1>6. whole(name, v) = <<name>> \o from_version(c, v)
  BY <1>3, <1>4, ExportedType, ExportParts DEF Written
<1>7. Kept(<<name>> \o from_version(c, v))'
  BY <1>2, <1>6 DEF Kept
<1>8. HasherStage'
  BY <1>1, <1>3, <1>5, <1>7 DEF HasherStage
<1>9. TypeOK'
  <2>1. cut' \in BOOLEAN
    BY <1>2
  <2>. QED
    BY <1>1, <2>1 DEF StreamInv, TypeOK, Phases
<1>10. configuration' # None => is_ok(build(asked))'
  BY <1>1 DEF StreamInv
<1>. QED
  BY <1>1, <1>8, <1>9, <1>10 DEF StreamInv

\* The hasher is read, and the configuration is next (exporter.rs, read_hasher_from).
LEMMA ReadHasherStep ==
  ASSUME UsizeFits, StreamInv, ReadHasher
  PROVE  StreamInv'
<1>1. PICK name \in HasherNames :
        \/ ~(stream # << >> /\ Head(stream) = name) /\ Refuse
        \/ /\ stream # << >> /\ stream' = rest(1) /\ phase' = "version"
           /\ UNCHANGED <<asked, configuration, cut, version, builder, used>>
  BY DEF ReadHasher
<1>2. CASE Refuse
  BY <1>2, RefuseStep
<1>3. CASE /\ stream # << >> /\ stream' = rest(1) /\ phase' = "version"
           /\ UNCHANGED <<asked, configuration, cut, version, builder, used>>
  <2>1. HasherStage /\ asked \in Builders
    BY DEF ReadHasher, StreamInv, TypeOK
  <2>2. PICK c \in {configuration}, v \in Versions, written \in HasherNames :
          Exported(c) /\ Written(c, v) /\ Kept(<<written>> \o from_version(c, v))
    BY <2>1 DEF HasherStage
  <2>3. ConfigType(c) /\ v \in Nat
    BY <2>1, <2>2, ExportedType DEF Written
  <2>4. <<written>> \in Seq(Units) /\ from_version(c, v) \in Seq(Units)
    BY <2>3, ExportParts, PartTypes
  <2>5. Len(<<written>>) = 1
    OBVIOUS
  <2>6. Len(stream) >= 1
    <3>1. Len(stream) \in Nat /\ (stream = << >> <=> Len(stream) = 0)
      BY <2>2, <2>4, KeptBegin
    <3>. QED
      BY <1>3, <3>1
  <2>7. Kept(from_version(c, v))'
    <3>1. stream' = rest(Len(<<written>>)) /\ Len(stream) >= Len(<<written>>) /\ cut' = cut
      BY <1>3, <2>5, <2>6
    <3>. QED
      BY <2>2, <2>4, <3>1, KeptRest
  <2>8. Exported(c)' /\ Written(c, v) /\ c \in {configuration}'
    BY <1>3, <2>2 DEF Exported
  <2>9. VersionStage'
    BY <2>7, <2>8 DEF VersionStage
  <2>10. TypeOK' /\ (configuration' # None => is_ok(build(asked))')
    BY <1>3 DEF StreamInv, TypeOK, Phases
  <2>. QED
    BY <1>3, <2>9, <2>10 DEF StreamInv
<1>. QED
  BY <1>1, <1>2, <1>3

\* The version is read, or it is that of the exports that have none (exporter.rs,
\* read_from).
LEMMA ReadVersionStep ==
  ASSUME UsizeFits, StreamInv, ReadVersion
  PROVE  StreamInv'
<1>1. VersionStage /\ asked \in Builders
  BY DEF ReadVersion, StreamInv, TypeOK
<1>2. PICK c \in {configuration}, v \in Versions :
        Exported(c) /\ Written(c, v) /\ Kept(from_version(c, v))
  BY <1>1 DEF VersionStage
<1>3. ConfigType(c) /\ v \in Nat
  BY <1>1, <1>2, ExportedType DEF Written
<1> DEFINE a == version_units(v)
           h == header(c)
           w == from_header(c, v)
<1>4. a \in Seq(Units) /\ w \in Seq(Units) /\ from_version(c, v) = a \o w
  BY <1>3, VersionPart, PartTypes DEF from_version
<1>5. v < 2000 => a = << >>
  BY <1>3, VersionPart
<1>6. v >= 2000 => Len(a) = 4 /\ a[1] = 0 /\ version_of(a) = v
  BY <1>3, VersionPart
<1>7. Kept(a \o w)
  BY <1>2, <1>4
<1>8. /\ stream \in Seq(Units) /\ Len(stream) \in Nat
      /\ \A i \in 1 .. Len(a) : i <= Len(stream) => stream[i] = a[i]
      /\ stream = << >> <=> Len(stream) = 0
      /\ stream # << >> => Head(stream) = stream[1]
  BY <1>4, <1>7, KeptBegin
<1> HIDE DEF a
<1>9. CASE Refuse
  BY <1>9, RefuseStep
<1>10. ASSUME phase' = "header", UNCHANGED <<asked, configuration, cut, builder, used>>,
             version' \in {1000, v},
             stream' = << >> \/ (Format(version', v) /\ Kept(w)')
      PROVE  StreamInv'
  <2>1. Exported(c)' /\ Written(c, v) /\ c \in {configuration}'
    BY <1>2, <1>10 DEF Exported
  <2>2. HeaderStage'
    BY <1>10, <2>1 DEF HeaderStage
  <2>3. TypeOK' /\ (configuration' # None => is_ok(build(asked))')
    BY <1>10 DEF StreamInv, TypeOK, Phases
  <2>. QED
    BY <1>10, <2>2, <2>3 DEF StreamInv
<1>11. CASE /\ has_version /\ Len(stream) >= 4
            /\ version' = version_of(stream)
            /\ stream' = rest(4) /\ phase' = "header"
            /\ UNCHANGED <<asked, configuration, cut, builder, used>>
  <2>1. v >= 2000
    <3> SUFFICES ASSUME v < 2000 PROVE FALSE
      BY <1>3
    <3>1. from_version(c, v) = w
      BY <1>4, <1>5, ConcatEmptySeq
    <3>2. /\ h \in Seq(Units) /\ from_lru(c, v) \in Seq(Units) /\ Len(h) = 4
          /\ h[1] \in BitCount /\ w = h \o from_lru(c, v)
      BY <1>3, HeaderPart, PartTypes DEF from_header, ConfigType
    <3> HIDE DEF h, w
    <3>3. Kept(h \o from_lru(c, v))
      BY <1>2, <3>1 DEF w, h, from_header
    <3>4. h \in Seq(Units) /\ from_lru(c, v) \in Seq(Units)
      BY <3>2
    <3>5. \A i \in 1 .. Len(h) : i <= Len(stream) => stream[i] = h[i]
      BY <3>3, <3>4, KeptBegin
    <3>6. stream[1] = h[1]
      <4>1. Len(stream) >= 1 /\ Len(h) = 4 /\ Len(stream) \in Nat
        BY <1>8, <1>11, <3>2
      <4>. QED
        BY <3>5, <4>1
    <3>7. stream[1] = 0
      BY <1>8, <1>11 DEF has_version
    <3>8. h[1] \in 1 .. 32
      BY <3>2 DEF BitCount
    <3>. QED
      BY <3>6, <3>7, <3>8
  <2>2. Len(a) = 4 /\ version_of(a) = v
    BY <1>6, <2>1
  <2>3. version_of(stream) = v
    <3>1. stream[2] = a[2] /\ stream[3] = a[3] /\ stream[4] = a[4]
      BY <1>8, <1>11, <2>2
    <3>. QED
      BY <2>2, <3>1, SMT DEF version_of
  <2>4. Kept(w)'
    <3>1. stream' = rest(Len(a)) /\ Len(stream) >= Len(a) /\ cut' = cut
      BY <1>8, <1>11, <2>2
    <3> HIDE DEF w
    <3>. QED
      BY <1>4, <1>7, <3>1, KeptRest
  <2>5. Format(version', v)
    BY <1>3, <1>11, <2>3 DEF Format
  <2>. QED
    BY <1>10, <1>11, <2>3, <2>4, <2>5
<1>12. CASE /\ ~has_version /\ version' = 1000 /\ phase' = "header"
            /\ UNCHANGED <<asked, configuration, cut, stream, builder, used>>
  <2>1. CASE stream = << >>
    BY <1>10, <1>12, <2>1
  <2>2. CASE stream # << >>
    <3>1. v < 2000
      <4> SUFFICES ASSUME v >= 2000 PROVE FALSE
        BY <1>3
      <4>1. Len(a) = 4 /\ a[1] = 0
        BY <1>6
      <4>2. Len(stream) >= 1 /\ 1 \in 1 .. Len(a) /\ a[1] = 0
        BY <1>8, <2>2, <4>1
      <4>3. Head(stream) = 0
        BY <1>8, <2>2, <4>2
      <4>. QED
        BY <1>12, <2>2, <4>3 DEF has_version
    <3>2. Kept(w)
      BY <1>4, <1>5, <1>7, <3>1, ConcatEmptySeq
    <3> HIDE DEF w
    <3>3. Kept(w)'
      BY <1>12, <3>2 DEF Kept
    <3>4. Format(version', v)
      BY <1>3, <1>12, <3>1 DEF Format
    <3>. QED
      BY <1>10, <1>12, <3>3, <3>4
  <2>. QED
    BY <2>1, <2>2
<1>. QED
  BY <1>9, <1>11, <1>12, SMT DEF ReadVersion, version_of

\* After the counter comes the end (exporter.rs, read_from).
LEMMA AfterTtl ==
  ASSUME NEW c, ConfigType(c), builder' = builder_of(c, c.lru, c.ttl, None),
         Kept(from_counter(c))'
  PROVE  AtCounter(c)' \/ AtEnd(c)'
<1>1. CASE c.counter # None
  BY <1>1 DEF AtCounter
<1>2. CASE c.counter = None
  <2>1. from_end(c) \in Seq(Units)
    BY PartTypes
  <2>2. from_counter(c) = from_end(c)
    BY <1>2, <2>1, ConcatEmptySeq DEF from_counter, counter_part
  <2>3. Kept(from_end(c))'
    BY <2>2
  <2>4. builder' = whole_builder(c)
    BY <1>2 DEF whole_builder
  <2>. QED
    BY <2>3, <2>4 DEF AtEnd
<1>. QED
  BY <1>1, <1>2

\* After the LRU comes the TTL, the counter or the end.
LEMMA AfterLru ==
  ASSUME NEW c, ConfigType(c), builder' = builder_of(c, c.lru, None, None),
         Kept(from_ttl(c))'
  PROVE  AtTtl(c)' \/ AtCounter(c)' \/ AtEnd(c)'
<1>1. CASE c.ttl # None
  BY <1>1 DEF AtTtl
<1>2. CASE c.ttl = None
  <2>1. from_counter(c) \in Seq(Units)
    BY PartTypes
  <2>2. from_ttl(c) = from_counter(c)
    BY <1>2, <2>1, ConcatEmptySeq DEF from_ttl, ttl_part
  <2>3. Kept(from_counter(c))'
    BY <2>2
  <2>4. builder' = builder_of(c, c.lru, c.ttl, None)
    BY <1>2
  <2>. QED
    BY <2>3, <2>4, AfterTtl
<1>. QED
  BY <1>1, <1>2

\* After the header comes the LRU, the TTL, the counter or the end.
LEMMA AfterHeader ==
  ASSUME NEW c, ConfigType(c), NEW v \in Nat, builder' = builder_of(c, None, None, None),
         Kept(from_lru(c, v))'
  PROVE  AtLru(c, v)' \/ AtTtl(c)' \/ AtCounter(c)' \/ AtEnd(c)'
<1>1. CASE c.lru # None
  BY <1>1 DEF AtLru
<1>2. CASE c.lru = None
  <2>1. from_ttl(c) \in Seq(Units)
    BY PartTypes
  <2>2. from_lru(c, v) = from_ttl(c)
    BY <1>2, <2>1, ConcatEmptySeq DEF from_lru, lru_part
  <2>3. Kept(from_ttl(c))'
    BY <2>2
  <2>4. builder' = builder_of(c, c.lru, None, None)
    BY <1>2
  <2>. QED
    BY <2>3, <2>4, AfterLru
<1>. QED
  BY <1>1, <1>2

\* The next unit is the tag, or the stream has been cut before it.
Starts(tag) == IF stream = << >> THEN cut ELSE Head(stream) = tag

\* What comes next is known by its tag.
LEMMA TagTells ==
  ASSUME NEW c, ConfigType(c), NEW v \in Nat
  PROVE  /\ AtLru(c, v) => Starts(1)
         /\ AtTtl(c) => Starts(2)
         /\ AtCounter(c) => Starts(3)
         /\ AtEnd(c) => Starts(10)
<1>1. ASSUME NEW a \in Seq(Units), NEW w \in Seq(Units), Kept(a \o w), Len(a) \in Nat, Len(a) >= 1
      PROVE  Starts(a[1])
  <2>1. /\ stream \in Seq(Units) /\ Len(stream) \in Nat
        /\ \A i \in 1 .. Len(a) : i <= Len(stream) => stream[i] = a[i]
        /\ stream = << >> <=> Len(stream) = 0
        /\ stream # << >> => Head(stream) = stream[1]
        /\ Len(stream) < Len(a) => cut
    BY <1>1, KeptBegin
  <2>2. CASE stream = << >>
    BY <1>1, <2>1, <2>2 DEF Starts
  <2>3. CASE stream # << >>
    <3>1. Len(stream) >= 1 /\ 1 \in 1 .. Len(a)
      BY <1>1, <2>1, <2>3
    <3>. QED
      BY <2>1, <2>3, <3>1 DEF Starts
  <2>. QED
    BY <2>2, <2>3
<1>2. ASSUME AtLru(c, v) PROVE Starts(1)
  <2> DEFINE a == <<1>> \o lru_units(c.lru, v)
  <2>1. c.lru \in LruConfigs /\ lru_part(c, v) = a
    BY <1>2 DEF AtLru, ConfigType, lru_part
  <2>2. a \in Seq(Units) /\ a[1] = 1 /\ Len(a) \in Nat /\ Len(a) >= 1
    <3>1. a \in Seq(Units) /\ Len(a) \in Nat /\ a[1] = 1
      BY <2>1, LruPart DEF LruWritten
    <3>2. Len(a) >= 1
      <4>1. CASE v < 2000
        BY <2>1, <4>1, LruPart DEF LruWritten
      <4>2. CASE v >= 2000 /\ v < 2002
        BY <2>1, <4>2, LruPart DEF LruWritten
      <4>3. CASE v >= 2002
        BY <2>1, <4>3, LruPart DEF LruWritten
      <4>. QED
        BY <4>1, <4>2, <4>3
    <3>. QED
      BY <3>1, <3>2
  <2>3. Kept(a \o from_ttl(c)) /\ from_ttl(c) \in Seq(Units)
    BY <1>2, <2>1, PartTypes DEF AtLru, from_lru
  <2> HIDE DEF a
  <2>. QED
    BY <1>1, <2>2, <2>3
<1>3. ASSUME AtTtl(c) PROVE Starts(2)
  <2> DEFINE a == <<2>> \o ttl_units(c.ttl)
  <2>1. c.ttl \in TtlConfigs /\ ttl_part(c) = a
    BY <1>3 DEF AtTtl, ConfigType, ttl_part
  <2>2. a \in Seq(Units) /\ a[1] = 2 /\ Len(a) = 3
    BY <2>1, TtlPart
  <2>3. Kept(a \o from_counter(c)) /\ from_counter(c) \in Seq(Units)
    BY <1>3, <2>1, PartTypes DEF AtTtl, from_ttl
  <2> HIDE DEF a
  <2>. QED
    BY <1>1, <2>2, <2>3
<1>4. ASSUME AtCounter(c) PROVE Starts(3)
  <2> DEFINE a == <<3>> \o counter_units(c.counter)
  <2>1. c.counter \in CounterConfigs /\ counter_part(c) = a
    BY <1>4 DEF AtCounter, ConfigType, counter_part
  <2>2. a \in Seq(Units) /\ a[1] = 3 /\ Len(a) = 4
    BY <2>1, CounterPart
  <2>3. Kept(a \o from_end(c)) /\ from_end(c) \in Seq(Units)
    BY <1>4, <2>1, PartTypes DEF AtCounter, from_counter
  <2> HIDE DEF a
  <2>. QED
    BY <1>1, <2>2, <2>3
<1>5. ASSUME AtEnd(c) PROVE Starts(10)
  <2> DEFINE a == <<newline>>
  <2>1. a \in Seq(Units) /\ a[1] = 10 /\ Len(a) = 1
    BY PartTypes DEF newline
  <2>2. Kept(a \o bucket_units(c)) /\ bucket_units(c) \in Seq(Units)
    BY <1>5, BucketPart DEF AtEnd, from_end
  <2> HIDE DEF a
  <2>. QED
    BY <1>1, <2>1, <2>2
<1>. QED
  BY <1>2, <1>3, <1>4, <1>5

\* A step to a next field keeps the invariant.
LEMMA FieldsOn ==
  ASSUME UsizeFits, StreamInv, NEW c \in {configuration}, NEW v \in Versions,
         Exported(c), Written(c, v), Format(version, v), phase' = "fields",
         UNCHANGED <<asked, configuration, cut, version, used>>,
         AtLru(c, v)' \/ AtTtl(c)' \/ AtCounter(c)' \/ AtEnd(c)'
  PROVE  StreamInv'
<1>1. Exported(c)' /\ c \in {configuration}' /\ Format(version, v)'
  BY DEF Exported
<1>2. FieldsStage'
  BY <1>1 DEF FieldsStage
<1>3. builder' \in ConfigurationBuilders
  <2>1. \E lru \in {None, c.lru}, ttl \in {None, c.ttl}, counter \in {None, c.counter} :
          builder' = builder_of(c, lru, ttl, counter)
    BY DEF AtLru, AtTtl, AtCounter, AtEnd, whole_builder
  <2>2. asked \in Builders
    BY DEF StreamInv, TypeOK
  <2>. QED
    BY <2>1, <2>2, BuilderType
<1>4. TypeOK' /\ (configuration' # None => is_ok(build(asked))')
  BY <1>3 DEF StreamInv, TypeOK, Phases
<1>. QED
  BY <1>2, <1>4 DEF StreamInv

\* The four numbers of the header are those of the configuration (exporter.rs,
\* read_from).
LEMMA ReadHeaderStep ==
  ASSUME UsizeFits, StreamInv, ReadHeader
  PROVE  StreamInv'
<1>1. CASE Refuse
  BY <1>1, RefuseStep
<1>2. CASE /\ Len(stream) >= 4
           /\ builder' = [fingerprint_bits |-> stream[1], bucket_size |-> stream[2],
                          max_entries |-> stream[3], max_kicks |-> stream[4],
                          lru |-> None, ttl |-> None, counter |-> None]
           /\ stream' = rest(4) /\ phase' = "fields"
           /\ UNCHANGED <<asked, configuration, cut, version, used>>
  <2>1. HeaderStage /\ asked \in Builders
    BY DEF ReadHeader, StreamInv, TypeOK
  <2>2. PICK c \in {configuration}, v \in Versions :
          /\ Exported(c) /\ Written(c, v)
          /\ \/ stream = << >>
             \/ Format(version, v) /\ Kept(from_header(c, v))
    BY <2>1 DEF HeaderStage
  <2>3. stream # << >>
    <3>1. Len(<< >>) = 0
      OBVIOUS
    <3>. QED
      BY <1>2, <3>1
  <2>4. Format(version, v) /\ Kept(from_header(c, v))
    BY <2>2, <2>3
  <2>5. ConfigType(c) /\ v \in Nat
    BY <2>1, <2>2, ExportedType DEF Written
  <2> DEFINE a == header(c)
             w == from_lru(c, v)
  <2>6. a \in Seq(Units) /\ w \in Seq(Units) /\ Kept(a \o w)
    BY <2>4, <2>5, HeaderPart, PartTypes DEF from_header
  <2>7. /\ Len(a) = 4 /\ a[1] = Cardinality(c.fields["fp"].in_value_mask)
        /\ a[2] = c.bucket_size /\ a[3] = c.bucket_count * c.bucket_size
        /\ a[4] = c.max_kicks
    BY <2>5, HeaderPart
  <2> HIDE DEF a, w
  <2>8. Len(stream) \in Nat /\ \A i \in 1 .. Len(a) : i <= Len(stream) => stream[i] = a[i]
    BY <2>6, KeptBegin
  <2>9. /\ stream[1] = a[1] /\ stream[2] = a[2] /\ stream[3] = a[3] /\ stream[4] = a[4]
    <3>1. Len(a) = 4
      BY <2>7
    <3>. QED
      BY <1>2, <2>8, <3>1
  <2>10. builder' = builder_of(c, None, None, None)
    BY <1>2, <2>7, <2>9 DEF builder_of
  <2>11. Kept(w)'
    <3>1. stream' = rest(Len(a)) /\ Len(stream) >= Len(a) /\ cut' = cut
      BY <1>2, <2>7
    <3>. QED
      BY <2>6, <3>1, KeptRest
  <2>12. AtLru(c, v)' \/ AtTtl(c)' \/ AtCounter(c)' \/ AtEnd(c)'
    BY <2>5, <2>10, <2>11, AfterHeader DEF w
  <2>. QED
    BY <1>2, <2>2, <2>4, <2>12, FieldsOn
<1>. QED
  BY <1>1, <1>2 DEF ReadHeader

\* What is read of the LRU is what was written, in every format (exporter.rs,
\* LruConfig::read_from).
LEMMA LruRead ==
  ASSUME NEW lru \in LruConfigs, NEW v \in Nat, Format(version, v),
         v < 2002 =>
           /\ lru.aging_strategy = Halving /\ lru.starting_value = 1 /\ lru.increment = 1
           /\ v < 2000 => ~lru.remove_on_zero,
         NEW a, LruWritten(a, lru, v), Len(stream) \in Nat,
         \A i \in 1 .. Len(a) : i <= Len(stream) => stream[i] = a[i],
         Len(stream) > lru_length
  PROVE  /\ Len(a) = lru_length + 1 /\ lru_read = lru
         /\ Len(stream) >= Len(a) /\ 2 \in 1 .. Len(a)
<1>1. /\ version \in Nat /\ (version < 2000 <=> v < 2000) /\ (version < 2002 <=> v < 2002)
  BY DEF Format
<1>2. LruWritten(a, lru, v)
  OBVIOUS
<1>3. /\ lru.remove_on_zero \in BOOLEAN
      /\ lru.aging_strategy = [decrement |-> lru.aging_strategy.decrement]
  <2>1. lru.remove_on_zero \in BOOLEAN /\ lru.aging_strategy \in LruAgingStrategies
    BY DEF LruConfigs
  <2>. QED
    BY <2>1 DEF LruAgingStrategies
<1>4. lru = [counter_bits |-> lru.counter_bits, remove_on_zero |-> lru.remove_on_zero,
             aging_strategy |-> lru.aging_strategy, starting_value |-> lru.starting_value,
             increment |-> lru.increment]
  BY DEF LruConfigs
<1>5. bit(lru.remove_on_zero) # 0 <=> lru.remove_on_zero
  BY DEF bit
<1> DEFINE n == lru_length
           z == (version >= 2000 /\ stream[3] # 0)
           s == (IF n = 6 THEN [decrement |-> stream[5]] ELSE Halving)
           x == (IF version >= 2002 THEN stream[n] ELSE 1)
           y == (IF version >= 2002 THEN stream[n + 1] ELSE 1)
<1>6. lru_read = [counter_bits |-> stream[2], remove_on_zero |-> z, aging_strategy |-> s,
                  starting_value |-> x, increment |-> y]
  BY DEF lru_read
<1>7. n = IF version < 2000 THEN 1
          ELSE IF version < 2002 THEN 2
          ELSE IF Len(stream) >= 4 /\ stream[4] = 2 THEN 6 ELSE 5
  BY DEF lru_length
<1>8. n \in 1 .. 6 /\ Len(stream) > n
  BY <1>7
<1> HIDE DEF n
<1>9. SUFFICES /\ Len(a) = n + 1 /\ stream[2] = lru.counter_bits /\ (z <=> lru.remove_on_zero)
               /\ s = lru.aging_strategy /\ x = lru.starting_value /\ y = lru.increment
  <2>1. z = lru.remove_on_zero
    BY <1>3, <1>9
  <2> HIDE DEF z, s, x, y
  <2>2. lru_read = lru
    BY <1>4, <1>6, <1>9, <2>1
  <2>3. Len(a) = n + 1 /\ Len(stream) >= Len(a) /\ 2 \in 1 .. Len(a)
    BY <1>8, <1>9
  <2>. QED
    BY <2>2, <2>3 DEF n
<1>10. CASE v < 2000
  <2>1. version < 2000 /\ version < 2002 /\ n = 1 /\ Len(a) = 2 /\ v < 2002
    BY <1>1, <1>2, <1>7, <1>10 DEF LruWritten
  <2>2. stream[2] = a[2]
    BY <1>8, <2>1
  <2>. QED
    BY <1>1, <1>2, <1>10, <2>1, <2>2 DEF LruWritten
<1>11. CASE v >= 2000 /\ v < 2002
  <2>1. version >= 2000 /\ version < 2002 /\ n = 2 /\ Len(a) = 3
    BY <1>1, <1>2, <1>7, <1>11 DEF LruWritten
  <2>2. stream[2] = a[2] /\ stream[3] = a[3]
    BY <1>8, <2>1
  <2>. QED
    BY <1>1, <1>2, <1>5, <1>11, <2>1, <2>2 DEF LruWritten
<1>12. CASE v >= 2002 /\ lru.aging_strategy = Halving
  <2>1. version >= 2002 /\ Len(a) = 6 /\ a[4] = 1 /\ a[3] = bit(lru.remove_on_zero)
    BY <1>1, <1>2, <1>12 DEF LruWritten
  <2>2. Len(stream) >= 4 => stream[4] = 1
    BY <2>1
  <2>3. n = 5
    BY <1>1, <1>7, <2>1, <2>2
  <2>4. stream[2] = a[2] /\ stream[3] = a[3] /\ stream[5] = a[5] /\ stream[6] = a[6]
    BY <1>8, <2>1, <2>3
  <2>. QED
    BY <1>1, <1>2, <1>5, <1>12, <2>1, <2>3, <2>4 DEF LruWritten
<1>13. CASE v >= 2002 /\ lru.aging_strategy # Halving
  <2>1. version >= 2002 /\ Len(a) = 7 /\ a[4] = 2 /\ a[3] = bit(lru.remove_on_zero)
    BY <1>1, <1>2, <1>13 DEF LruWritten
  <2>2. n \in {5, 6}
    BY <1>1, <1>7, <2>1
  <2>3. stream[4] = 2
    BY <1>8, <2>1, <2>2
  <2>4. n = 6
    BY <1>1, <1>7, <1>8, <2>1, <2>2, <2>3
  <2>5. /\ stream[2] = a[2] /\ stream[3] = a[3] /\ stream[5] = a[5]
        /\ stream[6] = a[6] /\ stream[7] = a[7]
    BY <1>8, <2>1, <2>4
  <2>. QED
    BY <1>1, <1>2, <1>3, <1>5, <1>13, <2>1, <2>4, <2>5 DEF LruWritten
<1>. QED
  BY <1>10, <1>11, <1>12, <1>13

\* The settings of the LRU are read (exporter.rs, LruConfig::read_from).
LEMMA ReadLruStep ==
  ASSUME UsizeFits, StreamInv, ReadLru
  PROVE  StreamInv'
<1>1. at_tag(1) /\ ReadField(lru_length, stream[2] \in BitCount, [builder EXCEPT !.lru = lru_read])
  BY DEF ReadLru
<1>2. CASE Refuse
  BY <1>2, RefuseStep
<1>3. CASE /\ Len(stream) > lru_length
           /\ builder' = [builder EXCEPT !.lru = lru_read]
           /\ stream' = rest(lru_length + 1)
           /\ UNCHANGED <<phase, asked, configuration, cut, version, used>>
  <2>1. FieldsStage /\ asked \in Builders /\ phase = "fields" /\ stream # << >>
        /\ Head(stream) = 1
    BY <1>1 DEF at_tag, StreamInv, TypeOK
  <2>2. PICK c \in {configuration}, v \in Versions :
          /\ Exported(c) /\ Written(c, v) /\ Format(version, v)
          /\ AtLru(c, v) \/ AtTtl(c) \/ AtCounter(c) \/ AtEnd(c)
    BY <2>1 DEF FieldsStage
  <2>3. ConfigType(c) /\ v \in Nat /\ existed(c, v)
    BY <2>1, <2>2, ExportedType DEF Written
  <2>4. AtLru(c, v)
    BY <2>1, <2>2, <2>3, TagTells DEF Starts
  <2> DEFINE a == <<1>> \o lru_units(c.lru, v)
             w == from_ttl(c)
  <2>5. c.lru \in LruConfigs /\ c.lru # None /\ builder = builder_of(c, None, None, None)
    BY <2>3, <2>4 DEF AtLru, ConfigType
  <2>6. a \in Seq(Units) /\ w \in Seq(Units) /\ Kept(a \o w)
    <3>1. lru_part(c, v) = a
      BY <2>5 DEF lru_part
    <3>2. Kept(from_lru(c, v))
      BY <2>4 DEF AtLru
    <3>. QED
      BY <2>3, <2>5, <3>1, <3>2, LruPart, PartTypes DEF from_lru, LruWritten
  <2>7. Len(stream) \in Nat /\ \A i \in 1 .. Len(a) : i <= Len(stream) => stream[i] = a[i]
    <3> HIDE DEF a, w
    <3>. QED
      BY <2>6, KeptBegin
  <2>8. v < 2002 =>
          /\ c.lru.aging_strategy = Halving /\ c.lru.starting_value = 1
          /\ c.lru.increment = 1 /\ (v < 2000 => ~c.lru.remove_on_zero)
    BY <2>3, <2>5 DEF existed
  <2>9. Len(a) = lru_length + 1 /\ lru_read = c.lru /\ Len(stream) >= Len(a)
    <3>1. LruWritten(a, c.lru, v)
      BY <2>3, <2>5, LruPart
    <3>2. c.lru \in LruConfigs /\ v \in Nat /\ Format(version, v) /\ Len(stream) > lru_length
      BY <1>3, <2>2, <2>3, <2>5
    <3> HIDE DEF a
    <3>. QED
      BY <2>7, <2>8, <3>1, <3>2, LruRead
  <2>10. builder' = builder_of(c, c.lru, None, None)
    BY <1>3, <2>5, <2>9 DEF builder_of
  <2>11. Kept(w)'
    <3> HIDE DEF a, w
    <3>1. stream' = rest(Len(a)) /\ cut' = cut
      BY <1>3, <2>9
    <3>. QED
      BY <2>6, <2>9, <3>1, KeptRest
  <2>12. AtTtl(c)' \/ AtCounter(c)' \/ AtEnd(c)'
    BY <2>3, <2>10, <2>11, AfterLru
  <2>13. phase' = "fields" /\ UNCHANGED <<asked, configuration, cut, version, used>>
    BY <1>3, <2>1
  <2>. QED
    BY <2>2, <2>12, <2>13, FieldsOn
<1>. QED
  BY <1>1, <1>2, <1>3 DEF ReadField

\* The settings of the TTL are read (exporter.rs, TtlConfig::read_from).
LEMMA ReadTtlStep ==
  ASSUME UsizeFits, StreamInv, ReadTtl
  PROVE  StreamInv'
<1> DEFINE read == [ttl |-> stream[2], ttl_bits |-> stream[3]]
<1>1. at_tag(2) /\ ReadField(2, stream[2] # 0 /\ stream[3] \in BitCount,
                             [builder EXCEPT !.ttl = read])
  BY DEF ReadTtl
<1>2. CASE Refuse
  BY <1>2, RefuseStep
<1>3. CASE /\ Len(stream) > 2 /\ builder' = [builder EXCEPT !.ttl = read]
           /\ stream' = rest(2 + 1)
           /\ UNCHANGED <<phase, asked, configuration, cut, version, used>>
  <2>1. FieldsStage /\ asked \in Builders /\ phase = "fields" /\ stream # << >>
        /\ Head(stream) = 2
    BY <1>1 DEF at_tag, StreamInv, TypeOK
  <2>2. PICK c \in {configuration}, v \in Versions :
          /\ Exported(c) /\ Written(c, v) /\ Format(version, v)
          /\ AtLru(c, v) \/ AtTtl(c) \/ AtCounter(c) \/ AtEnd(c)
    BY <2>1 DEF FieldsStage
  <2>3. ConfigType(c) /\ v \in Nat
    BY <2>1, <2>2, ExportedType DEF Written
  <2>4. AtTtl(c)
    BY <2>1, <2>2, <2>3, TagTells DEF Starts
  <2> DEFINE a == <<2>> \o ttl_units(c.ttl)
             w == from_counter(c)
  <2>5. c.ttl \in TtlConfigs /\ c.ttl # None /\ builder = builder_of(c, c.lru, None, None)
    BY <2>3, <2>4 DEF AtTtl, ConfigType
  <2>6. a \in Seq(Units) /\ w \in Seq(Units) /\ Kept(a \o w)
    <3>1. ttl_part(c) = a
      BY <2>5 DEF ttl_part
    <3>2. Kept(from_ttl(c))
      BY <2>4 DEF AtTtl
    <3>. QED
      BY <2>3, <2>5, <3>1, <3>2, TtlPart, PartTypes DEF from_ttl
  <2>7. Len(a) = 3 /\ a[2] = c.ttl.ttl /\ a[3] = c.ttl.ttl_bits
    BY <2>5, TtlPart
  <2>8. c.ttl = [ttl |-> c.ttl.ttl, ttl_bits |-> c.ttl.ttl_bits]
    BY <2>5 DEF TtlConfigs
  <2> HIDE DEF a, w
  <2>9. Len(stream) \in Nat /\ \A i \in 1 .. Len(a) : i <= Len(stream) => stream[i] = a[i]
    BY <2>6, KeptBegin
  <2>10. stream[2] = a[2] /\ stream[3] = a[3]
    BY <1>3, <2>7, <2>9
  <2>11. builder' = builder_of(c, c.lru, c.ttl, None)
    <3>1. read = c.ttl
      BY <2>7, <2>8, <2>10
    <3> HIDE DEF read
    <3>. QED
      BY <1>3, <2>5, <3>1 DEF builder_of
  <2>12. Kept(w)'
    <3>1. stream' = rest(Len(a)) /\ cut' = cut /\ Len(stream) >= Len(a)
      BY <1>3, <2>7, <2>9
    <3>. QED
      BY <2>6, <3>1, KeptRest
  <2>13. AtCounter(c)' \/ AtEnd(c)'
    BY <2>3, <2>11, <2>12, AfterTtl DEF w
  <2>14. phase' = "fields" /\ UNCHANGED <<asked, configuration, cut, version, used>>
    BY <1>3, <2>1
  <2>. QED
    BY <2>2, <2>13, <2>14, FieldsOn
<1>. QED
  BY <1>1, <1>2, <1>3 DEF ReadField

\* The settings of the counter are read (exporter.rs, CounterConfig::read_from).
LEMMA ReadCounterStep ==
  ASSUME UsizeFits, StreamInv, ReadCounter
  PROVE  StreamInv'
<1> DEFINE read == [counter_bits |-> stream[2], change_on_insert |-> stream[3],
                    change_on_lookup |-> stream[4]]
<1>1. at_tag(3) /\ ReadField(3, stream[2] \in BitCount, [builder EXCEPT !.counter = read])
  BY DEF ReadCounter
<1>2. CASE Refuse
  BY <1>2, RefuseStep
<1>3. CASE /\ Len(stream) > 3 /\ builder' = [builder EXCEPT !.counter = read]
           /\ stream' = rest(3 + 1)
           /\ UNCHANGED <<phase, asked, configuration, cut, version, used>>
  <2>1. FieldsStage /\ asked \in Builders /\ phase = "fields" /\ stream # << >>
        /\ Head(stream) = 3
    BY <1>1 DEF at_tag, StreamInv, TypeOK
  <2>2. PICK c \in {configuration}, v \in Versions :
          /\ Exported(c) /\ Written(c, v) /\ Format(version, v)
          /\ AtLru(c, v) \/ AtTtl(c) \/ AtCounter(c) \/ AtEnd(c)
    BY <2>1 DEF FieldsStage
  <2>3. ConfigType(c) /\ v \in Nat
    BY <2>1, <2>2, ExportedType DEF Written
  <2>4. AtCounter(c)
    BY <2>1, <2>2, <2>3, TagTells DEF Starts
  <2> DEFINE a == <<3>> \o counter_units(c.counter)
             w == from_end(c)
  <2>5. c.counter \in CounterConfigs /\ c.counter # None
        /\ builder = builder_of(c, c.lru, c.ttl, None)
    BY <2>3, <2>4 DEF AtCounter, ConfigType
  <2>6. a \in Seq(Units) /\ w \in Seq(Units) /\ Kept(a \o w)
    <3>1. counter_part(c) = a
      BY <2>5 DEF counter_part
    <3>2. Kept(from_counter(c))
      BY <2>4 DEF AtCounter
    <3>. QED
      BY <2>3, <2>5, <3>1, <3>2, CounterPart, PartTypes DEF from_counter
  <2>7. Len(a) = 4 /\ a[2] = c.counter.counter_bits /\ a[3] = c.counter.change_on_insert
        /\ a[4] = c.counter.change_on_lookup
    BY <2>5, CounterPart
  <2>8. c.counter = [counter_bits |-> c.counter.counter_bits,
                     change_on_insert |-> c.counter.change_on_insert,
                     change_on_lookup |-> c.counter.change_on_lookup]
    BY <2>5 DEF CounterConfigs
  <2> HIDE DEF a, w
  <2>9. Len(stream) \in Nat /\ \A i \in 1 .. Len(a) : i <= Len(stream) => stream[i] = a[i]
    BY <2>6, KeptBegin
  <2>10. stream[2] = a[2] /\ stream[3] = a[3] /\ stream[4] = a[4]
    BY <1>3, <2>7, <2>9
  <2>11. builder' = whole_builder(c)
    <3>1. read = c.counter
      BY <2>7, <2>8, <2>10
    <3> HIDE DEF read
    <3>. QED
      BY <1>3, <2>5, <3>1 DEF builder_of, whole_builder
  <2>12. Kept(w)'
    <3>1. stream' = rest(Len(a)) /\ cut' = cut /\ Len(stream) >= Len(a)
      BY <1>3, <2>7, <2>9
    <3>. QED
      BY <2>6, <3>1, KeptRest
  <2>13. AtEnd(c)'
    BY <2>11, <2>12 DEF AtEnd, w
  <2>14. phase' = "fields" /\ UNCHANGED <<asked, configuration, cut, version, used>>
    BY <1>3, <2>1
  <2>. QED
    BY <2>2, <2>13, <2>14, FieldsOn
<1>. QED
  BY <1>1, <1>2, <1>3 DEF ReadField

\* The end of the stream, or the tag of no field, ends the configuration
\* (exporter.rs, read_from).
LEMMA EndFieldsStep ==
  ASSUME UsizeFits, StreamInv, EndFields
  PROVE  StreamInv'
<1>1. CASE Refuse
  BY <1>1, RefuseStep
<1>2. CASE /\ is_ok(build(builder))
           /\ stream' = IF stream = << >> THEN stream ELSE rest(1)
           /\ used' = [builder |-> builder, config |-> build(builder).value]
           /\ phase' = "buckets"
           /\ UNCHANGED <<asked, configuration, cut, version, builder>>
  <2>1. FieldsStage /\ asked \in Builders /\ ~(stream # << >> /\ Head(stream) \in 1 .. 3)
    BY DEF EndFields, StreamInv, TypeOK
  <2>2. PICK c \in {configuration}, v \in Versions :
          /\ Exported(c) /\ Written(c, v) /\ Format(version, v)
          /\ AtLru(c, v) \/ AtTtl(c) \/ AtCounter(c) \/ AtEnd(c)
    BY <2>1 DEF FieldsStage
  <2>3. ConfigType(c) /\ v \in Nat
    BY <2>1, <2>2, ExportedType DEF Written
  <2>4. builder \in ConfigurationBuilders
    <3>1. \E lru \in {None, c.lru}, ttl \in {None, c.ttl}, counter \in {None, c.counter} :
            builder = builder_of(c, lru, ttl, counter)
      BY <2>2 DEF AtLru, AtTtl, AtCounter, AtEnd, whole_builder
    <3>. QED
      BY <2>1, <2>2, <3>1, BuilderType
  <2>5. Exported(c)' /\ c \in {configuration}'
    BY <1>2, <2>2 DEF Exported
  <2>6. Imported'
    BY <1>2, <2>4 DEF Imported, compatible_layout, field_compatible
  <2>7. (stream = << >> /\ cut)' \/ (builder = whole_builder(c) /\ Kept(bucket_units(c)))'
    <3>1. CASE stream = << >>
      <4>1. cut
        BY <2>2, <2>3, <3>1, TagTells DEF Starts
      <4>. QED
        BY <1>2, <3>1, <4>1
    <3>2. CASE stream # << >>
      <4>1. AtEnd(c)
        BY <2>1, <2>2, <2>3, <3>2, TagTells DEF Starts
      <4> DEFINE a == <<newline>>
                 w == bucket_units(c)
      <4>2. a \in Seq(Units) /\ w \in Seq(Units) /\ Kept(a \o w)
        BY <2>3, <4>1, BucketPart, PartTypes DEF AtEnd, from_end
      <4>3. Len(a) = 1
        OBVIOUS
      <4> HIDE DEF a, w
      <4>4. Len(stream) \in Nat /\ (stream = << >> <=> Len(stream) = 0)
        BY <4>2, KeptBegin
      <4>5. stream' = rest(Len(a)) /\ cut' = cut /\ Len(stream) >= Len(a)
        BY <1>2, <3>2, <4>3, <4>4
      <4>6. Kept(w)'
        BY <4>2, <4>5, KeptRest
      <4>. QED
        BY <1>2, <4>1, <4>6 DEF AtEnd, w
    <3>. QED
      BY <3>1, <3>2
  <2>8. BucketsStage'
    BY <2>5, <2>6, <2>7 DEF BucketsStage
  <2>9. TypeOK' /\ (configuration' # None => is_ok(build(asked))')
    BY <1>2, <2>4 DEF StreamInv, TypeOK, Phases
  <2>. QED
    BY <1>2, <2>8, <2>9 DEF StreamInv
<1>. QED
  BY <1>1, <1>2 DEF EndFields

\* A program goes on with a compatible configuration of its own (config.rs,
\* compatible_layout).
LEMMA ImportAsStep ==
  ASSUME UsizeFits, StreamInv, ImportAs
  PROVE  StreamInv'
<1>1. /\ phase = "buckets" /\ used.builder = builder
      /\ UNCHANGED <<phase, asked, configuration, cut, stream, version, builder>>
  BY DEF ImportAs
<1>2. PICK mine \in OwnBuilders :
        /\ is_ok(build(mine)) /\ compatible_layout(build(mine).value, used.config)
        /\ used' = [builder |-> mine, config |-> build(mine).value]
  BY DEF ImportAs
<1>3. BucketsStage
  BY <1>1 DEF StreamInv
<1>4. mine \in ConfigurationBuilders
  BY StreamConstants
<1>5. Imported'
  BY <1>1, <1>2, <1>3, <1>4 DEF BucketsStage, Imported
<1>6. PICK c \in {configuration} :
        /\ Exported(c)
        /\ \/ stream = << >> /\ cut
           \/ builder = whole_builder(c) /\ Kept(bucket_units(c))
  BY <1>3 DEF BucketsStage
<1>7. Exported(c)' /\ c \in {configuration}'
  BY <1>1, <1>6 DEF Exported
<1>8. Kept(bucket_units(c)) => Kept(bucket_units(c))'
  BY <1>1 DEF Kept
<1>9. BucketsStage'
  BY <1>1, <1>5, <1>6, <1>7, <1>8 DEF BucketsStage
<1>10. TypeOK' /\ (configuration' # None => is_ok(build(asked))')
  BY <1>1, <1>2, <1>4 DEF StreamInv, TypeOK, Phases
<1>. QED
  BY <1>1, <1>9, <1>10 DEF StreamInv

\* The buckets are read if they are all there, and then nothing has been cut off
\* (filter.rs, import_state).
LEMMA ReadBucketsStep ==
  ASSUME UsizeFits, StreamInv, ReadBuckets
  PROVE  StreamInv'
<1> DEFINE n == used.config.bucket_count * used.config.bucket_byte_size
<1>1. CASE Refuse
  BY <1>1, RefuseStep
<1>2. CASE /\ Len(stream) >= n /\ stream' = rest(n) /\ phase' = "imported"
           /\ UNCHANGED <<asked, configuration, cut, version, builder, used>>
  <2>1. BucketsStage /\ asked \in Builders
    BY DEF ReadBuckets, StreamInv, TypeOK
  <2>2. PICK c \in {configuration} :
          /\ Exported(c)
          /\ \/ stream = << >> /\ cut
             \/ builder = whole_builder(c) /\ Kept(bucket_units(c))
    BY <2>1 DEF BucketsStage
  <2>3. Imported
    BY <2>1 DEF BucketsStage
  <2>4. n = build(builder).value.bucket_count * build(builder).value.bucket_byte_size
    BY <2>3 DEF Imported, compatible_layout
  <2>5. n \in Nat \ {0}
    <3>1. ConfigType(build(builder).value)
      BY <2>3, BuiltType DEF Imported
    <3>. QED
      BY <2>4, <3>1, BucketPart
  <2>6. ~(stream = << >>)
    <3>1. Len(<< >>) = 0
      OBVIOUS
    <3> HIDE DEF n
    <3>. QED
      BY <1>2, <2>5, <3>1
  <2>7. builder = whole_builder(c) /\ Kept(bucket_units(c))
    BY <2>2, <2>6
  <2>8. n = c.bucket_count * c.bucket_byte_size
    BY <2>1, <2>2, <2>4, <2>7, WholeBuilds DEF Exported
  <2> DEFINE w == bucket_units(c)
  <2>9. w \in Seq(Units) /\ Len(w) = n
    BY <2>1, <2>2, <2>8, ExportedType, BucketPart
  <2> HIDE DEF n, w
  <2>10. Len(stream) \in 0 .. Len(w) /\ cut = (Len(stream) < Len(w))
    BY <2>7, <2>9, KeptUnits DEF w
  <2>11. Len(stream) = n
    BY <1>2, <2>5, <2>9, <2>10
  <2>12. cut' = FALSE
    <3>1. cut <=> Len(stream) < Len(w)
      BY <2>10, Zenon
    <3>2. ~cut
      BY <2>5, <2>9, <2>11, <3>1
    <3>3. cut \in BOOLEAN
      BY DEF StreamInv, TypeOK
    <3>. QED
      BY <1>2, <3>2, <3>3
  <2>13. stream' = << >>
    <3>1. stream' = SubSeq(stream, n + 1, n)
      BY <1>2, <2>11 DEF rest
    <3>. QED
      BY <2>5, <3>1, SubSeqEmpty
  <2>14. Imported' /\ Exported(c)' /\ c \in {configuration}' /\ builder' = whole_builder(c)
    BY <1>2, <2>2, <2>3, <2>7 DEF Imported, Exported
  <2>15. ImportedStage'
    BY <2>12, <2>13, <2>14 DEF ImportedStage
  <2>16. TypeOK' /\ (configuration' # None => is_ok(build(asked))')
    BY <1>2 DEF StreamInv, TypeOK, Phases
  <2>. QED
    BY <1>2, <2>15, <2>16 DEF StreamInv
<1>. QED
  BY <1>1, <1>2 DEF ReadBuckets

\* Every step of Spec keeps the invariant.
LEMMA StreamInvStep ==
  ASSUME UsizeFits, StreamInv, [Next]_vars
  PROVE  StreamInv'
<1>1. CASE Build
  BY <1>1, BuildStep
<1>2. CASE Export
  BY <1>2, ExportStep
<1>3. CASE ReadHasher
  BY <1>3, ReadHasherStep
<1>4. CASE ReadVersion
  BY <1>4, ReadVersionStep
<1>5. CASE ReadHeader
  BY <1>5, ReadHeaderStep
<1>6. CASE ReadLru
  BY <1>6, ReadLruStep
<1>7. CASE ReadTtl
  BY <1>7, ReadTtlStep
<1>8. CASE ReadCounter
  BY <1>8, ReadCounterStep
<1>9. CASE EndFields
  BY <1>9, EndFieldsStep
<1>10. CASE ImportAs
  BY <1>10, ImportAsStep
<1>11. CASE ReadBuckets
  BY <1>11, ReadBucketsStep
<1>12. CASE UNCHANGED vars
  <2>1. UNCHANGED <<phase, asked, configuration, cut, stream, version, builder, used>>
    BY <1>12 DEF vars
  <2>2. \A units : Kept(units) <=> Kept(units)'
    BY <2>1 DEF Kept
  <2>3. HasherStage => HasherStage'
    BY <2>1, <2>2 DEF HasherStage, Exported
  <2>4. VersionStage => VersionStage'
    BY <2>1, <2>2 DEF VersionStage, Exported
  <2>5. HeaderStage => HeaderStage'
    BY <2>1, <2>2 DEF HeaderStage, Exported
  <2>6. FieldsStage => FieldsStage'
    BY <2>1, <2>2 DEF FieldsStage, Exported, AtLru, AtTtl, AtCounter, AtEnd
  <2>7. Imported => Imported'
    BY <2>1 DEF Imported
  <2>8. BucketsStage => BucketsStage'
    BY <2>1, <2>2, <2>7 DEF BucketsStage, Exported
  <2>9. ImportedStage => ImportedStage'
    BY <2>1, <2>7 DEF ImportedStage, Exported
  <2>10. TypeOK'
    BY <2>1 DEF StreamInv, TypeOK
  <2>. QED
    BY <2>1, <2>3, <2>4, <2>5, <2>6, <2>8, <2>9, <2>10 DEF StreamInv
<1>. QED
  BY <1>1, <1>2, <1>3, <1>4, <1>5, <1>6, <1>7, <1>8, <1>9, <1>10, <1>11, <1>12 DEF Next

\* The invariant holds in every state of Spec.
LEMMA StreamInvHolds ==
  ASSUME UsizeFits
  PROVE  Spec => []StreamInv
<1>1. Init => StreamInv
  <2>1. Init => TypeOK
    <3> SUFFICES ASSUME Init PROVE TypeOK
      OBVIOUS
    <3>1. /\ phase = "build" /\ asked \in Builders /\ cut = FALSE /\ version = 0
          /\ configuration = None /\ builder = None /\ used = Unused
      BY DEF Init
    <3>2. phase \in Phases
      BY <3>1 DEF Phases
    <3>. QED
      BY <3>1, <3>2 DEF TypeOK
  <2>2. Init => phase = "build" /\ configuration = None
    BY DEF Init
  <2>. QED
    BY <2>1, <2>2 DEF StreamInv
<1>2. StreamInv /\ [Next]_vars => StreamInv'
  BY StreamInvStep
<1>. QED
  BY <1>1, <1>2, PTL DEF Spec

-----------------------------------------------------------------------------
(* Theorems. *)

\* What is read is a version and a builder, whatever the stream is: no width that
\* BitCount and no number that NonZero refuses gets into a configuration (exporter.rs).
THEOREM StreamTypeCorrect ==
  ASSUME UsizeFits
  PROVE  Spec => []TypeOK
<1>1. StreamInv => TypeOK
  BY DEF StreamInv
<1>. QED
  BY <1>1, StreamInvHolds, PTL

\* An import from which something has been cut off is refused (exporter.rs:349).
THEOREM CutsAreRefused ==
  ASSUME UsizeFits
  PROVE  Spec => []CutRefused
<1>1. StreamInv => CutRefused
  BY DEF StreamInv, CutRefused, ImportedStage
<1>. QED
  BY <1>1, StreamInvHolds, PTL

\* A filter is imported with the configuration it was exported with, whichever
\* version wrote it (exporter.rs, write_to and read_from).
THEOREM ExportsComeBack ==
  ASSUME UsizeFits
  PROVE  Spec => []RoundTrip
<1>1. StreamInv => RoundTrip
  <2> SUFFICES ASSUME StreamInv, phase = "imported"
               PROVE  stream = << >> /\ (used.builder = builder => used.config = configuration)
    BY DEF RoundTrip
  <2>1. ImportedStage /\ asked \in Builders
    BY DEF StreamInv, TypeOK
  <2>2. PICK c \in {configuration} : Exported(c) /\ builder = whole_builder(c)
    BY <2>1 DEF ImportedStage
  <2>3. build(builder) = build(asked)
    BY <2>1, <2>2, WholeBuilds
  <2>. QED
    BY <2>1, <2>2, <2>3 DEF ImportedStage, Imported, Exported
<1>. QED
  BY <1>1, StreamInvHolds, PTL

\* A program that imports with a compatible configuration of its own finds each
\* field where it was written (config.rs:448).
THEOREM CompatibleLayoutsAgree ==
  ASSUME UsizeFits
  PROVE  Spec => []CompatibleReadsFields
<1>1. StreamInv => CompatibleReadsFields
  <2> SUFFICES ASSUME StreamInv, phase = "imported"
               PROVE  /\ widths(used.builder) = widths(asked)
                      /\ used.config.bucket_size = configuration.bucket_size
                      /\ used.config.bucket_count = configuration.bucket_count
    BY DEF CompatibleReadsFields
  <2>1. ImportedStage /\ asked \in Builders
    BY DEF StreamInv, TypeOK
  <2>2. PICK c \in {configuration} : Exported(c) /\ builder = whole_builder(c)
    BY <2>1 DEF ImportedStage
  <2>3. build(builder) = build(asked) /\ widths(builder) = widths(asked)
    BY <2>1, <2>2, WholeBuilds
  <2>4. Imported
    BY <2>1 DEF ImportedStage
  <2> DEFINE x == build(used.builder).value
             y == build(builder).value
  <2>5. /\ x.fields = field_configs(widths(used.builder))
        /\ y.fields = field_configs(widths(builder))
    BY <2>4, Built DEF Imported
  <2>6. /\ used.config = x /\ configuration = y
        /\ x.bucket_size = y.bucket_size /\ x.bucket_count = y.bucket_count
        /\ \A f \in Fields : x.fields[f] = y.fields[f]
    BY <2>2, <2>3, <2>4 DEF Imported, Exported, compatible_layout, field_compatible
  <2> HIDE DEF x, y
  <2>7. widths(used.builder) = widths(builder)
    BY <2>4, <2>5, <2>6, LayoutsTell DEF Imported
  <2>. QED
    BY <2>3, <2>6, <2>7
<1>. QED
  BY <1>1, StreamInvHolds, PTL

\* The mask of the bucket count is not cut to fewer bits (config.rs, buckets_mask).
MaskFits ==
  \A b \in Builders : is_ok(build(b)) => build(b).value.bucket_count <= U32Max + 1

\* The mask is one less than the number of buckets (config.rs, build).
LEMMA MaskIsLess ==
  ASSUME UsizeFits, MaskFits, NEW b \in Builders, is_ok(build(b))
  PROVE  build(b).value.buckets_mask + 1 = build(b).value.bucket_count
<1> DEFINE n == build(b).value.bucket_count
           m == U32Max + 1
<1>1. n \in Nat \ {0} /\ build(b).value.buckets_mask = (n - 1) % m
  BY StreamConstants, Built
<1>2. n <= m /\ m \in Nat \ {0}
  BY ConfigConstants DEF MaskFits
<1> HIDE DEF n, m
<1>3. (n - 1) % m = n - 1
  BY <1>1, <1>2
<1>. QED
  BY <1>1, <1>3 DEF n

\* The buckets that indices reach have room for what was asked for (config.rs:522).
THEOREM BucketsSuffice ==
  ASSUME UsizeFits, MaskFits
  PROVE  Spec => []CapacitySuffices
<1>1. StreamInv => CapacitySuffices
  <2> SUFFICES ASSUME StreamInv, configuration # None
               PROVE  (configuration.buckets_mask + 1) * configuration.bucket_size
                        >= asked.max_entries
    BY DEF CapacitySuffices
  <2>1. /\ asked \in Builders /\ asked \in ConfigurationBuilders /\ is_ok(build(asked))
        /\ configuration = build(asked).value
    BY StreamConstants DEF StreamInv, TypeOK
  <2> DEFINE n == configuration.bucket_count
             s == asked.bucket_size
             r == required_bucket_count(asked)
             e == asked.max_entries
  <2>2. n \in Nat /\ configuration.bucket_size = s /\ r <= n
    BY <2>1, Built
  <2>3. configuration.buckets_mask + 1 = n
    BY <2>1, MaskIsLess
  <2>4. r \in Nat /\ r * s >= e /\ s \in Nat /\ e \in Nat
    BY <2>1, RoundsUp, ConfigConstants DEF ConfigurationBuilders
  <2> HIDE DEF n, s, r, e
  <2>5. n * s = r * s + (n - r) * s /\ (n - r) * s \in Nat /\ r * s \in Nat
    BY <2>2, <2>4
  <2>6. n * s >= e
    BY <2>4, <2>5
  <2>. QED
    BY <2>2, <2>3, <2>6 DEF e
<1>. QED
  BY <1>1, StreamInvHolds, PTL

\* Half of a power of two of which the exponent is not 0.
LEMMA HalfPower ==
  ASSUME NEW k \in Nat \ {0}
  PROVE  k - 1 \in Nat /\ (2 ^ k) \div 2 = 2 ^ (k - 1)
<1> DEFINE p == 2 ^ (k - 1)
<1>1. k - 1 \in Nat /\ (k - 1) + 1 = k
  OBVIOUS
<1>2. p \in Nat /\ 2 ^ ((k - 1) + 1) = 2 * p
  BY <1>1, Powers
<1>3. 2 ^ k = 2 * p
  BY <1>1, <1>2
<1> HIDE DEF p
<1>4. (2 * p) \div 2 = p
  BY <1>2
<1>. QED
  BY <1>1, <1>3, <1>4 DEF p

\* The mask covers exactly the buckets, which are a power of two, and half of them
\* would be too few (config.rs:521, filter.rs:788).
THEOREM MaskCoversBuckets ==
  ASSUME UsizeFits, MaskFits
  PROVE  Spec => []BucketsMatchMask
<1>1. StreamInv => BucketsMatchMask
  <2> SUFFICES ASSUME StreamInv, configuration # None
               PROVE  /\ configuration.bucket_count = configuration.buckets_mask + 1
                      /\ \E k \in 0 .. 64 : configuration.bucket_count = 2 ^ k
                      /\ configuration.bucket_count > 1 =>
                           (configuration.bucket_count \div 2) * configuration.bucket_size
                             < asked.max_entries
    BY DEF BucketsMatchMask
  <2>1. /\ asked \in Builders /\ asked \in ConfigurationBuilders /\ is_ok(build(asked))
        /\ configuration = build(asked).value
    BY StreamConstants DEF StreamInv, TypeOK
  <2> DEFINE n == configuration.bucket_count
             s == asked.bucket_size
             r == required_bucket_count(asked)
             e == asked.max_entries
  <2>2. n \in Nat \ {0} /\ configuration.bucket_size = s
    BY <2>1, Built
  <2>3. PICK k \in 0 .. 64 : n = 2 ^ k /\ \A j \in 0 .. k - 1 : 2 ^ j < r
    BY <2>1, Built
  <2>4. configuration.buckets_mask + 1 = n
    BY <2>1, MaskIsLess
  <2>5. r \in Nat /\ (r - 1) * s < e /\ s \in Nat \ {0} /\ e \in Nat
    BY <2>1, RoundsUp, ConfigConstants DEF ConfigurationBuilders
  <2>6. ASSUME n > 1 PROVE (n \div 2) * s < e
    <3>1. k # 0
      <4> SUFFICES ASSUME k = 0 PROVE FALSE
        OBVIOUS
      <4>1. n = 2 ^ 0
        BY <2>3
      <4>2. n = 1
        BY <4>1, Powers
      <4> HIDE DEF n
      <4>. QED
        BY <2>6, <4>2
    <3>2. k \in Nat \ {0} /\ k - 1 \in 0 .. k - 1
      BY <3>1
    <3> DEFINE h == 2 ^ (k - 1)
    <3>3. n \div 2 = h /\ h \in Nat
      BY <2>3, <3>2, HalfPower, Powers
    <3>4. h < r
      BY <2>3, <3>2
    <3> HIDE DEF h, n, s, r, e
    <3>5. (r - 1) * s = h * s + ((r - 1) - h) * s /\ ((r - 1) - h) * s \in Nat /\ h * s \in Nat
      BY <2>5, <3>3, <3>4
    <3>6. h * s < e
      BY <2>5, <3>5
    <3>. QED
      BY <3>3, <3>6
  <2>7. \E j \in 0 .. 64 : n = 2 ^ j
    BY <2>3
  <2> HIDE DEF s, r, e
  <2>8. n > 1 => (n \div 2) * s < e
    BY <2>6
  <2>. QED
    BY <2>2, <2>4, <2>7, <2>8 DEF e
<1>. QED
  BY <1>1, StreamInvHolds, PTL
=============================================================================
