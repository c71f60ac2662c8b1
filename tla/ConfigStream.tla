---------------------------- MODULE ConfigStream ----------------------------
(***************************************************************************)
(* A configuration on its way through an export (src/src/exporter.rs): it  *)
(* is built, the filter made from it is exported, the stream may lose its  *)
(* end, and import reads hasher, configuration and buckets back.  The      *)
(* stream is the sequence of integers that write_all is called with; the   *)
(* bytes of the buckets are opaque.  A read of an integer fails if it is   *)
(* not there in full, so a stream that is cut inside an integer is as good *)
(* as one that is cut before it.                                           *)
(***************************************************************************)
EXTENDS CuckooConfig, Sequences, FiniteSets

CONSTANTS
  Builders,     \* what the program that exports asks for
  OwnBuilders,  \* what the program that imports asks for
  HasherNames,  \* H::NAME of the two programs
  Versions,     \* versions of the crate that write, 1000 * minor + patch
  Byte          \* a byte of a bucket

ASSUME StreamConstants ==
  /\ Builders \subseteq ConfigurationBuilders
  /\ OwnBuilders \subseteq ConfigurationBuilders
  /\ Versions \subseteq Nat
  /\ Byte \notin Int

VARIABLES
  phase,    \* what the program does next
  asked,    \* the builder of the filter that is exported
  configuration,   \* its configuration
  cut,      \* the stream has lost its end
  stream,   \* what is still to be read
  version,  \* version, while the stream is read
  builder,  \* the builder that read_from fills
  used      \* [builder, config] of the filter that is imported

vars == <<phase, asked, configuration, cut, stream, version, builder, used>>

-----------------------------------------------------------------------------
(* Writing. *)

bit(flag) == IF flag THEN 1 ELSE 0

strategy_units(s) == IF s = Halving THEN <<1>> ELSE <<2, s.decrement>>

\* LruConfig::write_to, and what is known of it from how read_from treats the
\* exports of older versions.
lru_units(lru, v) ==
  <<lru.counter_bits>>
    \o (IF v < 2000 THEN << >> ELSE <<bit(lru.remove_on_zero)>>)
    \o (IF v < 2002 THEN << >>
        ELSE strategy_units(lru.aging_strategy) \o <<lru.starting_value, lru.increment>>)

ttl_units(ttl) == <<ttl.ttl, ttl.ttl_bits>>

counter_units(c) == <<c.counter_bits, c.change_on_insert, c.change_on_lookup>>

\* Versions before 0.2.0 wrote no version.
version_units(v) ==
  IF v < 2000 THEN << >> ELSE <<0, v \div 1000000, (v \div 1000) % 1000, v % 1000>>

\* The width of the fingerprints is worked out from their mask.
config_units(c, v) ==
  version_units(v)
    \o <<Cardinality(c.fields["fp"].in_value_mask), c.bucket_size,
         c.bucket_count * c.bucket_size, c.max_kicks>>
    \o (IF c.lru = None THEN << >> ELSE <<1>> \o lru_units(c.lru, v))
    \o (IF c.ttl = None THEN << >> ELSE <<2>> \o ttl_units(c.ttl))
    \o (IF c.counter = None THEN << >> ELSE <<3>> \o counter_units(c.counter))

newline == 10

bucket_units(c) == [n \in 1 .. c.bucket_count * c.bucket_byte_size |-> Byte]

export(c, name, v) == <<name>> \o config_units(c, v) \o <<newline>> \o bucket_units(c)

\* Configurations that version v of the crate could have.
existed(c, v) ==
  c.lru # None /\ v < 2002 =>
    /\ c.lru.aging_strategy = Halving /\ c.lru.starting_value = 1 /\ c.lru.increment = 1
    /\ v < 2000 => ~c.lru.remove_on_zero

-----------------------------------------------------------------------------
Unused == [builder |-> None, config |-> None]

Init ==
  /\ phase = "build"
  /\ asked \in Builders
  /\ configuration = None /\ cut = FALSE /\ stream = << >>
  /\ version = 0 /\ builder = None /\ used = Unused

Refuse ==
  /\ phase' = "refused"
  /\ UNCHANGED <<asked, configuration, cut, stream, version, builder, used>>

Build ==
  /\ phase = "build"
  /\ \/ ~is_ok(build(asked)) /\ Refuse
     \/ /\ is_ok(build(asked))
        /\ configuration' = build(asked).value
        /\ phase' = "export"
        /\ UNCHANGED <<asked, cut, stream, version, builder, used>>

\* The filter fits into the memory.  The medium keeps the first n units.
Export ==
  /\ phase = "export"
  /\ bytes_of_filter(configuration) <= UsizeMax
  /\ \E v \in Versions, name \in HasherNames :
       /\ existed(configuration, v)
       /\ \E n \in 0 .. Len(export(configuration, name, v)) :
            /\ stream' = SubSeq(export(configuration, name, v), 1, n)
            /\ cut' = (n < Len(export(configuration, name, v)))
  /\ phase' = "hasher"
  /\ UNCHANGED <<asked, configuration, version, builder, used>>

-----------------------------------------------------------------------------
(* Reading.  A read that does not find what it needs ends the import with   *)
(* an error, but for the tag of a field: there the end of the stream ends   *)
(* the loop.                                                                *)

rest(n) == SubSeq(stream, n + 1, Len(stream))

\* read_hasher_from, of a program whose hasher has the given name.
ReadHasher ==
  /\ phase = "hasher"
  /\ \E name \in HasherNames :
       \/ ~(stream # << >> /\ Head(stream) = name) /\ Refuse
       \/ /\ stream # << >> /\ Head(stream) = name
          /\ stream' = rest(1)
          /\ phase' = "version"
          /\ UNCHANGED <<asked, configuration, cut, version, builder, used>>

has_version == stream # << >> /\ Head(stream) = 0

ReadVersion ==
  /\ phase = "version"
  /\ \/ has_version /\ Len(stream) < 4 /\ Refuse
     \/ /\ has_version /\ Len(stream) >= 4
        /\ version' = 1000000 * stream[2] + 1000 * stream[3] + stream[4]
        /\ stream' = rest(4)
        /\ phase' = "header"
        /\ UNCHANGED <<asked, configuration, cut, builder, used>>
     \/ /\ ~has_version
        /\ version' = 1000
        /\ phase' = "header"
        /\ UNCHANGED <<asked, configuration, cut, stream, builder, used>>

ReadHeader ==
  LET whole == Len(stream) >= 4 /\ stream[1] \in BitCount /\ stream[2] # 0
  IN  /\ phase = "header"
      /\ \/ ~whole /\ Refuse
         \/ /\ whole
            /\ builder' = [fingerprint_bits |-> stream[1], bucket_size |-> stream[2],
                           max_entries |-> stream[3], max_kicks |-> stream[4],
                           lru |-> None, ttl |-> None, counter |-> None]
            /\ stream' = rest(4)
            /\ phase' = "fields"
            /\ UNCHANGED <<asked, configuration, cut, version, used>>

at_tag(tag) == phase = "fields" /\ stream # << >> /\ Head(stream) = tag

\* The n units after the tag are there, and valid is what is required of them.
ReadField(n, valid, after) ==
  \/ ~(Len(stream) > n /\ valid) /\ Refuse
  \/ /\ Len(stream) > n /\ valid
     /\ builder' = after
     /\ stream' = rest(n + 1)
     /\ UNCHANGED <<phase, asked, configuration, cut, version, used>>

\* Mutant: the settings of the LRU are read from version 0.2.3 on.
lru_length_late ==
  IF version < 2000 THEN 1
  ELSE IF version < 2005 THEN 2
  ELSE IF Len(stream) >= 4 /\ stream[4] = 2 THEN 6 ELSE 5

\* How many units LruConfig::read_from takes.
lru_length ==
  IF version < 2000 THEN 1
  ELSE IF version < 2002 THEN 2
  ELSE IF Len(stream) >= 4 /\ stream[4] = 2 THEN 6 ELSE 5

\* Mutant: the increment is read where the starting value is.
lru_read_swapped ==
  LET n == lru_length
  IN  [counter_bits   |-> stream[2],
       remove_on_zero |-> version >= 2000 /\ stream[3] # 0,
       aging_strategy |-> IF n = 6 THEN [decrement |-> stream[5]] ELSE Halving,
       starting_value |-> IF version >= 2002 THEN stream[n + 1] ELSE 1,
       increment      |-> IF version >= 2002 THEN stream[n] ELSE 1]

\* LruConfig::read_from, with defaults for what older versions did not write.
lru_read ==
  LET n == lru_length
  IN  [counter_bits   |-> stream[2],
       remove_on_zero |-> version >= 2000 /\ stream[3] # 0,
       aging_strategy |-> IF n = 6 THEN [decrement |-> stream[5]] ELSE Halving,
       starting_value |-> IF version >= 2002 THEN stream[n] ELSE 1,
       increment      |-> IF version >= 2002 THEN stream[n + 1] ELSE 1]

ReadLru ==
  /\ at_tag(1)
  /\ ReadField(lru_length, stream[2] \in BitCount, [builder EXCEPT !.lru = lru_read])

ReadTtl ==
  /\ at_tag(2)
  /\ ReadField(2, stream[2] # 0 /\ stream[3] \in BitCount,
               [builder EXCEPT !.ttl = [ttl |-> stream[2], ttl_bits |-> stream[3]]])

ReadCounter ==
  /\ at_tag(3)
  /\ ReadField(3, stream[2] \in BitCount,
               [builder EXCEPT !.counter = [counter_bits |-> stream[2],
                                            change_on_insert |-> stream[3],
                                            change_on_lookup |-> stream[4]]])

\* The end of the stream or any other tag ends the configuration, which is built.
EndFields ==
  /\ phase = "fields"
  /\ ~(stream # << >> /\ Head(stream) \in 1 .. 3)
  /\ LET result == build(builder)
     IN  IF is_ok(result)
         THEN /\ stream' = IF stream = << >> THEN stream ELSE rest(1)
              /\ used' = [builder |-> builder, config |-> result.value]
              /\ phase' = "buckets"
              /\ UNCHANGED <<asked, configuration, cut, version, builder>>
         ELSE Refuse

\* A program that has called import_config goes on with a configuration of its
\* own, as compatible_layout allows.
ImportAs ==
  /\ phase = "buckets" /\ used.builder = builder
  /\ \E mine \in OwnBuilders :
       /\ is_ok(build(mine))
       /\ compatible_layout(build(mine).value, used.config)
       /\ used' = [builder |-> mine, config |-> build(mine).value]
  /\ UNCHANGED <<phase, asked, configuration, cut, stream, version, builder>>

\* Mutant: a stream that ends early gives fewer buckets.
ReadBuckets_short ==
  /\ phase = "buckets"
  /\ stream' = << >>
  /\ phase' = "imported"
  /\ UNCHANGED <<asked, configuration, cut, version, builder, used>>

\* import_state
ReadBuckets ==
  LET n == used.config.bucket_count * used.config.bucket_byte_size
  IN  /\ phase = "buckets"
      /\ \/ Len(stream) < n /\ Refuse
         \/ /\ Len(stream) >= n
            /\ stream' = rest(n)
            /\ phase' = "imported"
            /\ UNCHANGED <<asked, configuration, cut, version, builder, used>>

Next ==
  \/ Build \/ Export
  \/ ReadHasher \/ ReadVersion \/ ReadHeader \/ ReadLru \/ ReadTtl \/ ReadCounter
  \/ EndFields \/ ImportAs \/ ReadBuckets

Spec == Init /\ [][Next]_vars

-----------------------------------------------------------------------------
(* Properties. *)

Phases == {"build", "export", "hasher", "version", "header", "fields", "buckets",
           "imported", "refused"}

\* The program is in one of its phases, what is read of a stream is a version
\* and a builder with fields that BitCount and NonZero admit (exporter.rs).
TypeOK ==
  /\ phase \in Phases /\ asked \in Builders /\ cut \in BOOLEAN
  /\ configuration # None => configuration = build(asked).value
  /\ version \in {0, 1000} \cup Versions
  /\ builder # None => builder \in ConfigurationBuilders
  /\ used # Unused => used.builder \in ConfigurationBuilders

\* The buckets that the indices of keys reach have room for what was asked for:
\* "the actual capacity of the filter is usually bigger than the requested
\* capacity" (config.rs:522).
CapacitySuffices ==
  configuration # None =>
    (configuration.buckets_mask + 1) * configuration.bucket_size >= asked.max_entries

\* The number of buckets is the smallest power of two that is enough, so that the
\* mask of alt_index covers exactly the buckets (config.rs:521, filter.rs:788).
BucketsMatchMask ==
  configuration # None =>
    /\ configuration.bucket_count = configuration.buckets_mask + 1
    /\ \E k \in 0 .. 64 : configuration.bucket_count = 2 ^ k
    /\ configuration.bucket_count > 1 =>
         (configuration.bucket_count \div 2) * configuration.bucket_size < asked.max_entries

\* A filter is imported with the very configuration it was exported with, also
\* when an older version wrote it, and all its buckets are read (exporter.rs,
\* write_to and read_from; fuzz/fuzz_targets/filter_export.rs:33).
RoundTrip ==
  phase = "imported" =>
    stream = << >> /\ (used.builder = builder => used.config = configuration)

\* An import from which the medium has kept less than the whole is refused,
\* wherever the cut is: between two fields of the configuration it looks like the
\* end of the configuration at first (exporter.rs:349, filter.rs:195).
CutRefused == phase = "imported" => ~cut

\* A program may read buckets with a configuration of its own when the layouts
\* are compatible, and finds every field of every slot where it was written:
\* "filter exported by the other configuration can be imported and used with this
\* configuration" (config.rs:448).
CompatibleReadsFields ==
  phase = "imported" =>
    /\ widths(used.builder) = widths(asked)
    /\ used.config.bucket_size = configuration.bucket_size
    /\ used.config.bucket_count = configuration.bucket_count
=============================================================================
