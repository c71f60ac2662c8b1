---------------------------- MODULE MCConfigStream ----------------------------
(***************************************************************************)
(* Small instances of the configuration and its export for TLC.            *)
(***************************************************************************)
EXTENDS ConfigStream

Lru(bits_, zero, strategy, starting, inc) ==
  [counter_bits |-> bits_, remove_on_zero |-> zero, aging_strategy |-> strategy,
   starting_value |-> starting, increment |-> inc]

\* The last two bring out the tags of other fields among the settings.
Lrus == {None, Lru(3, FALSE, Halving, 1, 1), Lru(4, TRUE, Halving, 1, 1),
         Lru(4, TRUE, Halving, 3, 2), Lru(3, FALSE, [decrement |-> 2], 1, 3)}

Ttls == {None, [ttl |-> 3, ttl_bits |-> 2], [ttl |-> 10, ttl_bits |-> 4]}

Counters == {None, [counter_bits |-> 4, change_on_insert |-> 1, change_on_lookup |-> -1]}

SmallBuilders ==
  [fingerprint_bits : {4, 5}, bucket_size : {1, 2}, max_entries : {0, 3, 4},
   max_kicks : {5}, lru : Lrus, ttl : Ttls, counter : Counters]

\* One field is resized against its neighbour, or a setting differs.
OtherBuilders ==
  [fingerprint_bits : {4, 5}, bucket_size : {2}, max_entries : {3, 4}, max_kicks : {7},
   lru : Lrus, ttl : {None, [ttl |-> 2, ttl_bits |-> 2]}, counter : {None}]

Plain == [fingerprint_bits |-> 8, bucket_size |-> 1, max_entries |-> 0, max_kicks |-> 5,
          lru |-> None, ttl |-> None, counter |-> None]

\* Sizes around the powers of two, and ones that are too big.
SizedBuilders ==
  {[Plain EXCEPT !.bucket_size = size, !.max_entries = n] :
     size \in {1, 2, 3, 4, 5, 200, 255}, n \in 0 .. 40 \cup 120 .. 140 \cup {254, 255}}
  \cup {[Plain EXCEPT !.bucket_size = size, !.fingerprint_bits = 20] : size \in {80, 90}}

AllBuilders == SmallBuilders \cup SizedBuilders
=============================================================================
