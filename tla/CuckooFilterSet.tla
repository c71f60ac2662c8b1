--------------------------- MODULE CuckooFilterSet ---------------------------
(***************************************************************************)
(* The filter implements CuckooSet: wherever a block is, in a slot or in   *)
(* the hand of a thread that moves it, it is one entry, and what a thread  *)
(* still has to do to the entries can be told from its section and locals. *)
(***************************************************************************)
EXTENDS CuckooFilter, Bags

data_of(d) == [lru |-> d.lru, ttl |-> d.ttl, counter |-> d.counter]

entry(d, i) == [item |-> token(d.fp, i), data |-> data_of(d)]

Places == ({"slot"} \X Occupied) \cup ({"hand"} \X {t \in Threads : Displaced(t)})

\* The entry of a slot, or of the hand of a thread.
entry_at(p) ==
  LET q == p[2]
  IN  IF p[1] = "slot" THEN entry(buckets[q[1]][q[2]], q[1])
                       ELSE entry(frame[q].hand, frame[q].index)

Entries ==
  [e \in {entry_at(p) : p \in Places} |-> Cardinality({p \in Places : entry_at(p) = e})]

Reports ==
  [t \in Threads |-> IF ret[t] \in [evicted : Fingerprint \ {0}] THEN ret[t].evicted ELSE None]

KeyItems ==
  {LET h == get_fingerprint_and_index(k) IN token(h.fp, h.index) : k \in Keys}

fresh == {data_of(new_data_block(FpMask, values)) : values \in InsertArgs}

\* What a lookup is asked to do: a TTL is cut to its field.
use(update) ==
  [ttl |-> IF update.ttl = None THEN None ELSE store_bits(TtlMask, update.ttl),
   by  |-> unwrap_or(update.counter_diff, ChangeOnLookup)]

ages(api) == [lru |-> ages_lru(api), ttl |-> ages_ttl(api)]

\* What a call that is to enter a section with locals f still has to do to the
\* entries; once it has only the counter to update, nothing.
call(section, f) ==
  LET item == token(f.fp, f.home)
  IN  CASE section \in {"look_i1", "look_i2"} /\ f.api # "insert_if_not_present" ->
             [op |-> "look", item |-> item, use |-> use(f.update)]
        [] section \in {"look_i1", "look_i2"} /\ f.api = "insert_if_not_present" ->
             [op |-> "ensure", item |-> item, data |-> data_of(f.hand), use |-> use(f.update)]
        [] section \in {"insert_i1", "insert_i2"} \/ (section = "kick" /\ f.kicks = 0) ->
             [op |-> "insert", item |-> item, data |-> data_of(f.hand)]
        [] section = "place" \/ (section = "kick" /\ f.kicks # 0) -> [op |-> "settle"]
        [] section \in {"remove_i1", "remove_i2"} -> [op |-> "remove", item |-> item]
        [] section = "scan" -> [op |-> "scan", scan |-> ages(f.api)]
        [] OTHER -> [op |-> "none"]

Calls == [t \in Threads |-> call(pc[t], frame[t])]

Set == INSTANCE CuckooSet WITH
  Clients <- Threads,
  Items <- KeyItems,
  Fresh <- fresh, Uses <- {use(update) : update \in LookupArgs},
  Scans <- {ages(api) : api \in ScanApis},
  LruMax <- LruMask, CounterMax <- CounterMask, Nothing <- None,
  entries <- Entries, calls <- Calls, report <- Reports

\* Kicks and the locking of one bucket at a time are invisible but for the misses
\* of the lookups: every step inserts, combines, touches, removes, reports as
\* evicted or ages entries as the call in progress that makes it was asked to, once
\* per call but for a scan, or changes nothing; no entry and no data is lost on
\* the way (filter.rs:447, 454; data_block.rs:374, 268).
ImplementsSet == Set!Spec
=============================================================================
