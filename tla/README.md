# Verification of cuckoo-clock

TLA+ models of the cuckoo filter in `src/src/`, the TLC runs that check them on
small instances, and theorems that TLAPS proves for every instance.  File and
line numbers refer to `src/src/`.

    tlc -workers 2 -config core.cfg MCCuckooFilter     # any row of "Runs"
    tlapm CuckooFilterProofs.tla                       # any module with theorems (section 2)

## 1. The system

The crate is a cuckoo filter that several threads may use at once, whose items
carry a fingerprint and, if configured, an LRU counter, a TTL and a
user-controlled counter.

| Component | State | Operations |
|---|---|---|
| Slot (`data_block.rs`) | the bits of one slot: fingerprint, LRU, TTL, counter | load and store of bit fields, saturating updates, merge, aging, reset, swap |
| Bucket (`bucket.rs`) | a boxed byte array of `bucket_size` slots | `insert`, `kick_random`, `kick_lru`, `contains`, `get_associated_data`, `remove`, two agings, export, import |
| Filter (`filter.rs`) | a `Vec` of mutexes with one bucket each, an `AtomicUsize` of items, the configuration and the hasher (both constant) | `insert*`, `insert_if_not_present*`, `contains*`, `get_associated_data*`, `remove`, `scan_and_update_*`, `get_item_count`, export, import |
| Configuration (`config.rs`) | none after `build()` | `bucket_count`, masks, layout of the fields, errors, `compatible_layout` |
| Export and import (`exporter.rs`) | the stream | versioned configuration, then one bucket after the other |
| Associated data (`associated_data.rs`) | a copy of a slot | accessors |

**How they interact.**  A method hashes its key to a fingerprint and a first index
`i1`; the second index is `i1 xor hash(fingerprint)`, masked.  It locks the mutex of
a bucket, calls one method of the bucket, and unlocks it before it locks the next
one: a thread holds at most one mutex.  It updates the item counter after the last
unlock.  `insert` tries both buckets, then *kicks*: it swaps its block with a victim
in one bucket, unlocks, and goes with the victim to the victim's other bucket.
Scans and the exporter walk the buckets one lock at a time beside everything else.

**What is hard.**

* Between any two locks the other threads run.  The kicked block is then in no bucket.
  What a method saw under an earlier lock (the bucket was full, the key was absent) may
  be out of date.
* The counter and the slots change at different times, so the counter may pass zero
  from above before it comes right.
* `kick_random` takes any slot; the chain of kicks has to end and nothing may be dropped.
* Fields saturate, or are masked (TTL), at their widths, and an item must go with its TTL.
* Keys collide: same fingerprint and same pair of buckets are one item for the filter.
* The exporter runs the caller's writer under a lock and can fail half-way.

There is no timeout, no retry and no message in this code, and nothing
persists except what is exported.

**What makes each component correct.**

| Component | Correct if | State of the project |
|---|---|---|
| Slot | every operation keeps the other fields; values stay in their bits; a TTL of 0 is never stored with an item | operations modelled and proved well-typed; load and store on bytes proved to implement independent fields |
| Bucket | `insert` never overwrites another fingerprint; `kick_lru` picks a strictly less used block; aging counts exactly what it removes | modelled, checked; part proved |
| Filter | no fingerprint is lost but by a removal, a reported eviction or aging; a fingerprint stays where it is looked for; the counter follows the slots; calls return | modelled, checked; part proved |
| Filter's documentation | "definitely not present", "no duplicates", "actual number of items", "the item that was evicted" | hold for one thread that inserts with `insert_if_not_present`; refuted in general (section 6) |
| Filter as a whole | it is a bag of entries; kicks and locks are invisible but for the misses of lookups | checked, and proved, to refine `CuckooSet` |
| Scan | partitions cover every bucket once; an item ages once per round of scans | modelled, checked; proved for the items that stay where they are (section 6 says what happens to the others) |
| Configuration | sizes, masks and field positions agree; incompatible layouts are refused | modelled, checked; field positions and slot size proved |
| Export of the configuration | what is read is what was written, by this version or an older one; a stream that is cut is refused | modelled, checked |
| Export of the buckets | a restored filter has its fingerprints where they are looked for and an exact counter; a snapshot is made of states the buckets were in; a panic of the writer blocks nobody | modelled, checked |

## 2. Modules

| Module | Models |
|---|---|
| `DataBlock` | `data_block.rs` and the default values of `config.rs` that its operations use: a block is a record of the values of its fields |
| `Bucket` (extends `DataBlock`) | `bucket.rs`: each method as an operator from the bucket before to the bucket after, and the condition under which it returns true |
| `ScanPartitions` | the arithmetic of the partitions of `scan_and_update_*_partition` |
| `CuckooFilter` (extends `Bucket`, `ScanPartitions`) | `filter.rs`: the shared state, the threads' calls, all actions, the properties |
| `LookupHistory` (extends `CuckooFilter`) | adds history variables that say whether the key of a lookup has been in the filter all the time, and which of its buckets have held it; properties `MissMeansAbsent`, `MissMeansMoved` |
| `CuckooSet` | abstract specification of the filter: a bag of entries, an entry being a fingerprint with its pair of buckets and its data, and what the call of each client still has to do to it; only a call in progress changes the bag, in one step on its own item (an insertion that makes room takes a second one), a scan in one step per bucket |
| `CuckooFilterSet` (extends `CuckooFilter`) | the refinement mapping: every occupied slot and every block in the hand of a thread that moves it is an entry, and the section and the locals of a thread tell what its call still has to do; property `ImplementsSet` |
| `CuckooClient` (extends `LookupHistory`) | the programs that use the filter, as the fuzz targets do: which keys each has inserted and removed, and what it was told |
| `CuckooScan` (extends `CuckooFilter`) | rounds of TTL scans that several scanners share out by partitions, beside the users of the filter, and the TTL that each item should have |
| `CuckooExport` (extends `CuckooFilter`) | `write_to` of the exporter, bucket by bucket beside the methods, with a writer that fails or panics; poisoned mutexes; restart and `import_state` |
| `MCCuckooFilter`, `MCLookupHistory`, `MCCuckooFilterSet`, `MCCuckooClient`, `MCCuckooScan`, `MCCuckooExport` | hash functions, arguments, owners of keys and symmetry for TLC |
| `Arithmetic` | facts about numbers that the provers do not know: least elements, induction, remainders, powers of two |
| `CuckooFilterProofs` | lemmas about the operators of `DataBlock` and `Bucket`, then the theorems about the states of `CuckooFilter`, and about what its steps may lose and what they count |
| `CuckooFilterSetProofs` | the proof that `CuckooFilter` implements `CuckooSet` |
| `CuckooScanProofs` | the theorems about partitions and about rounds of scans |
| `CuckooClientProofs` | the theorems about `LookupHistory` and `CuckooClient`, and about a filter that one thread uses |
| `CuckooExportProofs` | the theorems about `CuckooExport` |
| `FieldValues` | abstract specification of a slot: four independent fields, each keeping the low bits of what is stored |
| `FieldConfig` | where `build()` puts the fields, and `DataBlockFieldConfiguration::new` |
| `FieldLayout` (extends `FieldConfig`) | a slot as its bits: `load_bits`, `store_bits`, `reset` |
| `MCFieldLayout` | widths and values for TLC |
| `FieldLayoutProofs` | the theorems about `FieldLayout`, among them that it implements `FieldValues` |
| `CuckooConfig` (extends `FieldConfig`) | `config.rs`: the builder, `build()` with its errors, `compatible_layout` |
| `ConfigStream` (extends `CuckooConfig`) | a configuration that is built, exported by some version of the crate, cut by the medium, and imported (`exporter.rs`, `import_config`, `import_state`) |
| `MCConfigStream` | builders for TLC |
| `ConfigStreamProofs` | the theorems about `CuckooConfig` and `ConfigStream` |

`FieldLayout` stands below `DataBlock`: the latter takes a slot for a record of
field values and masks what is stored, which is what `FieldLayout` shows the bytes
to implement.

### State and code

| Model | Code |
|---|---|
| `buckets[i]` | the bucket behind the mutex of `self.buckets[i]`; an index is the set of its 1-bits, so that xor is a symmetric difference |
| `items` | `self.items`, modulo `UsizeMax + 1` |
| `pc[t]` | the next section under a mutex, or access to `items`, of thread `t`; `"idle"` between calls |
| `frame[t]` | the locals of the running method: `fp`/`home` are fingerprint and first index of the key, `hand` is `cur_data_block`, `index` is `cur_index`, `kicks` the loop counter, `pos`/`stop`/`removed` those of a scan |
| `ret[t]` | the answer of the last call, `Pending` while it runs |

| Action | Code |
|---|---|
| `CallInsert` .. `CallScan` | entry of a public method, up to its first lock |
| `LookFirst`, `LookSecond` | the two lookups of `contains*`, `get_associated_data*`, `insert_if_not_present*` |
| `InsertFirst`, `InsertSecond` | the two tries before the kicks; the second one chooses where the kicks start (`insert_if_not_present` tosses a coin, `insert` starts at the first index) |
| `Kick` | the swap with a victim and the step to its other index |
| `Place` | the try to put the victim there, and the end of the loop at `max_kicks` |
| `CountAdd`, `CountSub` | `fetch_add`, `fetch_sub`, with wrap-around |
| `RemoveFirst`, `RemoveSecond` | `remove` |
| `Scan` | one bucket of `scan_and_update_*`: LRU aging, then TTL aging, under one lock |
| `GetItemCount` | `get_item_count` |
| `Call_or_step`, `Panic` (`CuckooExport`) | any of the above; `lock().unwrap()` on a poisoned mutex, which unwinds the call with its locals |
| `ExportStart`, `ExportBucket`, `ExportPanic` | header and configuration are written; the next bucket is locked and written, or the writer fails, or it panics and poisons the mutex; the mutex is poisoned already |
| `Restart` | the process ends at any moment and the next one imports what was written, or starts empty if that is not complete |
| `Build`, `Export` (`ConfigStream`) | `build()`; `write_to` and the medium |
| `ReadHasher` .. `EndFields`, `ReadBuckets` | `read_hasher_from`, `CuckooConfiguration::read_from` and the `read_from` of the fields, `import_state` |
| `ImportAs` | the program calls `import_config`, then `import_state` with a configuration of its own that `compatible_layout` admits |
| `Ask`, `Learn` (`CuckooClient`) | the client calls a method with one of its keys; a step of the call, and what its return says |
| `RoundStart`, `Scanner`, `User` (`CuckooScan`) | the calling program, outside the crate, begins a new round of partitions; `scan_and_update_ttl_partition` for a partition not yet begun; any other call |

A section under a mutex is one step because a thread holds one mutex at a time and
touches nothing shared but that bucket; the lock order cannot deadlock for the same
reason.  Random choices (`kick_random`, the coin) are nondeterministic.  Atomics are
`Relaxed` on one variable only, whose modification order is total, so one step each
is faithful.

Abstractions: hashes are the constants `KeyHash` and `FpHash`; field masks, `u32::MAX`
and `usize::MAX` are constants, so that TLC can take small ones; a field that is not
configured has mask 0 and value 0; a slot is the record of its fields, which
`FieldLayout` justifies.  In `FieldLayout` a number is the set of its 1-bits, so that
`&`, `|` and shifts are set operations; its variable `layout` is the configuration of
the slot, chosen once.  `swap` and `copy_from` move whole slots, whatever is in them,
and are modelled on records only.
The stream of `ConfigStream` is the sequence of integers that are written, not their
bytes: a read of an integer fails unless it is there in full, so a cut inside an
integer is a cut before it, and the code compares no byte of one integer with another.
What versions 0.1 and 0.2.0 wrote is not in the repository; `lru_units` derives it from
what `read_from` expects of them.  The layout that `compatible_layout` compares is that
of `FieldConfig`, which the proofs about the bytes of a slot use too.  `CuckooExport`
imports with the hasher and the configuration that were exported, for `RoundTrip`
says that they come back as they were.
`insert_if_not_present` and `get_associated_data` also update the LRU, TTL and counter
of a block they find, as one step with the lookup (`look_up`).

## 3. Runs

| Run | Instance | Shows |
|---|---|---|
| `core` | 2 threads, 3 keys, 2 buckets of 1 slot, `max_kicks` 2; both insertions, remove, get_item_count; fairness | `TypeOK`, `FindableWhereLooked`, `NoSilentLoss`, `CountDrift`, `MissMeansMoved`, `EveryCallReturns` |
| `aging` | 2 threads, 2 keys of which one can be kicked to the other bucket, `max_kicks` 3, LRU and TTL both removing; a counter of one bit; insert, contains, remove, get_item_count, full and LRU scans | the refinement `ImplementsSet`; `TtlStaysPositive`, `LruChainBounded`, `NewItemKicks`; no item counted twice when LRU and TTL remove in one pass (`CountDrift`), none lost (`NoSilentLoss`) |
| `client` | 1 thread, 6 keys that collide in several ways, 2 buckets of 2 slots; insert_if_not_present, get_associated_data, remove | with `insert_if_not_present` only, the documentation's promises hold: `CountExact`, `NoDuplicates`, `MissMeansAbsent`, `RemovedIsGone`, `StoredUnlessReported` |
| `scan` | 2 scanners and a user, 4 buckets in 3 partitions, TTL 2 or 3, keys that are kicked from one partition to the other | `AgedOnce`, also for the last, shorter partition |
| `export` | 1 thread, all methods with kicks and TTL scans, beside exports that fail or panic and restarts; fairness | `RestoredFindable`, `SnapshotCombinesStates`, `CountDriftRestored`, `EveryCallEnds` |
| `config` | some 840 builders: one or no LRU, TTL, counter, 4 kinds of LRU; sizes on and off powers of two, up to `usize::MAX`; versions 0.1.0, 0.2.1 and 0.2.4, every cut, two hasher names | `RoundTrip`, `CutRefused`, `CompatibleReadsFields`, `CapacitySuffices`, `BucketsMatchMask` |
| `layout` | fingerprint of 7 or 8 bits, the other fields of 0, 3 or 32: 54 layouts; three values to store | `InsideSlot`; the bytes implement independent fields (`FieldsAreIndependent`) |
| `item_count`, `false_negative`, `duplicates`, `phantom`, `client_removed` | as `core` and `client` | a sentence of the documentation is violated (section 6) |

**Bounds.**  The state is finite without any constraint: threads, keys and slots are
constants, kicks stop at `MaxKicks`, fields at their masks, and the counter wraps at
`UsizeMax`.  That is small on purpose: `UsizeMax` is 2 or 7, so that wrapping happens
within a few steps; where it is 2 the counter can hardly tell a wrap from the number of
slots, but `CountDrift` is stated modulo the same number, hence is exact for each.
Two threads suffice for every hazard listed
that involves a pair (one that carries a block, one that changes a bucket under it);
a third thread repeats the part of the second.  Three keys on two slots make a full
filter, so each insertion kicks: two keys share the pair of buckets from its opposite
ends, the third has both its indices in one bucket (its alternate index is itself),
which is where index arithmetic goes wrong.  `client` adds a key with the fingerprint
and pair of another, one of them through a hash of fingerprint 0, which the code moves
up to 1, and buckets of two slots, so that the scan order inside a bucket counts.
`MaxKicks` 2 lets a block come back to the bucket it came from; `aging` takes 3, which
is above the bound `LruMask + 1 = 2` that `LruChainBounded` puts on the kicks.
`layout` keeps the real 8 bits
of a byte and 32 of a `u32`: the widths make fields that start and end on and off
byte boundaries, absent ones, and one that spans five bytes; all ones, none, and every
other one are enough values for a bit that is written to the wrong place, or dropped,
to show.  Threads are symmetric; the runs that check liveness use no symmetry.

`scan` has four buckets because three partitions of four are rounded up to two, two and
none: a partition that is rounded down loses the last bucket, and the index of the empty
one is past the end, so that its scan returns at once.  Two scanners are enough to have
partitions run in any order and at once.  One of the keys has its two buckets in
different partitions and is kicked from one to the other.  In `export` the two keys are
one that can be kicked and one that does it, and a kick can carry a block across the
exporter either way; one kick is enough for that, and one thread, for the exporter is
the second; restarts and exports repeat without bound, the snapshot is replaced each time.
`config` has fields that are missing, present, resized against each other, and
settings whose values are the tags of other fields, so that a cut falls into the header,
between two fields, inside a field and between buckets.
Its versions are one on each side of the two limits in `LruConfig::read_from`, and the
current one.  A bucket count or a bucket that is too big for `usize` is
reached with `usize::MAX` = 255; with 64 bits only the numbers are larger.  `usize` is
as wide as the `u32` of `buckets_mask` there (section 6).  It stops when an import has
succeeded or was refused, hence `CHECK_DEADLOCK FALSE`.

**Fairness.**  `Fairness` asks, per thread, weak fairness of its next step once it is
inside a call: the operating system runs the thread again, and a mutex is granted
to one that waits for it, because its holder never waits for anything while it holds it.
A step inside a call is always enabled, so weak fairness is all that is needed.
`FairExportSpec` asks the same of the threads, whose next step may now be a panic, and
of the exporter, whose writer returns, fails or panics.
No thread has to make a call, and nothing is asked of the random choices: the kicks
end because they are counted, not because luck ends them.

## 4. Properties

* `NoSilentLoss` (action property): a fingerprint (with its pair of buckets) leaves the
  slots and the hands of inserting threads only in a step that removes it, reports it
  as evicted, or ages one of its two buckets.
* `FindableWhereLooked`: stored fingerprints, and those in hand on the way to a bucket,
  are in the pair of buckets of some key with that fingerprint.
* `CountDrift` (action property): what the counter will be when all running calls
  have ended, minus the occupied slots, never changes, but for a merge counted as an
  insertion (+1) and an insertion that ends with an empty block in hand (-1).
* `CountExact`, `NoDuplicates`, `NoPhantomEviction`, `MissMeansAbsent`: sentences of the
  documentation; where they hold, and where they do not.
* `MissMeansMoved` (action property): a lookup, a removal, or the check of
  `insert_if_not_present` comes to its end without a hit only if neither bucket of the
  pair has held the fingerprint for the whole time of the call.  That is what is left of
  `MissMeansAbsent` beside the kicks of other threads.
* `LruChainBounded`: the LRU counter of the block in hand falls with each kick.
* `NewItemKicks`: a new item always finds a block to kick under LRU.
* `TtlStaysPositive`: no item has a TTL that aging should have removed, as long as the
  TTLs fit the field (larger ones are masked; see section 6).
* `EveryCallReturns` (liveness), `EveryCallEnds` (liveness beside exports that panic).
* `ImplementsSet`: every step of the filter is one of `CuckooSet` or invisible in it.  An
  entry goes only by the removal of its item, by an eviction that its insertion reports, or
  by a scan that finds it spent, each a step of the thread whose running call was made for that
  and has yet to do it; a lookup adds to the counters of one entry of its item, saturated; when
  two entries for one item meet, one remains with the uses of both, saturated.  An
  entry does not change while it is kicked about.  What is left open: which
  entry an insertion evicts, which entries a scan ages and when it ends (`AgedOnce`), and
  that a call may miss what is there (`MissMeansMoved`).
* `StoredUnlessReported`: a key that was inserted has its fingerprint in the filter until
  it is removed, itself or under the name of a key that shares its slot, or an eviction of
  the fingerprint is reported.  With `NoSilentLoss` it is what a caller can rely on.
* `RemovedIsGone`: a key that was removed is not in the filter, as the documentation of
  `remove` says.
* `AgedOnce`: when a round of scans is over, every item that no call has touched and no
  insertion has kicked has lost 1 of its TTL, and the items whose TTL was 1 are gone.
* `RestoredFindable`: `FindableWhereLooked` also after a restart from any snapshot.
* `SnapshotCombinesStates`: what was in a bucket from the beginning of an export on is
  in what is written of it, and what is written was in the bucket at some time meanwhile.
* `CountDriftRestored` (action property): as `CountDrift`, with panics and restarts: a restart
  makes the counter exact, a scan that panics leaves it off by what it had removed.
* `RoundTrip`: what is imported is the configuration that was exported, with nothing left
  in the stream.  `CutRefused`: a stream with less than that is an error.
* `CompatibleReadsFields`: two configurations with compatible layouts have the same widths
  of all fields, hence the same fields in the same bits.
* `CapacitySuffices`, `BucketsMatchMask`: the buckets that indices reach have the capacity
  asked for; their number is the least power of two that has.
* `InsideSlot`: the bytes of each field are bytes of the slot (no slice panics), and the
  padding stays 0.
* `FieldsAreIndependent`: `FieldLayout` implements `FieldValues` under the refinement
  mapping that loads each field.

Each has a mutant of the code, listed in `PROJECT.json` and defined next to the operator
it changes, that TLC finds to violate it.

## 5. Proofs

`tlapm` proves, for any number of threads, keys, buckets and slots, any hash functions,
any field widths, any `max_kicks`, any builders and any versions, under the hypotheses
named:

| Theorem | States | Hypothesis |
|---|---|---|
| `TypeCorrect` | `Spec => []TypeOK` | |
| `AlwaysFindable` | `Spec => []FindableWhereLooked` | |
| `KicksEndUnderLru` | `Spec => []LruChainBounded` | |
| `NewItemsAlwaysKick` | `Spec => []NewItemKicks` | the LRU counter has less than 32 bits |
| `TtlsStayPositive` | `Spec => []TtlStaysPositive` | the TTLs in use are positive and fit their field (`TtlsFit`) |
| `AltIndexInvolution` | `alt_index` leads from either bucket of a pair to the other | |
| `NothingLostSilently` | `Spec => NoSilentLoss` | |
| `CounterDriftsOnlyTwoWays` | `Spec => CountDrift` | finitely many threads |
| `FilterImplementsSet` | `Spec => ImplementsSet` | finitely many threads |
| `MissedKeyWasMoved` | `HSpec => MissMeansMoved` | |
| `MissedKeyWasAbsent` | `HSpec => MissMeansAbsent` | one thread |
| `OneThreadStoresOnce` | `Spec => []NoDuplicates` | one thread, no call of `insert` |
| `OneThreadCountsExactly` | `Spec => []CountExact` | as before, and a `usize` can count the slots |
| `InsertedStaysUnlessReported` | `ClientSpec => []StoredUnlessReported` | no two clients use keys that share a slot (`OwnersApart`) |
| `RemovedStaysGone` | `ClientSpec => []RemovedIsGone` | one thread, no call of `insert` |
| `PartsDivide` | partitions 0 to `Total` - 1 are disjoint and cover every bucket | |
| `ItemsAgeOnce` | `ScanSpec => []AgedOnce` | a TTL is configured (`TtlEnabled`), `TtlsFit`, and only the rounds scan (`Partitions = {}`) |
| `ExportTypeCorrect` | `ExportSpec => []ExportTypeOK` | a `usize` can count the slots (`SlotsFit`) |
| `RestoredAlwaysFindable` | `ExportSpec => []RestoredFindable` | `SlotsFit` |
| `SnapshotIsOfStates` | `ExportSpec => []SnapshotCombinesStates` | `SlotsFit` |
| `CounterRestoredExactly` | `ExportSpec => CountDriftRestored` | `SlotsFit`, finitely many threads |
| `StreamTypeCorrect` | `Spec => []TypeOK` of `ConfigStream` | a `usize` has at most 64 bits (`UsizeFits`) |
| `ExportsComeBack` | `Spec => []RoundTrip` | `UsizeFits` |
| `CutsAreRefused` | `Spec => []CutRefused` | `UsizeFits` |
| `CompatibleLayoutsAgree` | `Spec => []CompatibleReadsFields` | `UsizeFits` |
| `BucketsSuffice` | `Spec => []CapacitySuffices` | `UsizeFits`, and the mask fits its `u32` (`MaskFits`) |
| `MaskCoversBuckets` | `Spec => []BucketsMatchMask` | as before |
| `AlwaysInsideSlot` | `Spec => []InsideSlot`, for the bytes of a slot | |
| `BytesImplementFields` | `Spec => FieldsAreIndependent`: every step on the bytes is a step on the fields | |

**Assumptions.**  The modules assume of their constants what the Rust types and
`build()` guarantee, and TLC evaluates it in every run: `ConstantsAreU32`,
`NoneIsNotANumber` (`DataBlock`), `BucketSizeIsPositive` (`Bucket`), `FilterConstants`,
`ArgumentsAreValues` (`CuckooFilter`), `LayoutsAreBitCounts`, `ValuesAreU32`
(`FieldLayout`: fields have at most 32 bits, the fingerprint at least one, and what is
stored is a `u32`), `ConfigConstants`, `NoneIsNoValue` (`CuckooConfig`: Rust's `None` is
no value), `StreamConstants` (`ConfigStream`), `ScanConstants` (`CuckooScan`: scanners are
threads, and there is a partition at least).  That `2 ^ IndexBits` is a positive number
is proved (`Arithmetic`).

The hypotheses of the table are no assumptions of the modules, for without them the code
behaves otherwise, and TLC shows how: section 6 has the violations of `CountExact`,
`NoDuplicates` and `RemovedIsGone` with two threads or with `insert`, and what becomes of
a TTL that does not fit, of LRU counters of 32 bits, and of a mask of more than 32 bits.
`Partitions = {}` says that the users call no scan of their own, which would age an item a
second time in a round.
`SlotsFit` holds as long as a slot takes a byte of memory at least.
`UsizeFits` is true of every target of Rust; the model looks for the least power of two
up to 2^64 only.  Each run meets the hypotheses of the theorems about its properties.

**Arguments.**

* *Types.*  `CuckooFilterProofs` first shows for each operator that its result is a block, or a
  bucket, and which fingerprints it changes.  `first`, a CHOOSE of a least slot, needs
  well-foundedness of the naturals (`FirstIsLeast`).  Then it has one lemma
  per action.  `Shapes` is inductive, and with `LookupLocals` (only the three methods that look
  a key up get to the lookups, hence `found` has a value there) it is `StateOK`, from which
  the other proofs start.  That the answers are answers (`TypeOK`) follows from `StateOK`
  step by step.
* *Findable.*  `FindableWhereLooked` speaks of stored blocks and of displaced ones.
  It is not inductive, for it says nothing of a new item that is not yet displaced,
  and the first kick stores exactly that one.  `FindableInv` adds `NewItemAtHome`: before
  its first kick an item's fingerprint is the key's, and the bucket at which it kicks is
  one of the key's pair.  A kick then swaps a findable block in, and takes a findable
  one to `alt_index`, which `FindableOther` (from the involution) shows is findable
  too.
* *LRU and TTL.*  `LruInv` adds that no kick is counted before the kicks start
  (`KicksUncounted`).  A kick of a new item brings out a block within the field's
  bound; each later one a strictly smaller counter (`KickLruType`), and one more
  kick is counted after it.  A new item has a counter below `u32::MAX`, so it finds a victim.
  For the TTL the invariant speaks of stored blocks, of those in hand, and of those that
  a running insertion has yet to make.
* *Accounts.*  `NoSilentLoss` and `CountDrift` are proved action by action: what tokens
  (fingerprint and pair of buckets) a step adds to and takes from slots and hands, and by how
  much the number of occupied slots and what the calls owe the counter change.  The
  sums over threads and slots are cardinalities of sets of pairs.
* *Refinement.*  `SetInv` is `FindableInv` with two parts about running calls: an insertion that
  has yet to place its item has one in hand, and a removal looks for a fingerprint (`CountInv`);
  a call has answered nothing before its end, no kick is counted before the first one, and that
  one has the fingerprint of the call's key in hand, at a bucket of its pair (`CallInv`).  So an
  effect on the bag has the item and the values of the call that makes it, and the call goes on
  in `CuckooSet` as its thread does in the code: `CallForms` says what is to be done at each
  section.  A bag is known by how many copies it has of each entry (`SameBag`), each of these a
  cardinality of a set of places.  A step other than a scan writes one slot and one hand, so the
  bag keeps its entries but for one put, taken, replaced, or merged with another (`EntryPut` ..
  `EntriesMerged`).  A kick of a displaced block exchanges the entries of a slot and a hand and
  changes no number; the kick of a new item puts one.  A scan ages all entries of a bucket at
  once: `Numbered` tells the copies of the bag apart by their places, so that the copies which
  `Age` is to choose are those of the bucket's slots.
* *Rounds.*  `PlanInv` says that the positions that a scanner still has to visit, those of the other
  scanners, and those of the partitions in `todo` are apart: every bucket is ahead of one scan
  or behind all.  It follows from `PartsDivide`; that positions are the buckets is
  `PositionsReachAll` and `PositionsDiffer`.  It also says that a user's first kick is for the item
  of its own call, so that it writes no slot of an item that is untouched.  `RoundInv` says of every
  untouched item that it has the TTL of the round's beginning where its bucket is ahead, and
  where it is behind one less, or is gone if that was 1.  With nothing ahead this is
  `AgedOnce`.
* *Lookups and clients.*  `HistoryInv` says that while a call has not found its
  fingerprint and a bucket has held it all the time, that bucket is the one it has still to
  look into.  With one thread nothing moves meanwhile (`Steady`), which gives
  `MissMeansAbsent`, and then `OnceInv`: a fingerprint in the hand of a running insertion is not
  stored, a stored one is stored once.  `ClientInv` ties what a client has been told to what
  it does: an inserted key is stored or in somebody's hand, and whoever carries it off
  belongs to it or reports it.
* *Exports.*  `ExportInv` types the snapshot and says what a restart makes of it;
  `SavedFindable` says of each bucket of the snapshot what `FindableWhereLooked` says of
  buckets.  The third invariant says which states each bucket has been in since the export
  began.  A panic leaves the locals of its call behind, so `CountDriftRestored` follows from
  `CountDrift` with what those still owed.
* *Configuration.*  `StreamInv` says, for each phase of an import, that the rest of the stream
  is a beginning of what is still to come of the export, that this is cut if the stream is, and
  that the builder has the settings of the parts read so far.  `KeptRest` advances it by
  a part, and `LruRead` shows that each format of the LRU comes back as it was.  With the
  stream at its end inside the fields, the builder may build a wrong configuration; then
  the stream is cut and has no bucket left, and since every filter has a bucket of a byte at
  least, `ReadBuckets` refuses it.  `Rebuilt` shows that the number of slots in the header
  makes `build()` find the same power of two again, `LayoutsTell` that equal field masks
  have equal widths.
* *Bytes.*  A field is a range of bits of the slot.  `LoadIsRange` and `StoreWritesRange`
  say that the shifts and masks over its bytes read, and overwrite, exactly that
  range; `FieldsDisjoint` that `build()` gives the fields disjoint ranges.  Hence a
  load after a store gives the low bits of the value (`LoadAfterStore`) or what
  was there before (`LoadOther`).  `InsideSlot` is inductive, and is what the step simulation
  needs of the state.

**Only model-checked.**  `EveryCallReturns` and `EveryCallEnds`, for liveness under fairness is
out of the prover's reach.

## 6. Where the documentation and the code disagree

Each of these is a run in which TLC finds the shortest counterexample.

1. `item_count`: `insert` counts a key again when its bucket merges it (`filter.rs:411`),
   so `get_item_count` is not "the actual number of items currently stored"
   (`filter.rs:242`).
2. `false_negative`: between the swap of a kick and the next insertion the victim is in
   no bucket, and `contains` answers false for it, against "definitely not present"
   (`filter.rs:490`).
3. `duplicates`: two `insert_if_not_present` of one key can both pass the check
   (`filter.rs:275`).
4. `phantom`: `kick_random` can pick a slot emptied since, and the insertion then reports
   fingerprint 0 as evicted (`filter.rs:387`).
5. `client_removed`: a second `insert` of a key can fill an empty slot before the one that
   has its fingerprint (`bucket.rs:65`); one copy outlives the removal, and
   `contains` still answers true: `remove` "Removes this key from the filter" (`filter.rs:533`).
   The fuzz target asserts the same (`fuzz_targets/filter.rs:32`), but inserts before it
   removes, and so never gets there.

`client` shows all but the fourth gone with one thread that only uses
`insert_if_not_present`; the fourth takes two threads.

The properties that hold are drawn around some more limits of the code, which a caller
should know of:

* Two keys with one fingerprint and pair of buckets share a slot (`bucket.rs:72`), and the
  removal of one takes the other along.  `StoredUnlessReported` takes it for a removal of both.
* The kicks of an insertion can evict the key it inserts (`filter.rs:445`, and the comment at
  `filter.rs:280`); `fuzz_targets/filter.rs:17` asserts that it is found.  The eviction is reported.
* An item that is kicked while a scan runs can be aged twice or not at all
  (`filter.rs:624`), and one that is kicked behind the exporter is missing from the snapshot
  (`exporter.rs:240`).  `AgedOnce` leaves out what was kicked; `SnapshotCombinesStates` speaks
  of buckets, not of the filter.
* The writer of the caller runs with a bucket locked (`exporter.rs:243`): its panic poisons the
  bucket, and later calls on that bucket panic.  They end, though (`EveryCallEnds`), and
  `CountDriftRestored` says what they leave behind.
* With more than 2^32 buckets only the first 2^32 are used (`config.rs:235`); `config` has a
  `usize` as wide as the mask.
* With 32 bits of LRU, counters that have reached `u32::MAX` leave a new item nothing to kick
  (`bucket.rs:108`); `NewItemKicks` is checked for fewer bits.
* A TTL that does not fit its bits is cut, possibly to 0 (`data_block.rs:387`), and `build()`
  does not refuse such a default; `TtlStaysPositive` is checked for TTLs that fit.

## 7. Not modelled

Not modelled: `get_bucket_count`, `get_configuration`, `get_memory_usage` and the getters of
the configuration (they read constants), the accessors of `AssociatedData` (they read one
field of a copy), the `Display` and `Error` texts, benches, and the false positive
rate (a statistical question).  The keys of a hasher are opaque: `ReadHasher` compares
its name, and a header with the right name and a damaged end is not told apart from a
wrong name.  A tag in a configuration that this version does not know ends its fields, as
in the code; no run writes one, for no version that does is known.
`partition_index * part_size` does not wrap: the callers modelled pass an index up to
`total_partitions`.  An imported filter is used by one process only.
