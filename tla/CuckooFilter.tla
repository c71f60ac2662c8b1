----------------------------- MODULE CuckooFilter -----------------------------
(***************************************************************************)
(* The filter (src/src/filter.rs) shared by threads that call its methods. *)
(* Every bucket has a mutex of its own, a method holds at most one mutex   *)
(* at a time and releases it before it goes on, and the item counter is    *)
(* an atomic updated after the last release.  A section under a mutex and  *)
(* an access to the counter is therefore one step each, and the steps of   *)
(* different threads interleave.                                           *)
(***************************************************************************)
EXTENDS Bucket, ScanPartitions

CONSTANTS
  Threads,
  Keys,
  KeyHash,       \* hash_one(key): [hi |-> high half, lo |-> bits of the low half]
  FpHash,        \* hash_one(fingerprint): bits of the low half
  IndexBits,     \* the filter has 2^IndexBits buckets
  MaxKicks,
  UsizeMax,      \* usize::MAX, scaled down
  Apis,          \* the methods the threads call
  InsertArgs,    \* the InsertValues they pass
  LookupArgs,    \* the LookupValues they pass
  Partitions     \* the <<total_partitions, partition_index>> they pass

\* Names for the methods that a thread may call.
AllApis == {"insert", "insert_if_not_present", "contains", "get_associated_data",
            "remove", "scan_full", "scan_ttl", "scan_lru", "get_item_count"}

ASSUME FilterConstants ==
  /\ IndexBits \in Nat /\ MaxKicks \in Nat /\ UsizeMax \in Nat
  /\ KeyHash \in [Keys -> [hi : Nat, lo : SUBSET Nat]]
  /\ FpHash \in [Fingerprint -> SUBSET Nat]
  /\ Apis \subseteq AllApis
  /\ Partitions \subseteq (Nat \ {0}) \X Nat

ASSUME ArgumentsAreValues ==
  /\ \A a \in InsertArgs : a \in InsertValues
  /\ \A a \in LookupArgs : a \in LookupValues

VARIABLES
  buckets,  \* bucket index -> bucket
  items,    \* the atomic counter
  pc,       \* thread -> the section it enters next
  frame,    \* thread -> the locals of its call
  ret       \* thread -> what its last call returned

vars == <<buckets, items, pc, frame, ret>>

-----------------------------------------------------------------------------
(* Indices.  A bucket index is the set of its 1-bits, so that the masked    *)
(* xor of alt_index is a symmetric difference.                             *)

MaskBits == 0 .. IndexBits - 1

Buckets == SUBSET MaskBits

BucketCount == 2 ^ IndexBits

xor(a, b) == (a \ b) \cup (b \ a)

alt_index(fp, i) == xor(i, FpHash[fp] \cap MaskBits) \cap MaskBits

get_fingerprint_and_index(k) ==
  [fp |-> fingerprint_new(KeyHash[k].hi, FpMask), index |-> KeyHash[k].lo \cap MaskBits]

\* The index of the n-th bucket of the Vec.
position(n) == {k \in MaskBits : (n \div 2 ^ k) % 2 = 1}

wrapping_add(a, b) == (a + b) % (UsizeMax + 1)

\* Mutants: a counter that stops at 0, one that goes below.
saturating_fetch_sub(a, b) == IF a > b THEN a - b ELSE 0
signed_sub(a, b) == a - b

wrapping_sub(a, b) == (a - b) % (UsizeMax + 1)

-----------------------------------------------------------------------------
(* Threads.  fp and home are the fingerprint and the first index of the     *)
(* call's key, hand is cur_data_block, index is cur_index; a scan goes over *)
(* the positions from pos up to, not including, stop.                       *)

NoUpdate == [ttl |-> None, counter_diff |-> None]

NoFrame == [api |-> "none", fp |-> 0, home |-> {}, update |-> NoUpdate,
            hand |-> ResetBlock, index |-> {}, kicks |-> 0,
            pos |-> 0, stop |-> 0, removed |-> 0]

Frames == [api : AllApis \cup {"none"}, fp : Fingerprint, home : Buckets,
           update : LookupValues, hand : DataBlocks, index : Buckets,
           kicks : 0 .. MaxKicks, pos : Nat, stop : Nat, removed : Nat]

Sections == {"idle", "look_i1", "look_i2", "insert_i1", "insert_i2", "kick", "place",
             "count_add", "remove_i1", "remove_i2", "scan", "count_sub"}

Pending     == [pending |-> TRUE]
Evicted(fp) == [evicted |-> fp]      \* Evicted(None) is a plain success
Present(p)  == [present |-> p]
Data(d)     == [data |-> d]
Count(n)    == [count |-> n]

Answers == {Pending} \cup [evicted : Fingerprint \cup {None}] \cup [present : BOOLEAN]
             \cup [data : DataBlocks \cup {None}] \cup [count : Nat]

Init ==
  /\ buckets = [i \in Buckets |-> EmptyBucket]
  /\ items = 0
  /\ pc = [t \in Threads |-> "idle"]
  /\ frame = [t \in Threads |-> NoFrame]
  /\ ret = [t \in Threads |-> Pending]

Goto(t, section) == pc' = [pc EXCEPT ![t] = section]

Return(t, answer) ==
  /\ Goto(t, "idle")
  /\ frame' = [frame EXCEPT ![t] = NoFrame]
  /\ ret' = [ret EXCEPT ![t] = answer]

\* Mutant: the first index is tried twice.
first_again(t) == frame[t].home

second(t) == alt_index(frame[t].fp, frame[t].home)

-----------------------------------------------------------------------------
(* Calls. *)

Call(t, api, section, locals) ==
  /\ api \in Apis
  /\ pc[t] = "idle"
  /\ Goto(t, section)
  /\ frame' = [frame EXCEPT ![t] = locals]
  /\ ret' = [ret EXCEPT ![t] = Pending]
  /\ UNCHANGED <<buckets, items>>

keyed(api, k) ==
  LET h == get_fingerprint_and_index(k)
  IN  [NoFrame EXCEPT !.api = api, !.fp = h.fp, !.home = h.index]

CallInsert(t) ==
  \E k \in Keys, values \in InsertArgs :
    LET f == keyed("insert", k)
    IN  Call(t, "insert", "insert_i1", [f EXCEPT !.hand = new_data_block(f.fp, values)])

CallInsertIfNotPresent(t) ==
  \E k \in Keys, values \in InsertArgs, update \in LookupArgs :
    LET f == keyed("insert_if_not_present", k)
    IN  Call(t, "insert_if_not_present", "look_i1",
             [f EXCEPT !.hand = new_data_block(f.fp, values), !.update = update])

CallContains(t) ==
  \E k \in Keys, update \in LookupArgs :
    Call(t, "contains", "look_i1", [keyed("contains", k) EXCEPT !.update = update])

CallGetAssociatedData(t) ==
  \E k \in Keys, update \in LookupArgs :
    Call(t, "get_associated_data", "look_i1",
         [keyed("get_associated_data", k) EXCEPT !.update = update])

CallRemove(t) ==
  \E k \in Keys : Call(t, "remove", "remove_i1", keyed("remove", k))

ages_lru(api) == LruEnabled /\ api \in {"scan_full", "scan_lru"}
ages_ttl(api) == TtlEnabled /\ api \in {"scan_full", "scan_ttl"}

\* A scan of the positions of partition p, which returns at once when there is
\* nothing to age.  scan_and_update_full, _ttl and _lru are the partition <<1, 0>>.
ScanPartition(t, api, p) ==
  LET start == part_start(BucketCount, p[1], p[2])
      stop  == part_end(BucketCount, p[1], p[2])
  IN  IF (ages_lru(api) \/ ages_ttl(api)) /\ start < BucketCount
      THEN Call(t, api, "scan", [NoFrame EXCEPT !.api = api, !.pos = start, !.stop = stop])
      ELSE /\ api \in Apis
           /\ pc[t] = "idle"
           /\ Return(t, Count(0))
           /\ UNCHANGED <<buckets, items>>

ScanApis == {"scan_full", "scan_ttl", "scan_lru"}

CallScan(t) == \E api \in ScanApis, p \in Partitions : ScanPartition(t, api, p)

GetItemCount(t) ==
  /\ "get_item_count" \in Apis
  /\ pc[t] = "idle"
  /\ Return(t, Count(items))
  /\ UNCHANGED <<buckets, items>>

-----------------------------------------------------------------------------
(* Lookups: contains, get_associated_data and the first half of            *)
(* insert_if_not_present.                                                   *)

found(api, d) ==
  CASE api = "contains"              -> Present(TRUE)
    [] api = "get_associated_data"   -> Data(d)
    [] api = "insert_if_not_present" -> Evicted(None)

Hit(t, i) ==
  LET f     == frame[t]
      after == look_up(buckets[i], f.fp, f.update)
  IN  /\ contains(buckets[i], f.fp)
      /\ buckets' = [buckets EXCEPT ![i] = after]
      /\ Return(t, found(f.api, after[first(holding(buckets[i], f.fp))]))
      /\ UNCHANGED items

LookFirst(t) ==
  /\ pc[t] = "look_i1"
  /\ \/ Hit(t, frame[t].home)
     \/ /\ ~contains(buckets[frame[t].home], frame[t].fp)
        /\ Goto(t, "look_i2")
        /\ UNCHANGED <<buckets, items, frame, ret>>

LookSecond(t) ==
  /\ pc[t] = "look_i2"
  /\ \/ Hit(t, second(t))
     \/ /\ ~contains(buckets[second(t)], frame[t].fp)
        /\ \/ frame[t].api = "contains" /\ Return(t, Present(FALSE))
           \/ frame[t].api = "get_associated_data" /\ Return(t, Data(None))
           \/ frame[t].api = "insert_if_not_present" /\ Goto(t, "insert_i1")
                /\ UNCHANGED <<frame, ret>>
        /\ UNCHANGED <<buckets, items>>

-----------------------------------------------------------------------------
(* Insertion: both candidate buckets are tried, then blocks are kicked.     *)

\* bucket.insert(&cur_data_block) at index i returned true.
Land(t, i) ==
  /\ inserts(buckets[i], frame[t].hand)
  /\ buckets' = [buckets EXCEPT ![i] = insert(@, frame[t].hand)]
  /\ Goto(t, "count_add")
  /\ frame' = [frame EXCEPT ![t] = NoFrame]
  /\ UNCHANGED <<items, ret>>

Full(t, i) == ~inserts(buckets[i], frame[t].hand) /\ UNCHANGED <<buckets, items>>

InsertFirst(t) ==
  /\ pc[t] = "insert_i1"
  /\ \/ Land(t, frame[t].home)
     \/ Full(t, frame[t].home) /\ Goto(t, "insert_i2") /\ UNCHANGED <<frame, ret>>

\* The kicks of insert start at the first index, those of
\* insert_if_not_present at either one.
kick_starts(t) ==
  IF frame[t].api = "insert" THEN {frame[t].home} ELSE {frame[t].home, second(t)}

InsertSecond(t) ==
  /\ pc[t] = "insert_i2"
  /\ \/ Land(t, second(t))
     \/ /\ Full(t, second(t))
        /\ \/ MaxKicks = 0 /\ Return(t, Evicted(frame[t].hand.fp))
           \/ /\ MaxKicks > 0
              /\ Goto(t, "kick")
              /\ \E i \in kick_starts(t) : frame' = [frame EXCEPT ![t].index = i]
              /\ UNCHANGED ret

new_item(t) == frame[t].kicks = 0

victims(t) ==
  LET b == buckets[frame[t].index]
  IN  IF LruEnabled THEN kick_lru(b, frame[t].hand, new_item(t)) ELSE kick_random(b)

\* Mutant: the next index is that of the block that was swapped in.
after_kick_of_new(in, out, i) == alt_index(in.fp, i)

after_kick(in, out, i) == alt_index(out.fp, i)

\* The block in hand changes places with a victim and goes for the victim's
\* other bucket.
Kick(t) ==
  LET i == frame[t].index
  IN  /\ pc[t] = "kick"
      /\ \/ /\ victims(t) = {}
            /\ Return(t, Evicted(frame[t].hand.fp))
            /\ UNCHANGED buckets
         \/ \E s \in victims(t) :
              LET out == buckets[i][s]
              IN  /\ buckets' = [buckets EXCEPT ![i] = swap(@, s, frame[t].hand)]
                  /\ frame' = [frame EXCEPT ![t].hand = out,
                                            ![t].index = after_kick(frame[t].hand, out, i)]
                  /\ Goto(t, "place")
                  /\ UNCHANGED ret
      /\ UNCHANGED items

\* Mutant: the kicks are not counted.
Place_uncounted(t) ==
  /\ pc[t] = "place"
  /\ \/ Land(t, frame[t].index)
     \/ /\ Full(t, frame[t].index)
        /\ Goto(t, "kick")
        /\ UNCHANGED <<frame, ret>>

\* Mutant: the key of the call is reported, not what was kicked last.
Place_reports_key(t) ==
  /\ pc[t] = "place"
  /\ \/ Land(t, frame[t].index)
     \/ /\ Full(t, frame[t].index)
        /\ \/ frame[t].kicks + 1 = MaxKicks /\ Return(t, Evicted(frame[t].fp))
           \/ /\ frame[t].kicks + 1 < MaxKicks
              /\ Goto(t, "kick")
              /\ frame' = [frame EXCEPT ![t].kicks = @ + 1]
              /\ UNCHANGED ret

Place(t) ==
  /\ pc[t] = "place"
  /\ \/ Land(t, frame[t].index)
     \/ /\ Full(t, frame[t].index)
        /\ \/ frame[t].kicks + 1 = MaxKicks /\ Return(t, Evicted(frame[t].hand.fp))
           \/ /\ frame[t].kicks + 1 < MaxKicks
              /\ Goto(t, "kick")
              /\ frame' = [frame EXCEPT ![t].kicks = @ + 1]
              /\ UNCHANGED ret

CountAdd(t) ==
  /\ pc[t] = "count_add"
  /\ items' = wrapping_add(items, 1)
  /\ Return(t, Evicted(None))
  /\ UNCHANGED buckets

-----------------------------------------------------------------------------
(* Removal and aging. *)

\* Mutant: the removal is not counted.
Clear_uncounted(t, i) ==
  /\ contains(buckets[i], frame[t].fp)
  /\ buckets' = [buckets EXCEPT ![i] = remove(@, frame[t].fp)]
  /\ Return(t, Present(TRUE))
  /\ UNCHANGED items

Clear(t, i) ==
  /\ contains(buckets[i], frame[t].fp)
  /\ buckets' = [buckets EXCEPT ![i] = remove(@, frame[t].fp)]
  /\ Goto(t, "count_sub")
  /\ frame' = [frame EXCEPT ![t] = [NoFrame EXCEPT !.api = "remove", !.removed = 1]]
  /\ UNCHANGED <<items, ret>>

\* Mutant: the second bucket is tried twice.
RemoveFirst_second(t) ==
  /\ pc[t] = "remove_i1"
  /\ \/ Clear(t, second(t))
     \/ /\ ~contains(buckets[second(t)], frame[t].fp)
        /\ Goto(t, "remove_i2")
        /\ UNCHANGED <<buckets, items, frame, ret>>

RemoveFirst(t) ==
  /\ pc[t] = "remove_i1"
  /\ \/ Clear(t, frame[t].home)
     \/ /\ ~contains(buckets[frame[t].home], frame[t].fp)
        /\ Goto(t, "remove_i2")
        /\ UNCHANGED <<buckets, items, frame, ret>>

RemoveSecond(t) ==
  /\ pc[t] = "remove_i2"
  /\ \/ Clear(t, second(t))
     \/ /\ ~contains(buckets[second(t)], frame[t].fp)
        /\ Return(t, Present(FALSE))
        /\ UNCHANGED <<buckets, items>>

\* One bucket of a scan: the LRU counters age first, then the TTLs.
Scan(t) ==
  LET f    == frame[t]
      i    == position(f.pos)
      b    == buckets[i]
      used == IF ages_lru(f.api) THEN age_lru_counters(b) ELSE b
      left == IF ages_ttl(f.api) THEN age_ttl_counters(used) ELSE used
      gone == f.removed + cleared(b, used) + cleared(used, left)
  IN  /\ pc[t] = "scan"
      /\ buckets' = [buckets EXCEPT ![i] = left]
      /\ \/ /\ f.pos + 1 < f.stop
            /\ frame' = [frame EXCEPT ![t].pos = @ + 1, ![t].removed = gone]
            /\ UNCHANGED <<pc, ret>>
         \/ /\ f.pos + 1 >= f.stop /\ gone > 0
            /\ Goto(t, "count_sub")
            /\ frame' = [frame EXCEPT ![t] = [NoFrame EXCEPT !.api = f.api, !.removed = gone]]
            /\ UNCHANGED ret
         \/ f.pos + 1 >= f.stop /\ gone = 0 /\ Return(t, Count(0))
      /\ UNCHANGED items

CountSub(t) ==
  /\ pc[t] = "count_sub"
  /\ items' = wrapping_sub(items, frame[t].removed)
  /\ Return(t, IF frame[t].api = "remove" THEN Present(TRUE) ELSE Count(frame[t].removed))
  /\ UNCHANGED buckets

-----------------------------------------------------------------------------
Begin(t) ==
  \/ CallInsert(t) \/ CallInsertIfNotPresent(t) \/ CallContains(t)
  \/ CallGetAssociatedData(t) \/ CallRemove(t) \/ CallScan(t) \/ GetItemCount(t)

Continue(t) ==
  \/ LookFirst(t) \/ LookSecond(t)
  \/ InsertFirst(t) \/ InsertSecond(t) \/ Kick(t) \/ Place(t) \/ CountAdd(t)
  \/ RemoveFirst(t) \/ RemoveSecond(t) \/ Scan(t) \/ CountSub(t)

Next == \E t \in Threads : Begin(t) \/ Continue(t)

Spec == Init /\ [][Next]_vars

\* A running thread is scheduled again and gets the mutex it waits for.
Fairness == \A t \in Threads : WF_vars(Continue(t))

-----------------------------------------------------------------------------
(* Properties. *)

Shapes ==
  /\ buckets \in [Buckets -> BucketStates]
  /\ items \in 0 .. UsizeMax
  /\ pc \in [Threads -> Sections]
  /\ frame \in [Threads -> Frames]
  /\ DOMAIN ret = Threads

LookupApis == {"contains", "get_associated_data", "insert_if_not_present"}

LookupLocals ==
  \A t \in Threads : pc[t] \in {"look_i1", "look_i2"} => frame[t].api \in LookupApis

\* What every section relies on, whatever was returned before it.
StateOK == Shapes /\ LookupLocals

\* Locals, buckets and answers keep the shape the methods rely on, and only a
\* method that looks its key up gets to the lookups (filter.rs).
TypeOK == StateOK /\ ret \in [Threads -> Answers]

Pair(fp, i) == {i, alt_index(fp, i)}

\* What a lookup can tell apart: a fingerprint and its pair of buckets.
token(fp, i) == <<fp, Pair(fp, i)>>

\* The block in hand came out of a bucket and has not been put back.
Displaced(t) ==
  frame[t].hand.fp # 0 /\ (pc[t] = "place" \/ (pc[t] = "kick" /\ ~new_item(t)))

StoredTokens ==
  {token(buckets[p[1]][p[2]].fp, p[1]) :
     p \in {q \in Buckets \X Slots : occupied(buckets[q[1]][q[2]])}}

DisplacedTokens ==
  {token(frame[t].hand.fp, frame[t].index) : t \in {u \in Threads : Displaced(u)}}

Tokens == StoredTokens \cup DisplacedTokens

\* Bucket i is one in which the methods look for a key with fingerprint fp.
Findable(fp, i) ==
  \E k \in Keys : LET h == get_fingerprint_and_index(k)
                  IN  h.fp = fp /\ i \in Pair(fp, h.index)

\* However often a fingerprint is kicked back and forth, it stays in the two
\* buckets in which the methods look for a key that has it: alt_index leads
\* from either bucket of the pair to the other (filter.rs, insert and lookups).
FindableWhereLooked ==
  /\ \A i \in Buckets, s \in Slots :
       occupied(buckets[i][s]) => Findable(buckets[i][s].fp, i)
  /\ \A t \in Threads : Displaced(t) => Findable(frame[t].hand.fp, frame[t].index)

\* A fingerprint leaves the filter only when a thread removes it, reports it as
\* evicted, or ages one of its two buckets; the kicks of concurrent insertions
\* never drop or overwrite one (filter.rs, insert, remove, scan_and_update_full).
NoSilentLoss ==
  [][\A x \in Tokens \ Tokens' : \E t \in Threads :
       \/ /\ pc[t] \in {"remove_i1", "remove_i2"} /\ pc'[t] = "count_sub"
          /\ x = token(frame[t].fp, frame[t].home)
       \/ /\ pc[t] \in {"kick", "place"} /\ ret'[t] = Evicted(x[1])
          /\ x = token(frame[t].hand.fp, frame[t].index)
       \/ pc[t] = "scan" /\ position(frame[t].pos) \in x[2]]_vars

Occupied == {p \in Buckets \X Slots : occupied(buckets[p[1]][p[2]])}

\* Additions and subtractions of the counter that the calls in progress still
\* have to make for what they did to the slots.
ToAdd ==
  {t \in Threads : \/ pc[t] = "count_add"
                   \/ /\ frame[t].hand.fp = 0
                      /\ pc[t] = "place" \/ (pc[t] = "kick" /\ ~new_item(t))}

ToSubtract == UNION {{t} \X (1 .. frame[t].removed) : t \in Threads}

\* How far the counter will be from the number of occupied slots, if every
\* call in progress ends where it stands.
Drift == (items + Cardinality(ToAdd) - Cardinality(ToSubtract) - Cardinality(Occupied))
           % (UsizeMax + 1)

\* bucket.insert merged the block of thread t into one that was there.
Merges(t) ==
  /\ pc[t] \in {"insert_i1", "insert_i2", "place"} /\ pc'[t] = "count_add"
  /\ frame[t].hand.fp # 0
  /\ Occupied' = Occupied

\* Every method keeps the counter in step with the slots, whatever the order in
\* which the threads get to it, but for two cases: an insertion that merges into
\* a stored block still counts one more (filter.rs:411), and one that gives up
\* with an empty block in hand has filled a slot it does not count.
CountDrift ==
  [][\/ Drift' = Drift
     \/ Drift' = wrapping_add(Drift, 1) /\ \E t \in Threads : Merges(t)
     \/ /\ Drift' = wrapping_sub(Drift, 1)
        /\ \E t \in Threads : pc[t] \in {"kick", "place"} /\ ret'[t] = Evicted(0)]_vars

Idle == \A t \in Threads : pc[t] = "idle"

\* "the actual number of items currently stored" (filter.rs:242), once no call
\* is in progress.
CountExact == Idle => items = Cardinality(Occupied)

\* No fingerprint is stored twice in its pair of buckets, "it ensures that no
\* duplicates are present in the filter" (filter.rs:275, insert_if_not_present).
NoDuplicates ==
  \A p, q \in Occupied :
    /\ p # q
    /\ buckets[p[1]][p[2]].fp = buckets[q[1]][q[2]].fp
    => q[1] \notin Pair(buckets[p[1]][p[2]].fp, p[1])

\* An evicted fingerprint is one that was in the filter or was being inserted:
\* "Returns fingerprint of the item that was evicted" (filter.rs:279, 387).
NoPhantomEviction == \A t \in Threads : ret[t] # Evicted(0)

\* Under LRU every kick brings out a block used less than the one it swaps in,
\* so the kicks end on their own after LruMask + 1 rounds, however large
\* max_kicks is and whatever the other threads do to the buckets between the
\* kicks (bucket.rs, kick_lru).
LruChainBounded ==
  LruEnabled => \A t \in Threads :
    /\ pc[t] = "place" => frame[t].hand.lru + frame[t].kicks <= LruMask
    /\ pc[t] = "kick" /\ ~new_item(t) => frame[t].hand.lru + frame[t].kicks <= LruMask + 1

\* An insertion that has found both buckets full finds a block to kick, however
\* much the stored ones are used: "For completely new items insertion is
\* guaranteed" (bucket.rs:95).  It takes a counter of less than 32 bits: one that
\* has reached u32::MAX is not below the minimum that a new item starts from.
NewItemKicks ==
  LruEnabled => \A t \in Threads : pc[t] = "kick" /\ new_item(t) => victims(t) # {}

\* No stored block and no block on its way has a TTL of 0: the TTL is reduced
\* "until it reaches 0, when the item is removed" (config.rs:323).  Merges,
\* lookups, kicks and scans keep it positive; a TTL that does not fit its field
\* breaks it (data_block.rs:387).
TtlStaysPositive ==
  TtlEnabled =>
    /\ \A p \in Occupied : buckets[p[1]][p[2]].ttl > 0
    /\ \A t \in Threads : frame[t].hand.fp # 0 => frame[t].hand.ttl > 0

\* Every call returns: no thread is kept kicking or scanning for ever, whatever
\* the others do (filter.rs, max_kicks bounds the kicks).
EveryCallReturns == \A t \in Threads : pc[t] # "idle" ~> pc[t] = "idle"
=============================================================================
