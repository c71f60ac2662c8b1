--------------------------- MODULE CuckooScanProofs ---------------------------
(***************************************************************************)
(* Rounds of scans, for any number of scanners, users, partitions and      *)
(* buckets, and any TTLs that fit: every item that no call touches is aged *)
(* exactly once in a round.                                                *)
(***************************************************************************)
EXTENDS CuckooScan, CuckooFilterProofs

-----------------------------------------------------------------------------
(* Partitions. *)

Part(p) == partition(BucketCount, Total, p)

\* The size of a partition, rounded up: Total of them reach over all buckets.
LEMMA PartSize ==
  /\ part_size(BucketCount, Total) \in Nat \ {0}
  /\ BucketCount <= Total * part_size(BucketCount, Total)
<1> DEFINE n == BucketCount + Total - 1
           m == n \div Total
<1>1. BucketCount \in Nat \ {0} /\ Total \in Nat \ {0}
  BY BucketCountIsPositive, ScanConstants
<1>2. n % Total \in 0 .. Total - 1 /\ m \in Int /\ n = Total * m + (n % Total)
  <2>1. n \in Int
    BY <1>1
  <2> HIDE DEF n
  <2>. QED
    BY <1>1, <2>1, Divided
<1>3. part_size(BucketCount, Total) = m
  BY DEF part_size, div_ceil
<1> DEFINE r == n % Total
           k == Total * m
<1>4. k \in Int
  BY <1>1, <1>2
<1>5. BucketCount <= k
  <2> HIDE DEF r, m, k
  <2>1. BucketCount + Total - 1 = k + r /\ r \in 0 .. Total - 1
    BY <1>2 DEF k, r
  <2>. QED
    BY <1>1, <1>4, <2>1
<1>6. m > 0
  <2> HIDE DEF m
  <2>1. m <= 0 => Total * m <= 0
    BY <1>1, <1>2
  <2>. QED
    BY <1>1, <1>2, <1>5, <2>1
<1>. QED
  BY <1>2, <1>3, <1>5, <1>6

\* Where a partition begins and ends.
LEMMA PartBounds ==
  ASSUME NEW p \in Nat
  PROVE  LET start == part_start(BucketCount, Total, p)
             stop  == part_end(BucketCount, Total, p)
         IN  /\ start \in Nat /\ stop \in Nat /\ stop <= BucketCount
             /\ Part(p) = start .. stop - 1
             /\ start < BucketCount => start < stop
             /\ start = p * part_size(BucketCount, Total)
             /\ stop <= p * part_size(BucketCount, Total) + part_size(BucketCount, Total)
             /\ stop < BucketCount =>
                  stop = p * part_size(BucketCount, Total) + part_size(BucketCount, Total)
<1> DEFINE size == part_size(BucketCount, Total)
<1>1. size \in Nat \ {0} /\ BucketCount \in Nat \ {0}
  BY PartSize, BucketCountIsPositive
<1>2. /\ part_start(BucketCount, Total, p) = p * size
      /\ part_end(BucketCount, Total, p) = IF (p + 1) * size < BucketCount
                                           THEN (p + 1) * size ELSE BucketCount
  BY DEF part_start, part_end
<1> HIDE DEF size
<1>3. p * size \in Nat /\ (p + 1) * size = p * size + size
  BY <1>1
<1>4. Part(p) = part_start(BucketCount, Total, p) .. part_end(BucketCount, Total, p) - 1
  BY DEF Part, partition
<1>. QED
  BY <1>1, <1>2, <1>3, <1>4 DEF size

\* The partitions 0 to Total - 1 have no position in common, and together they have
\* all, whether Total divides the number of buckets or exceeds it (filter.rs,
\* scan_and_update_full_partition).
THEOREM PartsDivide ==
  /\ \A p \in Nat : Part(p) \subseteq 0 .. BucketCount - 1
  /\ \A p, q \in Nat : p # q => Part(p) \cap Part(q) = {}
  /\ \A n \in 0 .. BucketCount - 1 : \E p \in 0 .. Total - 1 : n \in Part(p)
<1> DEFINE size == part_size(BucketCount, Total)
<1>1. size \in Nat \ {0} /\ BucketCount \in Nat \ {0} /\ Total \in Nat \ {0}
  BY PartSize, BucketCountIsPositive, ScanConstants
<1>2. ASSUME NEW p \in Nat
      PROVE  /\ \A n \in Part(p) :
                  n \in Nat /\ n < BucketCount /\ p * size <= n /\ n < p * size + size
             /\ \A n \in Nat :
                  n < BucketCount /\ p * size <= n /\ n < p * size + size => n \in Part(p)
  <2> DEFINE start == part_start(BucketCount, Total, p)
             stop  == part_end(BucketCount, Total, p)
             low   == p * size
  <2>1. /\ start \in Nat /\ stop \in Nat /\ stop <= BucketCount /\ Part(p) = start .. stop - 1
        /\ start = low /\ stop <= low + size /\ (stop < BucketCount => stop = low + size)
    BY PartBounds
  <2> HIDE DEF start, stop, size, low
  <2>. QED
    BY <1>1, <2>1 DEF low
<1> HIDE DEF size
<1>3. ASSUME NEW p \in Nat, NEW q \in Nat, p < q, NEW n \in Part(p) PROVE n \notin Part(q)
  <2>1. size * p + size <= size * q /\ size * p = p * size /\ size * q = q * size
    BY <1>1, <1>3, NextMultiple
  <2>2. p * size \in Nat /\ q * size \in Nat
    BY <1>1
  <2>. QED
    BY <1>1, <1>2, <2>1, <2>2
<1>4. ASSUME NEW p \in Nat, NEW q \in Nat, p # q PROVE Part(p) \cap Part(q) = {}
  BY <1>3, <1>4
<1>5. ASSUME NEW n \in 0 .. BucketCount - 1 PROVE \E p \in 0 .. Total - 1 : n \in Part(p)
  <2> DEFINE p == n \div size
  <2>1. n % size \in 0 .. size - 1 /\ p \in Int /\ n = size * p + (n % size) /\ n \in Nat
    BY <1>1, <1>5, Divided
  <2> HIDE DEF p
  <2>2. size * p = p * size /\ p * size \in Int
    BY <1>1, <2>1
  <2>3. p >= 0
    <3>1. p < 0 => size * p + size <= size * 0
      BY <1>1, <2>1, NextMultiple
    <3>. QED
      BY <1>1, <2>1, <2>2, <3>1
  <2>4. p < Total
    <3>1. BucketCount <= Total * size
      BY PartSize DEF size
    <3>2. Total < p => size * Total + size <= size * p
      BY <1>1, <2>1, NextMultiple
    <3>3. size * Total = Total * size /\ Total * size \in Int
      BY <1>1
    <3>. QED
      BY <1>1, <1>5, <2>1, <2>2, <3>1, <3>2, <3>3
  <2>5. n \in Part(p)
    BY <1>1, <1>2, <1>5, <2>1, <2>2, <2>3
  <2>. QED
    BY <1>1, <2>1, <2>3, <2>4, <2>5
<1>6. \A p \in Nat : Part(p) \subseteq 0 .. BucketCount - 1
  BY <1>1, <1>2
<1>. QED
  BY <1>4, <1>5, <1>6

-----------------------------------------------------------------------------
(* Scanners and users.  A scanner has a range of positions to go through;   *)
(* no two ranges, and no range and no partition that is left, have one in   *)
(* common.                                                                  *)

Remaining(t) == IF pc[t] = "scan" THEN frame[t].pos .. frame[t].stop - 1 ELSE {}

\* The positions, and the buckets, that the round has still to scan.
Awaits(n) == (\E p \in todo : n \in Part(p)) \/ (\E t \in Scanners : n \in Remaining(t))
Awaited == {n \in 0 .. BucketCount - 1 : Awaits(n)}
Ahead == {position(n) : n \in Awaited}

ScannerInv(t) ==
  /\ pc[t] \in {"idle", "scan", "count_sub"}
  /\ pc[t] = "scan" => /\ frame[t].api = "scan_ttl"
                       /\ frame[t].pos < frame[t].stop /\ frame[t].stop <= BucketCount

\* The others do not scan, and they kick for their key.
UserInv(t) ==
  /\ pc[t] # "scan"
  /\ pc[t] = "kick" /\ new_item(t) /\ frame[t].hand.fp # 0 =>
       token(frame[t].hand.fp, frame[t].index) = token(frame[t].fp, frame[t].home)

Apart(t) ==
  /\ \A p \in todo : Remaining(t) \cap Part(p) = {}
  /\ \A u \in Scanners \ {t} : Remaining(t) \cap Remaining(u) = {}

PlanInv ==
  /\ FindableInv /\ TtlInv
  /\ todo \subseteq 0 .. Total - 1
  /\ \A t \in Scanners : ScannerInv(t)
  /\ \A t \in Scanners : Apart(t)
  /\ \A t \in Threads \ Scanners : UserInv(t)

\* A scan starts at the first position of its partition, unless that has none
\* (filter.rs, scan_and_update_full_partition).
LEMMA ScanBegins ==
  ASSUME Shapes, TtlEnabled, NEW t \in Threads, NEW p \in Nat,
         ScanPartition(t, "scan_ttl", <<Total, p>>)
  PROVE  /\ pc[t] = "idle" /\ UNCHANGED <<buckets, items>>
         /\ \A u \in Threads \ {t} : pc'[u] = pc[u] /\ frame'[u] = frame[u]
         /\ frame'[t] \in Frames /\ pc'[t] \in Sections
         /\ frame'[t].hand = ResetBlock /\ frame'[t].update = NoUpdate /\ DOMAIN ret' = Threads
         /\ \/ /\ pc'[t] = "scan" /\ frame'[t].api = "scan_ttl"
               /\ frame'[t].pos < frame'[t].stop /\ frame'[t].stop <= BucketCount
               /\ frame'[t].pos .. frame'[t].stop - 1 = Part(p)
            \/ pc'[t] = "idle" /\ Part(p) = {}
<1> DEFINE start == part_start(BucketCount, Total, p)
           stop  == part_end(BucketCount, Total, p)
           f     == [NoFrame EXCEPT !.api = "scan_ttl", !.pos = start, !.stop = stop]
<1>1. /\ start \in Nat /\ stop \in Nat /\ stop <= BucketCount /\ Part(p) = start .. stop - 1
      /\ start < BucketCount => start < stop
  BY PartBounds
<1>2. BucketCount \in Nat
  BY BucketCountIsPositive
<1>3. ages_ttl("scan_ttl")
  BY DEF ages_ttl
<1>4. \/ start < BucketCount /\ Call(t, "scan_ttl", "scan", f)
      \/ /\ ~(start < BucketCount) /\ pc[t] = "idle" /\ Return(t, Count(0))
         /\ UNCHANGED <<buckets, items>>
  BY <1>3 DEF ScanPartition
<1> HIDE DEF start, stop
<1>5. /\ f \in Frames /\ f.api = "scan_ttl" /\ f.pos = start /\ f.stop = stop
      /\ f.hand = ResetBlock /\ f.update = NoUpdate
  BY <1>1, NoFrameType DEF Frames, AllApis, NoFrame
<1>6. NoFrame.hand = ResetBlock /\ NoFrame.update = NoUpdate /\ NoFrame \in Frames
  BY NoFrameType DEF NoFrame
<1> HIDE DEF f
<1>7. CASE start < BucketCount /\ Call(t, "scan_ttl", "scan", f)
  <2>1. /\ pc[t] = "idle" /\ UNCHANGED <<buckets, items>> /\ pc'[t] = "scan" /\ frame'[t] = f
        /\ \A u \in Threads \ {t} : pc'[u] = pc[u] /\ frame'[u] = frame[u]
        /\ DOMAIN ret' = Threads
    BY <1>7 DEF Call, Goto, Shapes
  <2>. QED
    BY <1>1, <1>5, <1>7, <2>1 DEF Sections
<1>8. CASE /\ ~(start < BucketCount) /\ pc[t] = "idle" /\ Return(t, Count(0))
           /\ UNCHANGED <<buckets, items>>
  <2>1. /\ pc'[t] = "idle" /\ frame'[t] = NoFrame
        /\ \A u \in Threads \ {t} : pc'[u] = pc[u] /\ frame'[u] = frame[u]
        /\ DOMAIN ret' = Threads
    BY <1>8 DEF Return, Goto, Shapes
  <2>2. Part(p) = {}
    BY <1>1, <1>2, <1>8
  <2>. QED
    BY <1>6, <1>8, <2>1, <2>2 DEF Sections
<1>. QED
  BY <1>4, <1>7, <1>8

\* What the filter relies on, holds when a scan has begun.
LEMMA ScanBeginsSafely ==
  ASSUME FindableInv, TtlInv, TtlEnabled, NEW t \in Threads, NEW p \in Nat,
         ScanPartition(t, "scan_ttl", <<Total, p>>)
  PROVE  FindableInv' /\ TtlInv'
<1>1. Shapes
  BY DEF FindableInv, StateOK
<1>2. /\ pc[t] = "idle" /\ UNCHANGED <<buckets, items>>
      /\ \A u \in Threads \ {t} : pc'[u] = pc[u] /\ frame'[u] = frame[u]
      /\ frame'[t] \in Frames /\ pc'[t] \in {"idle", "scan"}
      /\ frame'[t].hand = ResetBlock /\ frame'[t].update = NoUpdate /\ DOMAIN ret' = Threads
  BY <1>1, ScanBegins
<1>3. /\ pc' \in [Threads -> Sections] /\ frame' \in [Threads -> Frames]
  <2>1. /\ \A u \in Threads : pc'[u] \in Sections /\ frame'[u] \in Frames
    BY <1>1, <1>2 DEF Shapes, Sections
  <2>2. (\E x : pc' = [pc EXCEPT ![t] = x]) /\ (\E x : frame' = [frame EXCEPT ![t] = x])
    BY DEF ScanPartition, Call, Return, Goto
  <2>. QED
    BY <1>1, <2>1, <2>2 DEF Shapes
<1>4. StateOK'
  BY <1>1, <1>2, <1>3 DEF FindableInv, StateOK, Shapes, LookupLocals
<1>5. ResetBlock.fp = 0 /\ TtlLeft(ResetBlock) /\ TtlFits(NoUpdate.ttl)
  BY DEF ResetBlock, TtlLeft, TtlFits, NoUpdate
<1>6. \A u \in Threads : HandFindable(u)' /\ NewItemAtHome(u)'
  <2>1. HandFindable(t)' /\ NewItemAtHome(t)'
    BY <1>2, <1>5, EmptyHanded
  <2>2. ASSUME NEW u \in Threads \ {t} PROVE HandFindable(u)' /\ NewItemAtHome(u)'
    BY <1>2 DEF FindableInv, HandFindable, NewItemAtHome, Displaced, new_item, Findable, Pair
  <2>. QED
    BY <2>1, <2>2
<1>7. StoredFindable'
  BY <1>2 DEF FindableInv, StoredFindable, Findable, Pair
<1>8. (\A i \in Buckets : BucketTtlLeft(buckets[i]))'
  BY <1>2 DEF TtlInv, BucketTtlLeft
<1>9. (\A u \in Threads : TtlLeft(frame[u].hand) /\ TtlFits(frame[u].update.ttl))'
  BY <1>2, <1>5 DEF TtlInv, TtlLeft, TtlFits
<1>. QED
  BY <1>4, <1>6, <1>7, <1>8, <1>9 DEF FindableInv, TtlInv

-----------------------------------------------------------------------------
(* What a user of the filter writes. *)

\* Thread t may write token x: it is that of its call, or of the block that it moves.
WritesFor(t, x) ==
  \/ x = token(frame[t].fp, frame[t].home)
  \/ Displaced(t) /\ x = token(frame[t].hand.fp, frame[t].index)

\* The token of a call is the same at both of its buckets.
LEMMA CalledToken ==
  ASSUME Shapes, NEW t \in Threads, NEW i \in {frame[t].home, second(t)}
  PROVE  i \in Buckets /\ token(frame[t].fp, i) = token(frame[t].fp, frame[t].home)
BY LocalTypes, TokenOther DEF second

\* A lookup updates one block, one of its key (bucket.rs, contains).
LEMMA HitWrites ==
  ASSUME Shapes, NEW t \in Threads, NEW i \in {frame[t].home, second(t)}, Hit(t, i),
         NEW j \in Buckets, NEW r \in Slots, buckets'[j][r] # buckets[j][r]
  PROVE  WritesFor(t, token(buckets'[j][r].fp, j))
<1> DEFINE b == buckets[i]
           s == first(holding(b, frame[t].fp))
           new == touch(b[s], frame[t].update)
<1>1. i \in Buckets /\ b \in BucketStates /\ frame[t].update \in LookupValues
  BY CalledToken, LocalTypes, BucketOf
<1>2. s \in Slots /\ b[s].fp = frame[t].fp
  <2>1. holding(b, frame[t].fp) # {}
    BY DEF Hit, contains
  <2>2. s \in holding(b, frame[t].fp)
    BY <2>1, FirstSlot DEF holding
  <2>. QED
    BY <2>2 DEF holding
<1>3. new.fp = frame[t].fp
  BY <1>1, <1>2, BlockOf, TouchType
<1>4. buckets' = [buckets EXCEPT ![i] = [b EXCEPT ![s] = new]]
  BY DEF Hit, look_up
<1> HIDE DEF s, new
<1>5. j = i /\ r = s /\ buckets'[j][r] = new
  BY <1>1, <1>2, <1>4 DEF Shapes, BucketStates
<1>. QED
  BY <1>3, <1>5, CalledToken DEF WritesFor

\* A user writes only blocks of its key, and the block that it moves (filter.rs,
\* all methods but the scans).
LEMMA UserWrites ==
  ASSUME FindableInv, NEW t \in Threads, pc[t] # "scan", UserInv(t), Continue(t),
         NEW j \in Buckets, NEW r \in Slots,
         buckets'[j][r] # buckets[j][r], buckets'[j][r].fp # 0
  PROVE  WritesFor(t, token(buckets'[j][r].fp, j))
<1>1. Shapes /\ NewItemAtHome(t)
  BY DEF FindableInv, StateOK
<1>2. /\ frame[t].hand \in DataBlocks /\ frame[t].index \in Buckets
      /\ frame[t].home \in Buckets /\ second(t) \in Buckets
  BY <1>1, LocalTypes
<1>3. ASSUME NEW i \in {frame[t].home, second(t)}, Hit(t, i)
      PROVE  WritesFor(t, token(buckets'[j][r].fp, j))
  BY <1>1, <1>3, HitWrites
<1>4. ASSUME NEW i \in Buckets, Land(t, i)
      PROVE  j = i /\ buckets'[j][r].fp = frame[t].hand.fp
  <2> DEFINE new == insert(buckets[i], frame[t].hand)
  <2>1. PICK s \in Slots : /\ new[s].fp = frame[t].hand.fp
                           /\ \A q \in Slots \ {s} : new[q] = buckets[i][q]
    BY <1>1, <1>2, <1>4, InsertType, BucketOf DEF Land
  <2>2. buckets' = [buckets EXCEPT ![i] = new]
    BY <1>4 DEF Land
  <2> HIDE DEF new
  <2>. QED
    BY <1>1, <2>1, <2>2 DEF Shapes
<1>5. ASSUME pc[t] \in {"insert_i1", "insert_i2"}, NEW i \in {frame[t].home, second(t)}, Land(t, i)
      PROVE  WritesFor(t, token(buckets'[j][r].fp, j))
  <2>1. j = i /\ buckets'[j][r].fp = frame[t].hand.fp
    BY <1>1, <1>4, <1>5, CalledToken
  <2>2. frame[t].fp = frame[t].hand.fp
    BY <1>1, <1>5, <2>1 DEF NewItemAtHome
  <2>. QED
    BY <1>1, <2>1, <2>2, CalledToken DEF WritesFor
<1>6. CASE LookFirst(t) \/ LookSecond(t)
  BY <1>3, <1>6 DEF LookFirst, LookSecond
<1>7. CASE InsertFirst(t) \/ InsertSecond(t)
  BY <1>5, <1>7 DEF InsertFirst, InsertSecond, Full
<1>8. CASE Place(t)
  <2>1. pc[t] = "place" /\ Land(t, frame[t].index)
    BY <1>8 DEF Place, Full
  <2>2. j = frame[t].index /\ buckets'[j][r].fp = frame[t].hand.fp
    BY <1>2, <1>4, <2>1
  <2>. QED
    BY <2>1, <2>2 DEF WritesFor, Displaced
<1>9. CASE Kick(t)
  <2> DEFINE i == frame[t].index
  <2>1. PICK s \in victims(t) : buckets' = [buckets EXCEPT ![i] = swap(@, s, frame[t].hand)]
    BY <1>9 DEF Kick
  <2>2. /\ \A q \in Slots : swap(buckets[i], s, frame[t].hand)[q]
                              = IF q = s THEN frame[t].hand ELSE buckets[i][q]
    BY <1>1, <1>2, SwapType, BucketOf, VictimTypes
  <2>3. j = i /\ buckets'[j][r] = frame[t].hand
    <3> DEFINE new == swap(buckets[i], s, frame[t].hand)
    <3>1. buckets' = [buckets EXCEPT ![i] = new]
      BY <2>1
    <3> HIDE DEF new
    <3>2. buckets'[i] = new /\ \A h \in Buckets \ {i} : buckets'[h] = buckets[h]
      BY <1>1, <1>2, <3>1 DEF Shapes
    <3>. QED
      BY <2>2, <3>2 DEF new
  <2>4. pc[t] = "kick"
    BY <1>9 DEF Kick
  <2>. QED
    BY <2>3, <2>4 DEF WritesFor, Displaced, UserInv
<1>10. CASE RemoveFirst(t) \/ RemoveSecond(t)
  <2>1. PICK i \in Buckets : Clear(t, i)
    BY <1>2, <1>10 DEF RemoveFirst, RemoveSecond
  <2>2. PICK s \in Slots : remove(buckets[i], frame[t].fp) = [buckets[i] EXCEPT ![s] = ResetBlock]
    BY <1>1, <2>1, RemoveType, BucketOf DEF Clear
  <2>3. buckets' = [buckets EXCEPT ![i] = [buckets[i] EXCEPT ![s] = ResetBlock]]
    BY <2>1, <2>2 DEF Clear
  <2>4. buckets[i] \in [Slots -> DataBlocks] /\ ResetBlock.fp = 0
    BY <1>1 DEF Shapes, BucketStates, ResetBlock
  <2>. QED
    BY <1>1, <2>3, <2>4 DEF Shapes
<1>11. CASE CountAdd(t) \/ CountSub(t)
  BY <1>11 DEF CountAdd, CountSub
<1>12. ~Scan(t)
  BY DEF Scan
<1>. QED
  BY <1>6, <1>7, <1>8, <1>9, <1>10, <1>11, <1>12 DEF Continue

\* The users call no scan.
LEMMA NoScanBegins ==
  ASSUME Shapes, Partitions = {}, NEW t \in Threads, Begin(t)
  PROVE  pc[t] = "idle" /\ pc'[t] \notin {"scan", "kick", "place"}
<1>1. pc[t] = "idle" /\ ~CallScan(t)
  BY BeginForms DEF CallScan
<1>2. ASSUME NEW api, NEW section, NEW locals, Call(t, api, section, locals)
      PROVE  pc' = [pc EXCEPT ![t] = section]
  BY <1>2 DEF Call, Goto
<1>3. CASE GetItemCount(t)
  BY <1>1, <1>3 DEF GetItemCount, Return, Goto, Shapes
<1>4. CASE CallInsert(t) \/ CallInsertIfNotPresent(t)
  <2>1. \E section \in {"insert_i1", "look_i1"} : pc' = [pc EXCEPT ![t] = section]
    BY <1>2, <1>4 DEF CallInsert, CallInsertIfNotPresent
  <2>. QED
    BY <1>1, <2>1 DEF Shapes
<1>5. CASE CallContains(t) \/ CallGetAssociatedData(t) \/ CallRemove(t)
  <2>1. \E section \in {"remove_i1", "look_i1"} : pc' = [pc EXCEPT ![t] = section]
    BY <1>2, <1>5 DEF CallContains, CallGetAssociatedData, CallRemove
  <2>. QED
    BY <1>1, <2>1 DEF Shapes
<1>. QED
  BY <1>1, <1>3, <1>4, <1>5 DEF Begin

\* A section that ends a call, but for the counter, forgets the key.
LEMMA EndsForget ==
  ASSUME Shapes, NEW t \in Threads, Continue(t), pc'[t] \in {"idle", "count_add", "count_sub"}
  PROVE  frame'[t].fp = 0
<1>1. CASE pc'[t] # "count_sub"
  BY <1>1, EndsEmpty DEF NoFrame
<1>2. CASE pc'[t] = "count_sub"
  <2>1. ASSUME NEW api, NEW n,
               frame' = [frame EXCEPT ![t] = [NoFrame EXCEPT !.api = api, !.removed = n]]
        PROVE  frame'[t].fp = 0
    BY <2>1 DEF NoFrame, Shapes
  <2>2. ASSUME NEW i, Clear(t, i) PROVE frame'[t].fp = 0
    BY <2>1, <2>2 DEF Clear
  <2>3. CASE Scan(t)
    <3>1. PICK n : frame' = [frame EXCEPT ![t] = [NoFrame EXCEPT !.api = frame[t].api,
                                                                 !.removed = n]]
      BY <1>2, <2>3 DEF Scan, Return, Goto, Shapes
    <3>. QED
      BY <2>1, <3>1
  <2>4. CASE LookFirst(t) \/ LookSecond(t) \/ CountAdd(t) \/ CountSub(t)
    BY <1>2, <2>4 DEF LookFirst, LookSecond, Hit, CountAdd, CountSub, Return, Goto, Shapes
  <2>5. CASE InsertFirst(t) \/ InsertSecond(t) \/ Kick(t) \/ Place(t)
    BY <1>2, <2>5 DEF InsertFirst, InsertSecond, Land, Kick, Place, Return, Goto, Shapes
  <2>6. CASE RemoveFirst(t) \/ RemoveSecond(t)
    BY <1>2, <2>2, <2>6 DEF RemoveFirst, RemoveSecond, Return, Goto, Shapes
  <2>. QED
    BY <2>3, <2>4, <2>5, <2>6 DEF Continue
<1>. QED
  BY <1>1, <1>2

\* A user kicks for its key, and keeps the key until it forgets it.
LEMMA UserContinues ==
  ASSUME FindableInv, NEW t \in Threads, UserInv(t), Continue(t)
  PROVE  /\ UserInv(t)'
         /\ \/ frame'[t].fp = 0
            \/ frame'[t].fp = frame[t].fp /\ frame'[t].home = frame[t].home
<1>1. Shapes /\ NewItemAtHome(t) /\ frame[t].kicks \in Nat /\ pc[t] # "scan"
  BY DEF FindableInv, StateOK, UserInv, Shapes, Frames
<1>2. CASE pc'[t] \in {"idle", "count_add", "count_sub"}
  <2>1. frame'[t].fp = 0 /\ pc'[t] # "scan" /\ pc'[t] # "kick"
    BY <1>1, <1>2, EndsForget
  <2>2. UserInv(t)'
    BY <2>1 DEF UserInv
  <2>. QED
    BY <2>1, <2>2
<1>3. CASE GoesToNext(t) \/ TakesOut(t)
  BY <1>3 DEF GoesToNext, TakesOut, SameKey, UserInv
<1>4. CASE StartsToKick(t)
  <2>1. /\ pc[t] = "insert_i2" /\ pc'[t] = "kick" /\ SameKey(t)
        /\ frame'[t].index \in {frame[t].home, second(t)} /\ frame'[t].hand = frame[t].hand
    BY <1>4 DEF StartsToKick
  <2>2. frame[t].hand.fp # 0 => frame[t].hand.fp = frame[t].fp
    BY <1>1, <2>1 DEF NewItemAtHome
  <2>3. token(frame[t].fp, frame'[t].index) = token(frame[t].fp, frame[t].home)
    BY <1>1, <2>1, CalledToken
  <2>. QED
    BY <2>1, <2>2, <2>3 DEF UserInv, SameKey, token, Pair
<1>5. CASE KicksOn(t)
  <2>1. pc'[t] = "kick" /\ SameKey(t) /\ frame'[t].kicks = frame[t].kicks + 1
    BY <1>5 DEF KicksOn
  <2>2. frame'[t].kicks # 0
    BY <1>1, <2>1
  <2>. QED
    BY <2>1, <2>2 DEF UserInv, SameKey, new_item
<1>. QED
  BY <1>1, <1>2, <1>3, <1>4, <1>5, ContinueForms

-----------------------------------------------------------------------------
(* What a scanner does. *)

\* A scan of the bucket at the position of t ages every item in it (bucket.rs,
\* age_ttl_counters).
ScansOne(t) ==
  /\ pc[t] = "scan"
  /\ \A j \in Buckets, s \in Slots :
       buckets'[j][s] = IF j = position(frame[t].pos) /\ buckets[j][s].fp # 0
                        THEN age_ttl_counter(buckets[j][s]) ELSE buckets[j][s]
  /\ \/ /\ pc'[t] = "scan" /\ frame'[t].api = "scan_ttl"
        /\ frame'[t].pos = frame[t].pos + 1 /\ frame'[t].stop = frame[t].stop
        /\ frame[t].pos + 1 < frame[t].stop
     \/ pc'[t] \in {"idle", "count_sub"} /\ frame[t].pos + 1 >= frame[t].stop

\* A scanner scans the next bucket that remains, or subtracts what it has removed
\* (filter.rs, scan_and_update_full_partition).
LEMMA ScannerContinues ==
  ASSUME Shapes, TtlEnabled, NEW t \in Threads, ScannerInv(t), Continue(t)
  PROVE  \/ ScansOne(t)
         \/ pc[t] = "count_sub" /\ pc'[t] = "idle" /\ UNCHANGED buckets
<1>1. Scan(t) \/ CountSub(t)
  BY DEF ScannerInv, Continue, LookFirst, LookSecond, InsertFirst, InsertSecond, Kick, Place,
         CountAdd, RemoveFirst, RemoveSecond
<1>2. CASE CountSub(t)
  BY <1>2 DEF CountSub, Return, Goto, Shapes
<1>3. CASE Scan(t)
  <2> DEFINE i == position(frame[t].pos)
             new == age_ttl_counters(buckets[i])
  <2>1. /\ pc[t] = "scan" /\ frame[t].api = "scan_ttl" /\ frame[t] \in Frames
    BY <1>3 DEF Scan, ScannerInv, Shapes
  <2>2. ~ages_lru("scan_ttl") /\ ages_ttl("scan_ttl")
    BY DEF ages_lru, ages_ttl
  <2>3. buckets' = [buckets EXCEPT ![i] = new]
    BY <1>3, <2>1, <2>2 DEF Scan
  <2>4. i \in Buckets
    BY IndexTypes
  <2>5. \A s \in Slots : new[s] = IF buckets[i][s].fp # 0 THEN age_ttl_counter(buckets[i][s])
                                  ELSE buckets[i][s]
    BY DEF age_ttl_counters, occupied, is_empty
  <2> HIDE DEF new, i
  <2>6. \A j \in Buckets, s \in Slots :
       buckets'[j][s] = IF j = i /\ buckets[j][s].fp # 0
                        THEN age_ttl_counter(buckets[j][s]) ELSE buckets[j][s]
    BY <2>3, <2>4, <2>5 DEF Shapes
  <2>7. \/ /\ frame[t].pos + 1 < frame[t].stop /\ UNCHANGED pc
           /\ \E n : frame' = [frame EXCEPT ![t].pos = @ + 1, ![t].removed = n]
        \/ pc'[t] \in {"idle", "count_sub"} /\ frame[t].pos + 1 >= frame[t].stop
    BY <1>3 DEF Scan, Return, Goto, Shapes
  <2>8. CASE /\ frame[t].pos + 1 < frame[t].stop /\ UNCHANGED pc
             /\ \E n : frame' = [frame EXCEPT ![t].pos = @ + 1, ![t].removed = n]
    <3>1. PICK n : frame'[t] = [frame[t] EXCEPT !.pos = @ + 1, !.removed = n]
      BY <2>8 DEF Shapes
    <3>2. /\ frame'[t].api = frame[t].api /\ frame'[t].pos = frame[t].pos + 1
          /\ frame'[t].stop = frame[t].stop
      BY <2>1, <3>1 DEF Frames
    <3>. QED
      BY <2>1, <2>6, <2>8, <3>2 DEF ScansOne, i
  <2>. QED
    BY <2>1, <2>6, <2>7, <2>8 DEF ScansOne, i
<1>. QED
  BY <1>1, <1>2, <1>3

-----------------------------------------------------------------------------
(* How the plan of a round changes. *)

\* A thread that does nothing keeps its plan.
LEMMA ThreadRests ==
  ASSUME NEW u \in Threads, pc'[u] = pc[u], frame'[u] = frame[u]
  PROVE  /\ Remaining(u)' = Remaining(u)
         /\ ScannerInv(u) => ScannerInv(u)'
         /\ UserInv(u) => UserInv(u)'
BY DEF Remaining, ScannerInv, UserInv, new_item, token, Pair

\* A scanner takes one position of those that remain to it.
TakesPosition(t) ==
  /\ ScansOne(t) /\ frame[t].pos \in Remaining(t)
  /\ Remaining(t)' = Remaining(t) \ {frame[t].pos}

\* It never goes back (filter.rs, scan_and_update_full_partition).
LEMMA ScannerPlan ==
  ASSUME Shapes, TtlEnabled, NEW t \in Threads, ScannerInv(t), Continue(t)
  PROVE  /\ ScannerInv(t)'
         /\ \/ TakesPosition(t)
            \/ Remaining(t) = {} /\ Remaining(t)' = {} /\ UNCHANGED buckets
<1>1. frame[t].pos \in Nat /\ frame[t].stop \in Nat /\ BucketCount \in Nat
  BY BucketCountIsPositive DEF Shapes, Frames
<1>2. CASE ScansOne(t)
  <2>1. /\ pc[t] = "scan" /\ frame[t].pos < frame[t].stop /\ frame[t].stop <= BucketCount
        /\ Remaining(t) = frame[t].pos .. frame[t].stop - 1
    BY <1>2 DEF ScansOne, ScannerInv, Remaining
  <2>2. CASE /\ pc'[t] = "scan" /\ frame'[t].api = "scan_ttl"
             /\ frame'[t].pos = frame[t].pos + 1 /\ frame'[t].stop = frame[t].stop
             /\ frame[t].pos + 1 < frame[t].stop
    <3>1. Remaining(t)' = frame[t].pos + 1 .. frame[t].stop - 1
      BY <2>2 DEF Remaining
    <3>2. Remaining(t)' = Remaining(t) \ {frame[t].pos}
      BY <1>1, <2>1, <3>1
    <3>3. ScannerInv(t)'
      BY <2>1, <2>2 DEF ScannerInv, BucketCount
    <3>. QED
      BY <1>1, <1>2, <2>1, <3>2, <3>3 DEF TakesPosition
  <2>3. CASE pc'[t] \in {"idle", "count_sub"} /\ frame[t].pos + 1 >= frame[t].stop
    <3>1. Remaining(t)' = {} /\ ScannerInv(t)'
      BY <2>3 DEF Remaining, ScannerInv
    <3>2. Remaining(t) = {frame[t].pos}
      BY <1>1, <2>1, <2>3
    <3>. QED
      BY <1>2, <3>1, <3>2 DEF TakesPosition
  <2>. QED
    BY <1>2, <2>2, <2>3 DEF ScansOne
<1>3. CASE pc[t] = "count_sub" /\ pc'[t] = "idle" /\ UNCHANGED buckets
  BY <1>3 DEF Remaining, ScannerInv
<1>. QED
  BY <1>2, <1>3, ScannerContinues

\* What remains to a scanner are positions in the Vec.
LEMMA RemainingPositions ==
  ASSUME PlanInv, NEW t \in Scanners, NEW n \in Remaining(t)
  PROVE  n \in 0 .. BucketCount - 1
<1>1. ScannerInv(t) /\ frame[t].pos \in Nat /\ frame[t].stop \in Nat /\ BucketCount \in Nat
  BY BucketCountIsPositive, ScanConstants DEF PlanInv, FindableInv, StateOK, Shapes, Frames
<1>2. pc[t] = "scan" /\ n \in frame[t].pos .. frame[t].stop - 1
  BY DEF Remaining
<1>3. frame[t].stop <= BucketCount
  BY <1>1, <1>2 DEF ScannerInv
<1>. QED
  BY <1>1, <1>2, <1>3

\* What is awaited after a step.
LEMMA AwaitedNext ==
  /\ Awaited' = {n \in 0 .. BucketCount - 1 : Awaits(n)'}
  /\ \A n : Awaits(n)' <=> \/ \E p \in todo' : n \in Part(p)
                           \/ \E u \in Scanners : n \in Remaining(u)'
  /\ Ahead' = {position(n) : n \in Awaited'}
BY DEF Awaited, Awaits, Part, partition, part_start, part_end, part_size, div_ceil, BucketCount,
       Ahead, position, MaskBits

\* When no position is taken or planned anew, the same buckets are ahead.
LEMMA SameAhead ==
  ASSUME \A n : Awaits(n)' <=> Awaits(n)
  PROVE  Ahead' = Ahead
<1>1. Awaited' = Awaited
  BY AwaitedNext DEF Awaited
<1>. QED
  BY <1>1, AwaitedNext DEF Ahead

\* A scanner that begins goes for a partition that was left.
LEMMA BeginKeepsAhead ==
  ASSUME NEW t \in Scanners, NEW p \in todo, todo' = todo \ {p},
         Remaining(t) = {}, Remaining(t)' = Part(p),
         \A u \in Scanners \ {t} : Remaining(u)' = Remaining(u)
  PROVE  Ahead' = Ahead
<1>1. ASSUME NEW n PROVE Awaits(n)' <=> Awaits(n)
  <2>1. Awaits(n)' <=> \/ \E q \in todo \ {p} : n \in Part(q)
                       \/ \E u \in Scanners : n \in Remaining(u)'
    BY AwaitedNext
  <2>2. (\E u \in Scanners : n \in Remaining(u)')
            <=> n \in Part(p) \/ \E u \in Scanners \ {t} : n \in Remaining(u)
    OBVIOUS
  <2>3. (\E u \in Scanners : n \in Remaining(u))
            <=> \E u \in Scanners \ {t} : n \in Remaining(u)
    OBVIOUS
  <2>4. (\E q \in todo : n \in Part(q)) <=> n \in Part(p) \/ \E q \in todo \ {p} : n \in Part(q)
    OBVIOUS
  <2>. QED
    BY <2>1, <2>2, <2>3, <2>4 DEF Awaits
<1>. QED
  BY <1>1, SameAhead

\* A scanner that takes a position leaves its bucket, and no other, behind.
LEMMA ScanLeavesBehind ==
  ASSUME PlanInv, NEW t \in Scanners, TakesPosition(t), todo' = todo,
         \A u \in Scanners \ {t} : Remaining(u)' = Remaining(u)
  PROVE  /\ position(frame[t].pos) \in Ahead
         /\ Ahead' = Ahead \ {position(frame[t].pos)}
<1> DEFINE n == frame[t].pos
<1>1. n \in Remaining(t) /\ Remaining(t)' = Remaining(t) \ {n} /\ Apart(t)
  BY DEF TakesPosition, PlanInv
<1> HIDE DEF n
<1>2. n \in Awaited
  BY <1>1, RemainingPositions DEF Awaited, Awaits
<1>3. /\ \A q \in todo : n \notin Part(q)
      /\ \A u \in Scanners \ {t} : n \notin Remaining(u)
  BY <1>1 DEF Apart
<1>4. ASSUME NEW m PROVE Awaits(m)' <=> Awaits(m) /\ m # n
  <2>1. Awaits(m)' <=> \/ \E q \in todo : m \in Part(q)
                       \/ \E u \in Scanners : m \in Remaining(u)'
    BY AwaitedNext
  <2>2. (\E u \in Scanners : m \in Remaining(u)')
            <=> m # n /\ \E u \in Scanners : m \in Remaining(u)
    BY <1>1, <1>3
  <2>. QED
    BY <1>3, <2>1, <2>2 DEF Awaits
<1>5. Awaited' = Awaited \ {n}
  BY <1>4, AwaitedNext DEF Awaited
<1>6. ASSUME NEW m \in Awaited, position(m) = position(n) PROVE m = n
  BY <1>2, <1>6, PositionsDiffer DEF Awaited
<1>. QED
  BY <1>2, <1>5, <1>6, AwaitedNext DEF Ahead, n

-----------------------------------------------------------------------------
(* The plan of a round holds. *)

\* The filter keeps what it relies on in every step but the beginning of a scan.
LEMMA FilterStep ==
  ASSUME PlanInv, TtlsFit, [Next]_vars
  PROVE  FindableInv' /\ TtlInv'
BY FindableInvStep, TtlInvStep DEF PlanInv

\* What keeps a scanner apart after a step.
LEMMA ApartNext ==
  ASSUME NEW u \in Scanners
  PROVE  Apart(u)' <=> /\ \A p \in todo' : Remaining(u)' \cap Part(p) = {}
                       /\ \A v \in Scanners \ {u} : Remaining(u)' \cap Remaining(v)' = {}
BY DEF Apart, Part, partition, part_start, part_end, part_size, div_ceil, BucketCount

\* A round starts with every bucket ahead (filter.rs, scan_and_update_full_partition).
LEMMA RoundPlan ==
  ASSUME PlanInv, TtlsFit, RoundStart
  PROVE  PlanInv' /\ \A i \in Buckets : i \in Ahead'
<1>1. /\ UNCHANGED vars /\ todo' = 0 .. Total - 1
      /\ \A u \in Scanners : pc[u] = "idle"
  BY DEF RoundStart, RoundOver
<1>2. FindableInv' /\ TtlInv'
  BY <1>1, FilterStep
<1>3. \A u \in Threads : pc'[u] = pc[u] /\ frame'[u] = frame[u]
  BY <1>1 DEF vars
<1>4. \A u \in Scanners : Remaining(u)' = {} /\ ScannerInv(u)'
  BY <1>1, <1>3, ThreadRests, ScanConstants DEF Remaining, PlanInv
<1>5. \A u \in Scanners : Apart(u)'
  BY <1>4, ApartNext
<1>6. \A u \in Threads \ Scanners : UserInv(u)'
  BY <1>3, ThreadRests DEF PlanInv
<1>7. \A i \in Buckets : i \in Ahead'
  <2> SUFFICES ASSUME NEW i \in Buckets PROVE i \in Ahead'
    OBVIOUS
  <2>1. PICK n \in 0 .. BucketCount - 1 : position(n) = i
    BY PositionsReachAll
  <2>2. Awaits(n)'
    BY <1>1, PartsDivide, AwaitedNext
  <2>. QED
    BY <2>1, <2>2, AwaitedNext
<1>. QED
  BY <1>1, <1>2, <1>4, <1>5, <1>6, <1>7 DEF PlanInv

\* Ranges and partitions stay apart when one scanner has no more than it had.
LEMMA ApartStays ==
  ASSUME NEW t \in Scanners, \A u \in Scanners : Apart(u), todo' \subseteq todo,
         Remaining(t)' \subseteq Remaining(t),
         \A u \in Scanners \ {t} : Remaining(u)' = Remaining(u)
  PROVE  \A u \in Scanners : Apart(u)'
<1>1. \A u \in Scanners : Remaining(u)' \subseteq Remaining(u)
  OBVIOUS
<1>2. ASSUME NEW u \in Scanners PROVE Apart(u)'
  <2>1. \A p \in todo' : Remaining(u)' \cap Part(p) = {}
    BY <1>1 DEF Apart
  <2>2. \A v \in Scanners \ {u} : Remaining(u)' \cap Remaining(v)' = {}
    BY <1>1 DEF Apart
  <2>. QED
    BY <2>1, <2>2, ApartNext
<1>. QED
  BY <1>2

\* The plan holds when a thread has made a step (filter.rs, all methods), if its
\* own part of it does.
LEMMA PlanOf ==
  ASSUME PlanInv, FindableInv', TtlInv', NEW t \in Threads, Shapes,
         \A u \in Threads \ {t} : pc'[u] = pc[u] /\ frame'[u] = frame[u],
         t \in Scanners => ScannerInv(t)', t \notin Scanners => UserInv(t)',
         \A u \in Scanners : Apart(u)', todo' \subseteq todo
  PROVE  PlanInv'
<1>1. \A u \in Scanners : ScannerInv(u)'
  BY ThreadRests, ScanConstants DEF PlanInv
<1>2. \A u \in Threads \ Scanners : UserInv(u)'
  BY ThreadRests DEF PlanInv
<1>. QED
  BY <1>1, <1>2 DEF PlanInv

\* A scanner takes a partition.
LEMMA PlanBegins ==
  ASSUME PlanInv, TtlEnabled, NEW t \in Scanners, NEW p \in todo,
         ScanPartition(t, "scan_ttl", <<Total, p>>), todo' = todo \ {p}
  PROVE  PlanInv' /\ UNCHANGED buckets /\ Ahead' = Ahead
<1>1. Shapes /\ FindableInv /\ TtlInv /\ t \in Threads /\ p \in Nat
  BY ScanConstants DEF PlanInv, FindableInv, StateOK
<1>2. /\ pc[t] = "idle" /\ UNCHANGED buckets
      /\ \A u \in Threads \ {t} : pc'[u] = pc[u] /\ frame'[u] = frame[u]
      /\ \/ /\ pc'[t] = "scan" /\ frame'[t].api = "scan_ttl"
            /\ frame'[t].pos < frame'[t].stop /\ frame'[t].stop <= BucketCount
            /\ frame'[t].pos .. frame'[t].stop - 1 = Part(p)
         \/ pc'[t] = "idle" /\ Part(p) = {}
  BY <1>1, ScanBegins
<1>3. Remaining(t) = {} /\ Remaining(t)' = Part(p) /\ ScannerInv(t)'
  BY <1>2 DEF Remaining, ScannerInv, BucketCount
<1>4. \A u \in Scanners \ {t} : Remaining(u)' = Remaining(u)
  BY <1>2, ThreadRests, ScanConstants
<1>5. FindableInv' /\ TtlInv'
  BY <1>1, ScanBeginsSafely
<1>6. ASSUME NEW u \in Scanners PROVE Apart(u)'
  <2>1. \A v \in Scanners : Apart(v)
    BY DEF PlanInv
  <2>2. \A q \in todo' : q # p /\ q \in todo /\ q \in Nat
    BY ScanConstants DEF PlanInv
  <2>3. \A q \in todo' : Part(p) \cap Part(q) = {}
    BY <1>1, <2>2, PartsDivide
  <2>4. \A q \in todo' : Remaining(u)' \cap Part(q) = {}
    BY <1>3, <1>4, <2>1, <2>2, <2>3 DEF Apart
  <2>5. \A v \in Scanners \ {t} : Remaining(v) \cap Part(p) = {}
    BY <2>1 DEF Apart
  <2>6. \A v \in Scanners \ {u} : Remaining(u)' \cap Remaining(v)' = {}
    BY <1>3, <1>4, <2>1, <2>5 DEF Apart
  <2>. QED
    BY <2>4, <2>6, ApartNext
<1>7. PlanInv'
  BY <1>1, <1>2, <1>3, <1>5, <1>6, PlanOf
<1>8. Ahead' = Ahead
  BY <1>3, <1>4, BeginKeepsAhead
<1>. QED
  BY <1>2, <1>7, <1>8

\* It goes on with its own.
LEMMA PlanContinues ==
  ASSUME PlanInv, TtlEnabled, TtlsFit, NEW t \in Scanners, Continue(t), todo' = todo
  PROVE  /\ PlanInv'
         /\ \/ ScansOne(t) /\ position(frame[t].pos) \in Ahead
               /\ Ahead' = Ahead \ {position(frame[t].pos)}
            \/ UNCHANGED buckets /\ Ahead' = Ahead
<1>1. Shapes /\ t \in Threads /\ ScannerInv(t) /\ [Next]_vars
  BY ScanConstants DEF PlanInv, FindableInv, StateOK, Next
<1>2. \A u \in Threads \ {t} : pc'[u] = pc[u] /\ frame'[u] = frame[u]
  BY <1>1, OthersUnchanged
<1>3. \A u \in Scanners \ {t} : Remaining(u)' = Remaining(u)
  BY <1>2, ThreadRests, ScanConstants
<1>4. /\ ScannerInv(t)'
      /\ \/ TakesPosition(t)
         \/ Remaining(t) = {} /\ Remaining(t)' = {} /\ UNCHANGED buckets
  BY <1>1, ScannerPlan
<1>5. Remaining(t)' \subseteq Remaining(t)
  BY <1>4 DEF TakesPosition
<1>6. \A u \in Scanners : Apart(u)'
  BY <1>3, <1>5, ApartStays DEF PlanInv
<1>7. FindableInv' /\ TtlInv'
  BY <1>1, FilterStep
<1>8. PlanInv'
  BY <1>1, <1>2, <1>4, <1>6, <1>7, PlanOf
<1>9. CASE TakesPosition(t)
  BY <1>3, <1>8, <1>9, ScanLeavesBehind DEF TakesPosition
<1>10. CASE Remaining(t) = {} /\ Remaining(t)' = {} /\ UNCHANGED buckets
  <2>1. \A u \in Scanners : Remaining(u)' = Remaining(u)
    BY <1>3, <1>10
  <2>2. \A n : Awaits(n)' <=> Awaits(n)
    BY <2>1, AwaitedNext DEF Awaits
  <2>. QED
    BY <1>8, <1>10, <2>2, SameAhead
<1>. QED
  BY <1>4, <1>9, <1>10

\* A user leaves the plan alone.
LEMMA PlanUsed ==
  ASSUME PlanInv, TtlsFit, Partitions = {}, NEW t \in Threads \ Scanners,
         Begin(t) \/ Continue(t), todo' = todo
  PROVE  PlanInv' /\ Ahead' = Ahead
<1>1. Shapes /\ FindableInv /\ UserInv(t) /\ [Next]_vars
  BY DEF PlanInv, FindableInv, StateOK, Next
<1>2. \A u \in Threads \ {t} : pc'[u] = pc[u] /\ frame'[u] = frame[u]
  BY <1>1, OthersUnchanged
<1>3. \A u \in Scanners : Remaining(u)' = Remaining(u)
  BY <1>2, ThreadRests, ScanConstants
<1>4. \A u \in Scanners : Apart(u)'
  BY <1>3, ApartNext DEF PlanInv, Apart
<1>5. UserInv(t)'
  <2>1. CASE Begin(t)
    <3>1. pc'[t] # "scan" /\ pc'[t] # "kick"
      BY <1>1, <2>1, NoScanBegins
    <3>. QED
      BY <3>1 DEF UserInv
  <2>. QED
    BY <1>1, <2>1, UserContinues
<1>6. FindableInv' /\ TtlInv'
  BY <1>1, FilterStep
<1>7. PlanInv'
  BY <1>1, <1>2, <1>4, <1>5, <1>6, PlanOf
<1>8. \A n : Awaits(n)' <=> Awaits(n)
  BY <1>3, AwaitedNext DEF Awaits
<1>. QED
  BY <1>7, <1>8, SameAhead

-----------------------------------------------------------------------------
(* The items of a round.  One that no call touches has the TTL that it had  *)
(* when the round began, less 1 if its bucket has been scanned.             *)

At(i, s, x) == buckets[i][s].fp # 0 /\ token(buckets[i][s].fp, i) = x

Held(x) == x \in DisplacedTokens \/ x \in CalledFor

OnTime(x) ==
  \A i \in Buckets, s \in Slots : At(i, s, x) =>
    buckets[i][s].ttl = IF i \in Ahead THEN before[x] ELSE before[x] - 1

LeftAlone(x) ==
  /\ x[1] # 0 /\ before[x] \in Nat \ {0} /\ ~Held(x) /\ OnTime(x)
  /\ before[x] > 1 => \E i \in Buckets, s \in Slots : At(i, s, x)

RoundInv == \A x \in DOMAIN before : LeftAlone(x)

\* A token is stored where some slot has it.
LEMMA StoredAt ==
  ASSUME NEW x
  PROVE  x \in StoredTokens <=> \E i \in Buckets, s \in Slots : At(i, s, x)
<1>1. ASSUME x \in StoredTokens PROVE \E i \in Buckets, s \in Slots : At(i, s, x)
  BY <1>1 DEF StoredTokens, At, occupied, is_empty
<1>2. ASSUME NEW i \in Buckets, NEW s \in Slots, At(i, s, x) PROVE x \in StoredTokens
  <2>1. <<i, s>> \in {q \in Buckets \X Slots : occupied(buckets[q[1]][q[2]])}
    BY <1>2 DEF At, occupied, is_empty
  <2>2. token(buckets[<<i, s>>[1]][<<i, s>>[2]].fp, <<i, s>>[1]) \in StoredTokens
    BY <2>1 DEF StoredTokens
  <2>. QED
    BY <1>2, <2>2 DEF At
<1>. QED
  BY <1>1, <1>2

\* And after a step.
LEMMA AtNext ==
  /\ \A i, s, x : At(i, s, x)' <=> buckets'[i][s].fp # 0 /\ token(buckets'[i][s].fp, i) = x
  /\ \A x : x \in StoredTokens' => \E i \in Buckets, s \in Slots : At(i, s, x)'
BY DEF At, StoredTokens, occupied, is_empty, token, Pair

\* What is held, by whom.
LEMMA HeldBy ==
  /\ \A x : Held(x) <=>
       \/ \E u \in Threads : Displaced(u) /\ x = token(frame[u].hand.fp, frame[u].index)
       \/ \E u \in Threads \ Scanners : x = token(frame[u].fp, frame[u].home)
  /\ \A x : Held(x)' <=>
       \/ \E u \in Threads : Displaced(u)' /\ x = token(frame'[u].hand.fp, frame'[u].index)
       \/ \E u \in Threads \ Scanners : x = token(frame'[u].fp, frame'[u].home)
BY DEF Held, DisplacedTokens, CalledFor, token, Pair

\* A step holds an item that was not held before only in the hand of its thread, or
\* for its call.
LEMMA HeldNext ==
  ASSUME NEW t \in Threads, NEW x, Held(x)', ~Held(x),
         \A u \in Threads \ {t} : pc'[u] = pc[u] /\ frame'[u] = frame[u]
  PROVE  \/ Displaced(t)' /\ x = token(frame'[t].hand.fp, frame'[t].index)
         \/ t \notin Scanners /\ x = token(frame'[t].fp, frame'[t].home)
<1>1. ASSUME NEW u \in Threads \ {t}, Displaced(u)' PROVE Displaced(u)
  BY <1>1 DEF Displaced, new_item
<1>. QED
  BY <1>1, HeldBy

\* An item that nobody touches stays on time.
LEMMA StaysLeft ==
  ASSUME NEW x, LeftAlone(x), ~Held(x)', before'[x] = before[x], Ahead' = Ahead,
         \A i \in Buckets, s \in Slots : At(i, s, x)' => buckets'[i][s] = buckets[i][s],
         (\E i \in Buckets, s \in Slots : At(i, s, x)) =>
            \E i \in Buckets, s \in Slots : At(i, s, x)'
  PROVE  LeftAlone(x)'
<1>1. ASSUME NEW i \in Buckets, NEW s \in Slots, At(i, s, x)'
      PROVE  buckets'[i][s].ttl = IF i \in Ahead' THEN before'[x] ELSE before'[x] - 1
  <2>1. buckets'[i][s] = buckets[i][s] /\ At(i, s, x)
    BY <1>1, AtNext DEF At
  <2>. QED
    BY <2>1 DEF LeftAlone, OnTime
<1>2. OnTime(x)'
  BY <1>1, AtNext DEF OnTime
<1>. QED
  BY <1>2, AtNext DEF LeftAlone

\* What a user does to the items of the round (filter.rs, all methods but the scans).
LEMMA UserLeavesAlone ==
  ASSUME PlanInv, RoundInv, TtlsFit, Partitions = {}, NEW t \in Threads \ Scanners, User(t)
  PROVE  PlanInv' /\ RoundInv'
<1>1. /\ FindableInv /\ Shapes /\ UserInv(t) /\ todo' = todo
      /\ Begin(t) \/ Continue(t)
  BY DEF PlanInv, FindableInv, StateOK, User
<1>2. PlanInv' /\ Ahead' = Ahead
  BY <1>1, PlanUsed
<1>3. \A u \in Threads \ {t} : pc'[u] = pc[u] /\ frame'[u] = frame[u]
  BY <1>1, OthersUnchanged
<1>4. CASE Begin(t) /\ Untouched({token(frame'[t].fp, frame'[t].home)})
  <2>1. UNCHANGED buckets /\ ~Displaced(t)'
    BY <1>1, <1>4, BeginForms, NoScanBegins DEF Displaced
  <2>2. ASSUME NEW x \in DOMAIN before' PROVE LeftAlone(x)'
    <3>1. /\ x \in DOMAIN before /\ before'[x] = before[x]
          /\ x # token(frame'[t].fp, frame'[t].home)
      BY <1>4, <2>2 DEF Untouched
    <3>2. LeftAlone(x) /\ ~Held(x)
      BY <3>1 DEF RoundInv, LeftAlone
    <3>3. ~Held(x)'
      BY <1>3, <2>1, <3>1, <3>2, HeldNext
    <3>4. \A i \in Buckets, s \in Slots :
            (At(i, s, x)' <=> At(i, s, x)) /\ buckets'[i][s] = buckets[i][s]
      BY <2>1, AtNext DEF At
    <3>. QED
      BY <1>2, <3>1, <3>2, <3>3, <3>4, StaysLeft
  <2>. QED
    BY <1>2, <2>2 DEF RoundInv
<1>5. CASE Continue(t) /\ Untouched((Tokens \ Tokens') \cup DisplacedTokens')
  <2>1. \/ frame'[t].fp = 0
        \/ frame'[t].fp = frame[t].fp /\ frame'[t].home = frame[t].home
    BY <1>1, <1>5, UserContinues
  <2>2. ASSUME NEW x \in DOMAIN before' PROVE LeftAlone(x)'
    <3>1. /\ x \in DOMAIN before /\ before'[x] = before[x]
          /\ x \notin Tokens \ Tokens' /\ x \notin DisplacedTokens'
      BY <1>5, <2>2 DEF Untouched
    <3>2. LeftAlone(x) /\ ~Held(x) /\ x[1] # 0
      BY <3>1 DEF RoundInv, LeftAlone
    <3>3. ~Held(x)'
      <4>1. x # token(frame[t].fp, frame[t].home)
        BY <3>2, HeldBy
      <4>2. token(frame'[t].fp, frame'[t].home)[1] = frame'[t].fp
        BY DEF token
      <4>3. x # token(frame'[t].fp, frame'[t].home)
        BY <2>1, <3>2, <4>1, <4>2
      <4>4. ~(Displaced(t)' /\ x = token(frame'[t].hand.fp, frame'[t].index))
        BY <3>1 DEF DisplacedTokens, token, Pair
      <4>. QED
        BY <1>3, <3>2, <4>3, <4>4, HeldNext
    <3>4. ASSUME NEW i \in Buckets, NEW s \in Slots, At(i, s, x)'
          PROVE  buckets'[i][s] = buckets[i][s]
      <4>1. SUFFICES ASSUME buckets'[i][s] # buckets[i][s] PROVE FALSE
        OBVIOUS
      <4>2. buckets'[i][s].fp # 0 /\ x = token(buckets'[i][s].fp, i)
        BY <3>4, AtNext
      <4>3. WritesFor(t, x)
        BY <1>1, <1>5, <4>1, <4>2, UserWrites DEF UserInv
      <4>4. Held(x)
        BY <4>3, HeldBy DEF WritesFor
      <4>. QED
        BY <3>2, <4>4
    <3>5. (\E i \in Buckets, s \in Slots : At(i, s, x)) =>
            \E i \in Buckets, s \in Slots : At(i, s, x)'
      <4>1. x \in StoredTokens => x \in StoredTokens'
        BY <3>1 DEF Tokens
      <4>. QED
        BY <4>1, StoredAt, AtNext
    <3>. QED
      BY <1>2, <3>1, <3>2, <3>3, <3>4, <3>5, StaysLeft
  <2>. QED
    BY <1>2, <2>2 DEF RoundInv
<1>. QED
  BY <1>4, <1>5 DEF User

\* A scanner holds nothing.
LEMMA ScannerHoldsNothing ==
  ASSUME PlanInv', NEW t \in Scanners, NEW x, ~Held(x),
         \A u \in Threads \ {t} : pc'[u] = pc[u] /\ frame'[u] = frame[u]
  PROVE  ~Held(x)'
<1>1. t \in Threads /\ ScannerInv(t)'
  BY ScanConstants DEF PlanInv
<1>2. ~Displaced(t)'
  BY <1>1 DEF ScannerInv, Displaced
<1>. QED
  BY <1>1, <1>2, HeldNext

\* Aging by 1 empties a slot whose TTL is 1, and takes 1 from a longer one
\* (data_block.rs, age_ttl_counter).
LEMMA AgeByOne ==
  ASSUME NEW d \in DataBlocks, d.ttl > 0
  PROVE  /\ d.ttl = 1 => age_ttl_counter(d).fp = 0
         /\ d.ttl > 1 => /\ age_ttl_counter(d).fp = d.fp
                         /\ age_ttl_counter(d).ttl = d.ttl - 1
<1>1. d.ttl \in Nat
  BY Masks DEF DataBlocks
<1>2. saturating_sub(d.ttl, 1) = d.ttl - 1
  BY <1>1 DEF saturating_sub
<1>3. CASE d.ttl = 1
  BY <1>2, <1>3 DEF age_ttl_counter, ResetBlock
<1>4. CASE d.ttl > 1
  <2>1. age_ttl_counter(d) = [d EXCEPT !.ttl = d.ttl - 1]
    BY <1>1, <1>2, <1>4 DEF age_ttl_counter
  <2>. QED
    BY <1>4, <2>1 DEF DataBlocks
<1>. QED
  BY <1>1, <1>3, <1>4

\* A scanner ages the items of its bucket, each of them once (filter.rs,
\* scan_and_update_full_partition).
LEMMA ScanAgesOnce ==
  ASSUME PlanInv, PlanInv', NEW t \in Scanners, ScansOne(t),
         position(frame[t].pos) \in Ahead, Ahead' = Ahead \ {position(frame[t].pos)},
         NEW x \in DOMAIN before, LeftAlone(x), ~Held(x)', before' = before
  PROVE  LeftAlone(x)'
<1> DEFINE b == position(frame[t].pos)
<1>1. \A j \in Buckets, s \in Slots :
        buckets'[j][s] = IF j = b /\ buckets[j][s].fp # 0
                         THEN age_ttl_counter(buckets[j][s]) ELSE buckets[j][s]
  BY DEF ScansOne
<1>2. b \in Ahead /\ Ahead' = Ahead \ {b}
  OBVIOUS
<1> HIDE DEF b
<1>3. /\ x[1] # 0 /\ before[x] \in Nat \ {0}
      /\ \A i \in Buckets, s \in Slots : At(i, s, x) =>
           buckets[i][s].ttl = IF i \in Ahead THEN before[x] ELSE before[x] - 1
  BY DEF LeftAlone, OnTime
<1>4. \A i \in Buckets, s \in Slots : /\ buckets[i][s] \in DataBlocks
                                      /\ buckets[i][s].fp # 0 => buckets[i][s].ttl > 0
  BY BlockOf, BucketOf DEF PlanInv, FindableInv, StateOK, TtlInv, BucketTtlLeft, TtlLeft
<1>5. ASSUME NEW i \in Buckets, NEW s \in Slots
      PROVE  /\ At(i, s, x)' =>
                  buckets'[i][s].ttl = IF i \in Ahead' THEN before[x] ELSE before[x] - 1
             /\ At(i, s, x) /\ before[x] > 1 => At(i, s, x)'
  <2>1. CASE i = b /\ buckets[i][s].fp # 0
    <3>1. buckets'[i][s] = age_ttl_counter(buckets[i][s])
      BY <1>1, <2>1
    <3>2. At(i, s, x) => buckets[i][s].ttl = before[x]
      BY <1>2, <1>3, <2>1
    <3>3. CASE buckets[i][s].ttl = 1
      <4>1. buckets'[i][s].fp = 0
        BY <1>4, <2>1, <3>1, <3>3, AgeByOne
      <4>2. At(i, s, x) => before[x] = 1
        BY <3>3, <3>2
      <4>. QED
        BY <1>3, <4>1, <4>2, AtNext
    <3>4. CASE buckets[i][s].ttl > 1
      <4>1. /\ buckets'[i][s].fp = buckets[i][s].fp
            /\ buckets'[i][s].ttl = buckets[i][s].ttl - 1
        BY <1>4, <2>1, <3>1, <3>4, AgeByOne
      <4>2. At(i, s, x)' <=> At(i, s, x)
        BY <4>1, AtNext DEF At
      <4>. QED
        BY <1>2, <2>1, <3>2, <4>1, <4>2
    <3>5. buckets[i][s].ttl \in Nat /\ buckets[i][s].ttl > 0
      BY <1>4, <2>1, Masks DEF DataBlocks
    <3>. QED
      BY <3>3, <3>4, <3>5
  <2>2. CASE ~(i = b /\ buckets[i][s].fp # 0)
    <3>1. buckets'[i][s] = buckets[i][s]
      BY <1>1, <2>2
    <3>2. At(i, s, x)' <=> At(i, s, x)
      BY <3>1, AtNext DEF At
    <3>3. At(i, s, x) => i # b
      BY <2>2 DEF At
    <3>. QED
      BY <1>2, <1>3, <3>1, <3>2, <3>3
  <2>. QED
    BY <2>1, <2>2
<1>6. OnTime(x)'
  BY <1>5, AtNext DEF OnTime
<1>7. before[x] > 1 => \E i \in Buckets, s \in Slots : At(i, s, x)'
  BY <1>5 DEF LeftAlone
<1>. QED
  BY <1>3, <1>6, <1>7, AtNext DEF LeftAlone

\* What a scanner does to the items of the round.
LEMMA ScannerAgesOnce ==
  ASSUME PlanInv, RoundInv, TtlEnabled, TtlsFit, NEW t \in Scanners, Scanner(t)
  PROVE  PlanInv' /\ RoundInv'
<1>1. Shapes /\ t \in Threads /\ before' = before
  BY ScanConstants DEF PlanInv, FindableInv, StateOK, Scanner
<1>2. SUFFICES ASSUME TRUE
               PROVE  /\ PlanInv'
                      /\ \A u \in Threads \ {t} : pc'[u] = pc[u] /\ frame'[u] = frame[u]
                      /\ \/ /\ ScansOne(t) /\ position(frame[t].pos) \in Ahead
                            /\ Ahead' = Ahead \ {position(frame[t].pos)}
                         \/ UNCHANGED buckets /\ Ahead' = Ahead
  <2>1. ASSUME NEW x \in DOMAIN before' PROVE LeftAlone(x)'
    <3>1. x \in DOMAIN before /\ LeftAlone(x) /\ ~Held(x)
      BY <1>1, <2>1 DEF RoundInv, LeftAlone
    <3>2. ~Held(x)'
      BY <1>2, <3>1, ScannerHoldsNothing
    <3>3. CASE UNCHANGED buckets /\ Ahead' = Ahead
      <4>1. \A i \in Buckets, s \in Slots :
              (At(i, s, x)' <=> At(i, s, x)) /\ buckets'[i][s] = buckets[i][s]
        BY <3>3, AtNext DEF At
      <4>. QED
        BY <1>1, <3>1, <3>2, <3>3, <4>1, StaysLeft
    <3>. QED
      BY <1>1, <1>2, <3>1, <3>2, <3>3, ScanAgesOnce
  <2>. QED
    BY <1>2, <2>1 DEF RoundInv
<1>3. CASE \E p \in todo : ScanPartition(t, "scan_ttl", <<Total, p>>) /\ todo' = todo \ {p}
  <2>1. PICK p \in todo : ScanPartition(t, "scan_ttl", <<Total, p>>) /\ todo' = todo \ {p}
    BY <1>3
  <2>2. p \in Nat
    BY ScanConstants DEF PlanInv
  <2>3. \A u \in Threads \ {t} : pc'[u] = pc[u] /\ frame'[u] = frame[u]
    BY <1>1, <2>1, <2>2, ScanBegins
  <2>. QED
    BY <2>1, <2>3, PlanBegins
<1>4. CASE Continue(t) /\ todo' = todo
  BY <1>1, <1>4, PlanContinues, OthersUnchanged
<1>. QED
  BY <1>3, <1>4 DEF Scanner

\* Every TTL that a token has is that of a slot.
LEMMA TtlsAt ==
  ASSUME NEW x
  PROVE  /\ \A n \in ttls(x) : \E i \in Buckets, s \in Slots : At(i, s, x) /\ n = buckets[i][s].ttl
         /\ \A i \in Buckets, s \in Slots : At(i, s, x) => buckets[i][s].ttl \in ttls(x)
<1>1. ASSUME NEW n \in ttls(x)
      PROVE  \E i \in Buckets, s \in Slots : At(i, s, x) /\ n = buckets[i][s].ttl
  <2>1. PICK z \in StoredBlocks : z[1] = x /\ n = z[2]
    BY <1>1 DEF ttls
  <2>2. PICK p \in Occupied : z = <<token(buckets[p[1]][p[2]].fp, p[1]), buckets[p[1]][p[2]].ttl>>
    BY <2>1 DEF StoredBlocks
  <2>3. p \in Buckets \X Slots /\ buckets[p[1]][p[2]].fp # 0
    BY DEF Occupied, occupied, is_empty
  <2>4. At(p[1], p[2], x) /\ n = buckets[p[1]][p[2]].ttl
    BY <2>1, <2>2, <2>3 DEF At
  <2>. QED
    BY <2>3, <2>4
<1>2. ASSUME NEW i \in Buckets, NEW s \in Slots, At(i, s, x) PROVE buckets[i][s].ttl \in ttls(x)
  <2> DEFINE p == <<i, s>>
             z == <<token(buckets[i][s].fp, i), buckets[i][s].ttl>>
  <2>1. p \in Occupied
    BY <1>2 DEF At, Occupied, occupied, is_empty
  <2>2. z \in StoredBlocks
    BY <2>1 DEF StoredBlocks
  <2>3. z[1] = x /\ z[2] = buckets[i][s].ttl
    BY <1>2 DEF At
  <2> HIDE DEF z
  <2>. QED
    BY <2>2, <2>3 DEF ttls
<1>. QED
  BY <1>1, <1>2

\* A round begins with items that are in one place each, or with one TTL.
LEMMA RoundBegins ==
  ASSUME PlanInv, TtlsFit, RoundStart
  PROVE  PlanInv' /\ RoundInv'
<1> DEFINE alone == {x \in StoredTokens \ (DisplacedTokens \cup CalledFor) :
                       Cardinality(ttls(x)) = 1}
<1>1. PlanInv' /\ (\A i \in Buckets : i \in Ahead')
  BY RoundPlan
<1>2. UNCHANGED vars /\ before' = [x \in alone |-> CHOOSE n \in ttls(x) : TRUE]
  BY DEF RoundStart
<1>3. \A i \in Buckets, s \in Slots : /\ buckets[i][s] \in DataBlocks
                                      /\ buckets[i][s].fp # 0 => buckets[i][s].ttl > 0
  BY BlockOf, BucketOf DEF PlanInv, FindableInv, StateOK, TtlInv, BucketTtlLeft, TtlLeft
<1>4. ASSUME NEW x \in alone PROVE LeftAlone(x)'
  <2>1. ~Held(x) /\ x \in StoredTokens /\ Cardinality(ttls(x)) = 1
    BY DEF Held
  <2>2. PICK i \in Buckets, s \in Slots : At(i, s, x)
    BY <2>1, StoredAt
  <2>3. PICK n : ttls(x) = {n}
    <3>1. ASSUME NEW m \in ttls(x) PROVE m \in 0 .. TtlMask
      <4>1. PICK j \in Buckets, r \in Slots : m = buckets[j][r].ttl
        BY TtlsAt
      <4>. QED
        BY <1>3, <4>1 DEF DataBlocks
    <3>2. IsFiniteSet(0 .. TtlMask) /\ ttls(x) \subseteq 0 .. TtlMask
      BY <3>1, Masks, FS_Interval
    <3>3. IsFiniteSet(ttls(x))
      BY <3>2, FS_Subset
    <3>4. \E n : ttls(x) = {n}
      BY <2>1, <3>3, FS_Singleton
    <3>. QED
      BY <3>4
  <2>4. before'[x] = n
    BY <1>2, <2>3
  <2>5. \A j \in Buckets, r \in Slots : At(j, r, x) => buckets[j][r].ttl = n
    <3>1. \A j \in Buckets, r \in Slots : At(j, r, x) => buckets[j][r].ttl \in ttls(x)
      BY TtlsAt
    <3>. QED
      BY <2>3, <3>1
  <2>6. n \in Nat \ {0} /\ x[1] # 0
    <3>1. n = buckets[i][s].ttl /\ buckets[i][s].fp # 0 /\ x[1] = buckets[i][s].fp
      BY <2>2, <2>5 DEF At, token
    <3>. QED
      BY <1>3, <3>1, Masks DEF DataBlocks
  <2>7. (Held(x)' <=> Held(x)) /\ \A j, r : At(j, r, x)' <=> At(j, r, x)
    BY <1>2, HeldBy, AtNext DEF vars, At, Displaced, new_item
  <2>8. OnTime(x)'
    BY <1>1, <1>2, <2>4, <2>5, <2>7 DEF OnTime, vars
  <2>. QED
    BY <2>1, <2>2, <2>4, <2>6, <2>7, <2>8 DEF LeftAlone
<1>. QED
  BY <1>1, <1>2, <1>4 DEF RoundInv

ScanInv == PlanInv /\ RoundInv

\* At the start nobody scans and no round has begun.
LEMMA ScanInvInit ==
  ASSUME TtlsFit, Init, todo = {}, before = << >>
  PROVE  ScanInv
<1>1. FindableInv
  BY FindableInvInit
<1>2. TtlInv
  <2>1. \A i \in Buckets : BucketTtlLeft(buckets[i])
    BY EmptyBucketType DEF Init, BucketTtlLeft, TtlLeft
  <2>2. TtlLeft(NoFrame.hand) /\ TtlFits(NoFrame.update.ttl)
    BY DEF NoFrame, NoUpdate, ResetBlock, TtlLeft, TtlFits
  <2>. QED
    BY <1>1, <2>1, <2>2 DEF Init, TtlInv, FindableInv
<1>3. \A t \in Threads : pc[t] = "idle"
  BY DEF Init
<1>4. PlanInv
  BY <1>1, <1>2, <1>3, ScanConstants
     DEF PlanInv, ScannerInv, UserInv, Apart, Remaining
<1>5. DOMAIN before = {}
  OBVIOUS
<1>. QED
  BY <1>4, <1>5 DEF ScanInv, RoundInv

\* Every step of a scanner or a user, and every new round, keep it.
LEMMA ScanInvStep ==
  ASSUME TtlEnabled, TtlsFit, Partitions = {}, ScanInv, [ScanNext]_scanVars
  PROVE  ScanInv'
<1>1. PlanInv /\ RoundInv
  BY DEF ScanInv
<1>2. CASE RoundStart
  BY <1>1, <1>2, RoundBegins DEF ScanInv
<1>3. CASE \E t \in Scanners : Scanner(t)
  BY <1>1, <1>3, ScannerAgesOnce DEF ScanInv
<1>4. CASE \E t \in Threads \ Scanners : User(t)
  BY <1>1, <1>4, UserLeavesAlone DEF ScanInv
<1>5. CASE UNCHANGED scanVars
  <2>1. UNCHANGED vars /\ todo' = todo /\ before' = before
    BY <1>5 DEF scanVars
  <2>2. \A u \in Threads : pc'[u] = pc[u] /\ frame'[u] = frame[u]
    BY <2>1 DEF vars
  <2>3. \A u \in Scanners : Remaining(u)' = Remaining(u)
    BY <2>2, ThreadRests, ScanConstants
  <2>4. FindableInv' /\ TtlInv'
    BY <1>1, <2>1, FilterStep
  <2>5. PlanInv'
    <3>1. \A u \in Scanners : ScannerInv(u)' /\ Apart(u)'
      BY <1>1, <2>1, <2>2, <2>3, ThreadRests, ScanConstants, ApartNext DEF PlanInv, Apart
    <3>2. \A u \in Threads \ Scanners : UserInv(u)'
      BY <1>1, <2>2, ThreadRests DEF PlanInv
    <3>. QED
      BY <1>1, <2>1, <2>4, <3>1, <3>2 DEF PlanInv
  <2>6. Ahead' = Ahead
    BY <2>1, <2>3, AwaitedNext, SameAhead DEF Awaits
  <2>7. ASSUME NEW x \in DOMAIN before' PROVE LeftAlone(x)'
    <3>1. LeftAlone(x) /\ ~Held(x)
      BY <1>1, <2>1, <2>7 DEF RoundInv, LeftAlone
    <3>2. (Held(x)' <=> Held(x)) /\ \A i, s : At(i, s, x)' <=> At(i, s, x)
      BY <2>1, HeldBy, AtNext DEF vars, At, Displaced, new_item
    <3>. QED
      BY <2>1, <2>6, <3>1, <3>2, StaysLeft DEF vars
  <2>. QED
    BY <2>5, <2>7 DEF ScanInv, RoundInv
<1>. QED
  BY <1>2, <1>3, <1>4, <1>5 DEF ScanNext

\* When a round is over nothing is ahead, so every item has aged.
LEMMA RoundAges ==
  ASSUME ScanInv
  PROVE  AgedOnce
<1> SUFFICES ASSUME RoundOver, NEW x \in DOMAIN before
             PROVE  ttls(x) = IF before[x] = 1 THEN {} ELSE {before[x] - 1}
  BY DEF AgedOnce
<1>1. Ahead = {}
  BY DEF RoundOver, Remaining, Awaits, Awaited, Ahead
<1>2. /\ before[x] \in Nat \ {0}
      /\ \A i \in Buckets, s \in Slots : At(i, s, x) => buckets[i][s].ttl = before[x] - 1
      /\ before[x] > 1 => \E i \in Buckets, s \in Slots : At(i, s, x)
  BY <1>1 DEF ScanInv, RoundInv, LeftAlone, OnTime
<1>3. \A i \in Buckets, s \in Slots : At(i, s, x) => buckets[i][s].ttl > 0
  BY DEF ScanInv, PlanInv, TtlInv, BucketTtlLeft, TtlLeft, At
<1>4. \A n \in ttls(x) : n = before[x] - 1 /\ n > 0
  BY <1>2, <1>3, TtlsAt
<1>5. before[x] > 1 => before[x] - 1 \in ttls(x)
  BY <1>2, TtlsAt
<1>6. CASE before[x] = 1
  BY <1>4, <1>6
<1>7. CASE before[x] > 1
  BY <1>4, <1>5, <1>7
<1>. QED
  BY <1>2, <1>6, <1>7

\* In every round every item that no call touches or moves is aged exactly once,
\* however many scanners share the partitions out, and whatever is inserted, kicked,
\* and removed around it: "TTL will get reduced by 1 on each call" (filter.rs:562).
\* It takes TTLs that fit their field, and threads that scan in rounds only.
THEOREM ItemsAgeOnce ==
  ASSUME TtlEnabled, TtlsFit, Partitions = {}
  PROVE  ScanSpec => []AgedOnce
<1>1. Init /\ todo = {} /\ before = << >> => ScanInv
  BY ScanInvInit
<1>2. ScanInv /\ [ScanNext]_scanVars => ScanInv'
  BY ScanInvStep
<1>3. ScanInv => AgedOnce
  BY RoundAges
<1>. QED
  BY <1>1, <1>2, <1>3, PTL DEF ScanSpec
===============================================================================
