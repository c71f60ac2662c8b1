------------------------- MODULE CuckooExportProofs -------------------------
(***************************************************************************)
(* The filter beside its export and across restarts, for every value of    *)
(* the constants: what is written, what is read back, and what a panic     *)
(* leaves behind.                                                          *)
(***************************************************************************)
EXTENDS CuckooExport, CuckooFilterProofs

-----------------------------------------------------------------------------
(* The steps. *)

\* Whatever happens is a step of the filter or none, unless a call panics or the
\* process ends (filter.rs, exporter.rs).
LEMMA ExportSteps ==
  ASSUME [ExportNext]_allVars
  PROVE  [Next]_vars \/ (\E t \in Threads : Panic(t)) \/ Restart
<1>1. CASE \E t \in Threads : Call_or_step(t)
  BY <1>1 DEF Call_or_step, Next
<1>2. CASE Export \/ UNCHANGED allVars
  BY <1>2 DEF Export, ExportStart, ExportBucket, ExportPanic, allVars
<1>. QED
  BY <1>1, <1>2 DEF ExportNext

\* A call that panics leaves its thread idle, and the other threads, the buckets
\* and the counter as they were (filter.rs, lock_bucket).
LEMMA PanicStep ==
  ASSUME Shapes, NEW t \in Threads, Panic(t)
  PROVE  /\ Shapes' /\ Alone(t) /\ UNCHANGED <<buckets, items>>
         /\ pc'[t] = "idle" /\ frame'[t] = NoFrame /\ ret'[t] = Panicked
         /\ \A u \in Threads \ {t} : ret'[u] = ret[u]
<1>1. Return(t, Panicked) /\ UNCHANGED <<buckets, items>>
  BY DEF Panic
<1>2. Shapes'
  BY <1>1, ReturnShapes
<1>3. /\ Alone(t) /\ pc'[t] = "idle" /\ frame'[t] = NoFrame /\ ret'[t] = Panicked
      /\ \A u \in Threads \ {t} : ret'[u] = ret[u]
  BY <1>1 DEF Return, Goto, Shapes, Alone
<1>. QED
  BY <1>1, <1>2, <1>3

\* Every bucket is written at some place, at which the import finds it
\* (exporter.rs, write_to; filter.rs, import).
LEMMA RestoredFrom ==
  ASSUME NEW i \in Buckets
  PROVE  \E n \in 1 .. BucketCount : position(n - 1) = i /\ restored[i] = saved[n]
<1> DEFINE n == CHOOSE m \in 1 .. BucketCount : position(m - 1) = i
<1>1. PICK m \in 0 .. BucketCount - 1 : position(m) = i
  BY PositionsReachAll
<1>2. m + 1 \in 1 .. BucketCount /\ position((m + 1) - 1) = i
  BY <1>1, BucketCountIsPositive
<1>3. n \in 1 .. BucketCount /\ position(n - 1) = i
  BY <1>2
<1>4. restored[i] = saved[n]
  BY DEF restored
<1> HIDE DEF n
<1>. QED
  BY <1>3, <1>4

-----------------------------------------------------------------------------
(* Type correctness.  While buckets are written there is one left. *)

ReturnOK(t) == ret[t] \in Answers \/ (ret[t] = Panicked /\ pc[t] = "idle")

ExporterOK ==
  /\ exporter \in {"none", "writing", "done", "failed", "panicked"}
  /\ saved \in Seq(BucketStates) /\ Len(saved) <= BucketCount
  /\ exporter = "writing" => Len(saved) < BucketCount
  /\ poisoned \subseteq Buckets

ExportInv == StateOK /\ ExporterOK /\ \A t \in Threads : ReturnOK(t)

\* What has been written is a number of buckets.
LEMMA SavedType ==
  ASSUME ExporterOK
  PROVE  /\ Len(saved) \in Nat
         /\ \A n \in 1 .. Len(saved) : saved[n] \in BucketStates
BY DEF ExporterOK

\* One more bucket is written, behind the others (exporter.rs, write_to).
LEMMA AppendType ==
  ASSUME ExporterOK, NEW b \in BucketStates, saved' = Append(saved, b)
  PROVE  /\ saved' \in Seq(BucketStates) /\ Len(saved') = Len(saved) + 1
         /\ saved'[Len(saved) + 1] = b
         /\ \A n \in 1 .. Len(saved) : saved'[n] = saved[n]
BY DEF ExporterOK

\* The exporter writes buckets until all are written (exporter.rs, write_to).
LEMMA ExporterStep ==
  ASSUME Shapes, ExporterOK, Export
  PROVE  ExporterOK'
<1>1. CASE ExportStart
  <2>1. << >> \in Seq(BucketStates) /\ Len(<< >>) = 0
    OBVIOUS
  <2>. QED
    BY <1>1, <2>1, BucketCountIsPositive DEF ExportStart, ExporterOK
<1>2. CASE ExportPanic
  BY <1>2 DEF ExportPanic, ExporterOK
<1>3. CASE ExportBucket
  <2>1. next_bucket \in Buckets /\ buckets[next_bucket] \in BucketStates
    BY IndexTypes, BucketOf DEF next_bucket
  <2>2. CASE saved' = Append(saved, buckets[next_bucket]) /\ UNCHANGED poisoned
    <3>1. saved' \in Seq(BucketStates) /\ Len(saved') = Len(saved) + 1 /\ Len(saved) \in Nat
      BY <2>1, <2>2, AppendType, SavedType
    <3>2. /\ exporter = "writing"
          /\ exporter' = IF Len(saved) + 1 = BucketCount THEN "done" ELSE "writing"
      BY <1>3, <2>2 DEF ExportBucket
    <3>3. Len(saved) < BucketCount /\ BucketCount \in Nat
      BY <3>2, BucketCountIsPositive DEF ExporterOK
    <3>. QED
      BY <2>2, <3>1, <3>2, <3>3 DEF ExporterOK
  <2>3. CASE exporter' \in {"failed", "panicked"} /\ UNCHANGED saved
    BY <1>3, <2>1, <2>3 DEF ExportBucket, ExporterOK
  <2>. QED
    BY <1>3, <2>2, <2>3 DEF ExportBucket
<1>. QED
  BY <1>1, <1>2, <1>3 DEF Export

\* The import finds every bucket where the exporter left it.
LEMMA RestoredAt ==
  ASSUME NEW n \in 1 .. BucketCount
  PROVE  position(n - 1) \in Buckets /\ restored[position(n - 1)] = saved[n]
<1>1. position(n - 1) \in Buckets
  BY IndexTypes
<1>2. PICK m \in 1 .. BucketCount : /\ position(m - 1) = position(n - 1)
                                    /\ restored[position(n - 1)] = saved[m]
  BY <1>1, RestoredFrom
<1>3. n - 1 \in 0 .. BucketCount - 1 /\ m - 1 \in 0 .. BucketCount - 1
  BY BucketCountIsPositive
<1>4. n - 1 = m - 1
  BY <1>2, <1>3, PositionsDiffer
<1>5. n = m
  BY <1>4
<1>. QED
  BY <1>1, <1>2, <1>5

\* The import counts the items that it stores (filter.rs, import).
LEMMA ItemsCounted ==
  ASSUME buckets' = restored
  PROVE  item_count = Cardinality(Occupied')
<1> DEFINE Places == (1 .. BucketCount) \X Slots
           From   == {x \in Places : occupied(saved[x[1]][x[2]])}
           To     == Occupied'
           at     == [x \in From |-> <<position(x[1] - 1), x[2]>>]
<1>1. To = {p \in Buckets \X Slots : occupied(restored[p[1]][p[2]])}
  BY DEF Occupied, occupied, is_empty
<1>2. at \in [From -> To]
  <2> SUFFICES ASSUME NEW x \in From PROVE <<position(x[1] - 1), x[2]>> \in To
    OBVIOUS
  <2>1. x[1] \in 1 .. BucketCount /\ x[2] \in Slots /\ occupied(saved[x[1]][x[2]])
    OBVIOUS
  <2>2. position(x[1] - 1) \in Buckets /\ restored[position(x[1] - 1)] = saved[x[1]]
    BY <2>1, RestoredAt
  <2>. QED
    BY <1>1, <2>1, <2>2
<1>3. ASSUME NEW x \in From, NEW y \in From, at[x] = at[y] PROVE x = y
  <2>1. x[1] - 1 \in 0 .. BucketCount - 1 /\ y[1] - 1 \in 0 .. BucketCount - 1
    BY BucketCountIsPositive
  <2>2. position(x[1] - 1) = position(y[1] - 1) /\ x[2] = y[2]
    BY <1>3
  <2>3. x[1] - 1 = y[1] - 1
    BY <2>1, <2>2, PositionsDiffer
  <2>. QED
    BY <2>1, <2>2, <2>3
<1>4. ASSUME NEW p \in To PROVE \E x \in From : at[x] = p
  <2>1. p[1] \in Buckets /\ p[2] \in Slots /\ p = <<p[1], p[2]>> /\ occupied(restored[p[1]][p[2]])
    BY <1>1
  <2>2. PICK n \in 1 .. BucketCount : position(n - 1) = p[1] /\ restored[p[1]] = saved[n]
    BY <2>1, RestoredFrom
  <2>3. <<n, p[2]>> \in From
    BY <2>1, <2>2
  <2>4. at[<<n, p[2]>>] = p
    BY <2>1, <2>2, <2>3
  <2>. QED
    BY <2>3, <2>4
<1>5. IsFiniteSet(From)
  <2>1. IsFiniteSet(1 .. BucketCount) /\ IsFiniteSet(Slots)
    BY BucketCountIsPositive, BucketSizeIsPositive, FS_Interval DEF Slots
  <2>. QED
    BY <2>1, FS_Product, FS_Subset
<1>6. item_count = Cardinality(From)
  BY DEF item_count
<1> HIDE DEF From, To, at
<1>7. at \in Bijection(From, To)
  BY <1>2, <1>3, <1>4 DEF Bijection, Injection, Surjection, IsInjective
<1>8. Cardinality(To) = Cardinality(From)
  BY <1>5, <1>7, FS_Bijection DEF ExistsBijection
<1>. QED
  BY <1>6, <1>8 DEF To

\* The slots of a filter are in memory, so that usize counts them.
SlotsFit == Cardinality(Buckets \X Slots) <= UsizeMax

\* A restart begins with no call in progress, and with what was written or with
\* empty buckets (filter.rs, import and new).
LEMMA RestartType ==
  ASSUME SlotsFit, ExporterOK, Restart
  PROVE  StateOK' /\ ExporterOK' /\ \A t \in Threads : ReturnOK(t)'
<1>1. /\ pc' = [t \in Threads |-> "idle"] /\ frame' = [t \in Threads |-> NoFrame]
      /\ ret' = [t \in Threads |-> Pending]
      /\ exporter' = "none" /\ poisoned' = {} /\ saved' = saved
  BY DEF Restart
<1>2. buckets' \in [Buckets -> BucketStates] /\ items' \in 0 .. UsizeMax
  <2>1. CASE Complete /\ buckets' = restored /\ items' = item_count
    <3>1. ASSUME NEW i \in Buckets PROVE restored[i] \in BucketStates
      <4>1. PICK n \in 1 .. BucketCount : restored[i] = saved[n]
        BY RestoredFrom
      <4>. QED
        BY <2>1, <4>1, SavedType DEF Complete
    <3>2. DOMAIN restored = Buckets /\ restored = [i \in Buckets |-> restored[i]]
      BY DEF restored
    <3>3. restored \in [Buckets -> BucketStates]
      BY <3>1, <3>2
    <3>4. Occupied' \in SUBSET (Buckets \X Slots)
      BY DEF Occupied
    <3>5. Cardinality(Occupied') \in Nat /\ Cardinality(Occupied') <= Cardinality(Buckets \X Slots)
          /\ Cardinality(Buckets \X Slots) \in Nat
      BY <3>4, PlacesFinite, FS_Subset, FS_CardinalityType
    <3>6. item_count = Cardinality(Occupied')
      BY <2>1, ItemsCounted
    <3>. QED
      BY <2>1, <3>3, <3>5, <3>6, FilterConstants DEF SlotsFit
  <2>2. CASE buckets' = [i \in Buckets |-> EmptyBucket] /\ items' = 0
    BY <2>2, EmptyBucketType, FilterConstants
  <2>. QED
    BY <2>1, <2>2 DEF Restart
<1>3. Shapes'
  BY <1>1, <1>2, NoFrameType DEF Shapes, Sections
<1>4. \A t \in Threads : ReturnOK(t)'
  BY <1>1 DEF ReturnOK, Answers
<1>. QED
  BY <1>1, <1>3, <1>4 DEF StateOK, LookupLocals, ExporterOK

\* The calls leave the exporter alone, and the export the calls.
LEMMA ExporterAlone ==
  ASSUME [ExportNext]_allVars
  PROVE  Export \/ Restart \/ UNCHANGED exportVars
BY DEF ExportNext, Call_or_step, Panic, allVars, exportVars

\* What a call returns is an answer, or that it panicked.
LEMMA ReturnsStep ==
  ASSUME ExportInv, [ExportNext]_allVars, NEW t \in Threads, ~Restart
  PROVE  ReturnOK(t)'
<1>1. Shapes /\ ReturnOK(t)
  BY DEF ExportInv, StateOK
<1>2. ASSUME NEW u \in Threads, Begin(u) \/ Continue(u) PROVE ReturnOK(t)'
  <2>1. Answered(u)
    BY <1>2, AnswersStep DEF ExportInv
  <2>2. CASE u = t
    BY <1>1, <2>1, <2>2 DEF Answered, ReturnOK, Shapes
  <2>3. CASE u # t
    <3>1. pc'[t] = pc[t] /\ ret'[t] = ret[t]
      BY <1>1, <1>2, <2>3, OthersUnchanged
    <3>. QED
      BY <1>1, <3>1 DEF ReturnOK
  <2>. QED
    BY <2>2, <2>3
<1>3. ASSUME NEW u \in Threads, Panic(u) PROVE ReturnOK(t)'
  BY <1>1, <1>3, PanicStep DEF ReturnOK, Alone
<1>4. CASE UNCHANGED vars
  BY <1>1, <1>4 DEF ReturnOK, vars
<1>. QED
  BY <1>2, <1>3, <1>4, ExportSteps DEF Next

\* ExportInv is inductive.
LEMMA ExportInvStep ==
  ASSUME SlotsFit, ExportInv, [ExportNext]_allVars
  PROVE  ExportInv'
<1>1. StateOK /\ Shapes /\ LookupLocals /\ ExporterOK
  BY DEF ExportInv, StateOK
<1>2. CASE Restart
  BY <1>1, <1>2, RestartType DEF ExportInv
<1>3. CASE ~Restart
  <2>1. ExporterOK'
    BY <1>1, <1>3, ExporterAlone, ExporterStep DEF ExporterOK, exportVars
  <2>2. StateOK'
    <3>1. ASSUME NEW t \in Threads, Panic(t) PROVE StateOK'
      <4>1. Shapes' /\ Alone(t) /\ pc'[t] = "idle"
        BY <1>1, <3>1, PanicStep
      <4>2. LookupLocals'
        BY <1>1, <4>1 DEF Alone, LookupLocals
      <4>. QED
        BY <4>1, <4>2 DEF StateOK
    <3>. QED
      BY <1>1, <1>3, <3>1, ExportSteps, StateOKStep
  <2>. QED
    BY <1>3, <2>1, <2>2, ReturnsStep DEF ExportInv
<1>. QED
  BY <1>2, <1>3

\* ExportInv holds at the beginning.
LEMMA ExportInvInit == ExportInit => ExportInv
<1> SUFFICES ASSUME ExportInit PROVE ExportInv
  OBVIOUS
<1>1. Init /\ exporter = "none" /\ saved = << >> /\ poisoned = {}
  BY DEF ExportInit
<1>2. StateOK
  BY <1>1, InitShapes DEF Init, StateOK, LookupLocals
<1>3. << >> \in Seq(BucketStates) /\ Len(<< >>) = 0
  OBVIOUS
<1>4. ExporterOK
  BY <1>1, <1>3, BucketCountIsPositive DEF ExporterOK
<1>5. \A t \in Threads : ReturnOK(t)
  BY <1>1 DEF Init, ReturnOK, Answers
<1>. QED
  BY <1>2, <1>4, <1>5 DEF ExportInv

\* In every state.
LEMMA AlwaysExportInv ==
  ASSUME SlotsFit
  PROVE  ExportSpec => []ExportInv
<1>1. ExportInv /\ [ExportNext]_allVars => ExportInv'
  BY ExportInvStep
<1>. QED
  BY <1>1, ExportInvInit, PTL DEF ExportSpec

\* The filter and what the exporter has written stay well-typed, also after a panic
\* of the writer, of a call that finds the mutex poisoned, and across a restart: what
\* is imported is a filter again (exporter.rs, write_to; filter.rs, import).
THEOREM ExportTypeCorrect ==
  ASSUME SlotsFit
  PROVE  ExportSpec => []ExportTypeOK
<1>1. ExportInv => ExportTypeOK
  BY DEF ExportInv, StateOK, Shapes, ExporterOK, ReturnOK, ExportTypeOK
<1>. QED
  BY <1>1, AlwaysExportInv, PTL

-----------------------------------------------------------------------------
(* What is imported is where the methods look for it.  What is written says *)
(* of each bucket which one it was.                                         *)

SavedFindable ==
  \A n \in 1 .. Len(saved), s \in Slots :
    occupied(saved[n][s]) => Findable(saved[n][s].fp, position(n - 1))

RestoreInv == ExportInv /\ FindableInv /\ SavedFindable

\* The exporter writes every bucket at its place (exporter.rs, write_to).
LEMMA SavedStep ==
  ASSUME ExportInv, StoredFindable, SavedFindable, Export
  PROVE  SavedFindable'
<1>1. Shapes /\ ExporterOK
  BY DEF ExportInv, StateOK
<1>2. CASE ExportStart
  <2>1. 1 .. Len(saved') = {}
    BY <1>2 DEF ExportStart
  <2>. QED
    BY <2>1 DEF SavedFindable
<1>3. CASE saved' = saved
  BY <1>3 DEF SavedFindable, Findable, Pair
<1>4. CASE saved' = Append(saved, buckets[next_bucket])
  <2>1. next_bucket \in Buckets /\ buckets[next_bucket] \in BucketStates
    BY <1>1, IndexTypes, BucketOf DEF next_bucket
  <2> DEFINE b == buckets[next_bucket]
  <2>2. /\ Len(saved') = Len(saved) + 1 /\ Len(saved) \in Nat
        /\ saved'[Len(saved) + 1] = b
        /\ \A n \in 1 .. Len(saved) : saved'[n] = saved[n]
    BY <1>1, <1>4, <2>1, AppendType, SavedType
  <2>3. \A s \in Slots : occupied(b[s]) => Findable(b[s].fp, next_bucket)
    BY <2>1 DEF StoredFindable
  <2> HIDE DEF b
  <2> SUFFICES ASSUME NEW n \in 1 .. Len(saved'), NEW s \in Slots, occupied(saved'[n][s])
               PROVE  Findable(saved'[n][s].fp, position(n - 1))
    BY DEF SavedFindable, Findable, Pair, occupied, is_empty
  <2>4. CASE n \in 1 .. Len(saved)
    BY <2>2, <2>4 DEF SavedFindable
  <2>5. CASE n = Len(saved) + 1
    <3>1. position(n - 1) = next_bucket /\ saved'[n] = b
      BY <2>2, <2>5 DEF next_bucket
    <3>. QED
      BY <2>3, <3>1
  <2>. QED
    BY <2>2, <2>4, <2>5
<1>. QED
  BY <1>2, <1>3, <1>4 DEF Export, ExportBucket, ExportPanic

\* After a restart the buckets hold what was written of them, or nothing.
LEMMA RestartFindable ==
  ASSUME SlotsFit, RestoreInv, Restart
  PROVE  FindableInv' /\ SavedFindable'
<1>1. /\ frame' = [t \in Threads |-> NoFrame] /\ saved' = saved
  BY DEF Restart
<1>2. StateOK' /\ ExporterOK
  BY RestartType DEF RestoreInv, ExportInv
<1>3. SavedFindable'
  BY <1>1 DEF RestoreInv, SavedFindable, Findable, Pair
<1>4. \A t \in Threads : HandFindable(t)' /\ NewItemAtHome(t)'
  <2> TAKE t \in Threads
  <2>1. frame'[t].hand.fp = 0
    BY <1>1 DEF NoFrame, ResetBlock
  <2>. QED
    BY <2>1, EmptyHanded
<1>5. StoredFindable'
  <2> SUFFICES ASSUME NEW i \in Buckets, NEW s \in Slots, occupied(buckets'[i][s])
               PROVE  Findable(buckets'[i][s].fp, i)
    BY DEF StoredFindable, Findable, Pair, occupied, is_empty
  <2>1. CASE Complete /\ buckets' = restored
    <3>1. PICK n \in 1 .. BucketCount : position(n - 1) = i /\ restored[i] = saved[n]
      BY RestoredFrom
    <3>2. n \in 1 .. Len(saved)
      BY <2>1 DEF Complete
    <3>3. occupied(saved[n][s])
      BY <2>1, <3>1
    <3>4. Findable(saved[n][s].fp, position(n - 1))
      BY <3>2, <3>3 DEF RestoreInv, SavedFindable
    <3>. QED
      BY <2>1, <3>1, <3>4
  <2>2. CASE buckets' = [j \in Buckets |-> EmptyBucket]
    BY <2>2, EmptyBucketType DEF occupied, is_empty
  <2>. QED
    BY <2>1, <2>2 DEF Restart
<1>. QED
  BY <1>2, <1>3, <1>4, <1>5 DEF FindableInv

\* A call that panics takes its block in hand with it.
LEMMA PanicFindable ==
  ASSUME RestoreInv, NEW t \in Threads, Panic(t)
  PROVE  StoredFindable' /\ \A u \in Threads : HandFindable(u)' /\ NewItemAtHome(u)'
<1>1. Shapes /\ FindableInv
  BY DEF RestoreInv, ExportInv, StateOK
<1>2. Alone(t) /\ UNCHANGED buckets /\ frame'[t] = NoFrame
  BY <1>1, PanicStep
<1>3. HandFindable(t)' /\ NewItemAtHome(t)'
  <2>1. frame'[t].hand.fp = 0
    BY <1>2 DEF NoFrame, ResetBlock
  <2>. QED
    BY <2>1, EmptyHanded
<1>4. ASSUME NEW u \in Threads \ {t} PROVE HandFindable(u)' /\ NewItemAtHome(u)'
  <2>1. frame'[u] = frame[u] /\ pc'[u] = pc[u]
    BY <1>2 DEF Alone
  <2>. QED
    BY <1>1, <2>1 DEF FindableInv, HandFindable, NewItemAtHome, Displaced, new_item, Findable, Pair
<1>5. StoredFindable'
  BY <1>1, <1>2 DEF FindableInv, StoredFindable, Findable, Pair
<1>. QED
  BY <1>3, <1>4, <1>5

\* RestoreInv is inductive.
LEMMA RestoreInvStep ==
  ASSUME SlotsFit, RestoreInv, [ExportNext]_allVars
  PROVE  RestoreInv'
<1>1. ExportInv' /\ StateOK'
  BY ExportInvStep DEF RestoreInv, ExportInv
<1>2. CASE Restart
  BY <1>1, <1>2, RestartFindable DEF RestoreInv
<1>3. CASE ~Restart
  <2>1. SavedFindable'
    <3>1. CASE Export
      BY <3>1, SavedStep DEF RestoreInv, FindableInv
    <3>2. CASE saved' = saved
      BY <3>2 DEF RestoreInv, SavedFindable, Findable, Pair
    <3>. QED
      BY <1>3, <3>1, <3>2, ExporterAlone DEF exportVars
  <2>2. FindableInv'
    <3>1. ASSUME NEW t \in Threads, Panic(t) PROVE FindableInv'
      BY <1>1, <3>1, PanicFindable DEF FindableInv
    <3>. QED
      BY <1>3, <3>1, ExportSteps, FindableInvStep DEF RestoreInv
  <2>. QED
    BY <1>1, <2>1, <2>2 DEF RestoreInv
<1>. QED
  BY <1>2, <1>3

\* An imported filter has every fingerprint in one of the two buckets in which
\* the methods look for its key, whatever was inserted, kicked and removed while it
\* was exported, and whether or not calls or exports panicked (exporter.rs:240,
\* filter.rs:194).
THEOREM RestoredAlwaysFindable ==
  ASSUME SlotsFit
  PROVE  ExportSpec => []RestoredFindable
<1>1. ExportInit => RestoreInv
  <2> SUFFICES ASSUME ExportInit PROVE RestoreInv
    OBVIOUS
  <2>1. ExportInv /\ FindableInv
    BY ExportInvInit, FindableInvInit DEF ExportInit
  <2>2. 1 .. Len(saved) = {}
    BY DEF ExportInit
  <2>. QED
    BY <2>1, <2>2 DEF RestoreInv, SavedFindable
<1>2. RestoreInv /\ [ExportNext]_allVars => RestoreInv'
  BY RestoreInvStep
<1>3. RestoreInv => RestoredFindable
  BY FindableInvMeans DEF RestoreInv, RestoredFindable
<1>. QED
  BY <1>1, <1>2, <1>3, PTL DEF ExportSpec

-----------------------------------------------------------------------------
(* What is written is what was there.  At any time the buckets hold what    *)
(* they held all the time since the export began, and nothing that they     *)
(* did not hold at some time.                                               *)

HistoryBounds ==
  /\ steady \subseteq StoredPairs
  /\ exporter # "none" => StoredPairs \subseteq seen

SnapshotInv == ExportInv /\ HistoryBounds /\ SnapshotCombinesStates

\* The pairs of a bucket are those of its fingerprints.
LEMMA PairsOf ==
  ASSUME NEW i \in Buckets, NEW fp
  PROVE  <<i, fp>> \in StoredPairs <=> fp \in stored(buckets[i])
BY DEF StoredPairs

\* A pair is of a bucket and a fingerprint in it.
LEMMA PairsAre ==
  ASSUME NEW y \in StoredPairs
  PROVE  y[1] \in Buckets /\ y[2] \in stored(buckets[y[1]])
BY DEF StoredPairs

\* The histories follow the buckets.
LEMMA HistoryStep ==
  ASSUME ExportInv, [ExportNext]_allVars, HistoryBounds
  PROVE  HistoryBounds'
<1>1. CASE Observe
  BY <1>1 DEF Observe, HistoryBounds
<1>2. CASE ExportStart
  <2>1. StoredPairs' = StoredPairs
    BY <1>2 DEF ExportStart, vars, StoredPairs
  <2>. QED
    BY <1>2, <2>1 DEF ExportStart, HistoryBounds
<1>3. CASE Restart
  BY <1>3 DEF Restart, HistoryBounds
<1>4. CASE UNCHANGED allVars
  <2>1. StoredPairs' = StoredPairs /\ UNCHANGED <<steady, seen, exporter>>
    BY <1>4 DEF allVars, vars, exportVars, historyVars, StoredPairs
  <2>. QED
    BY <2>1 DEF HistoryBounds
<1>. QED
  BY <1>1, <1>2, <1>3, <1>4
  DEF ExportNext, Call_or_step, Panic, Export, ExportBucket, ExportPanic

\* A bucket is written as it is when its turn comes (exporter.rs, write_to).
LEMMA SnapshotStep ==
  ASSUME SnapshotInv, [ExportNext]_allVars
  PROVE  SnapshotCombinesStates'
<1>1. Shapes /\ ExporterOK /\ HistoryBounds /\ SnapshotCombinesStates /\ ExportInv
  BY DEF SnapshotInv, ExportInv, StateOK
<1>2. CASE Restart \/ exporter' \notin {"writing", "done"}
  BY <1>2 DEF Restart, SnapshotCombinesStates
<1>3. CASE ExportStart
  <2>1. 1 .. Len(saved') = {}
    BY <1>3 DEF ExportStart
  <2>. QED
    BY <2>1 DEF SnapshotCombinesStates
<1>4. CASE /\ saved' = saved /\ steady' \subseteq steady /\ seen \subseteq seen'
           /\ exporter' = exporter
  BY <1>1, <1>4 DEF SnapshotCombinesStates
<1>5. CASE /\ ExportBucket /\ saved' = Append(saved, buckets[next_bucket])
  <2>1. next_bucket \in Buckets /\ buckets[next_bucket] \in BucketStates
    BY <1>1, IndexTypes, BucketOf DEF next_bucket
  <2> DEFINE b == buckets[next_bucket]
  <2>2. /\ Len(saved') = Len(saved) + 1 /\ Len(saved) \in Nat
        /\ saved'[Len(saved) + 1] = b
        /\ \A n \in 1 .. Len(saved) : saved'[n] = saved[n]
    BY <1>1, <1>5, <2>1, AppendType, SavedType
  <2>3. exporter = "writing" /\ steady' \subseteq steady /\ seen' = seen \cup StoredPairs
    <3>1. StoredPairs' = StoredPairs
      BY <1>5 DEF ExportBucket, vars, StoredPairs
    <3>. QED
      BY <1>5, <3>1 DEF ExportBucket, Observe
  <2>4. \A y \in steady' : y[1] = next_bucket => y[2] \in stored(b)
    BY <1>1, <2>3, PairsAre DEF HistoryBounds
  <2>5. \A fp \in stored(b) : <<next_bucket, fp>> \in seen'
    BY <2>1, <2>3, PairsOf
  <2> HIDE DEF b
  <2> SUFFICES ASSUME NEW n \in 1 .. Len(saved')
               PROVE  /\ {x[2] : x \in {y \in steady' : y[1] = position(n - 1)}}
                           \subseteq stored(saved'[n])
                      /\ \A fp \in stored(saved'[n]) : <<position(n - 1), fp>> \in seen'
    BY DEF SnapshotCombinesStates, stored, occupied, is_empty
  <2>6. CASE n \in 1 .. Len(saved)
    BY <1>1, <2>2, <2>3, <2>6 DEF SnapshotCombinesStates
  <2>7. CASE n = Len(saved) + 1
    <3>1. position(n - 1) = next_bucket /\ saved'[n] = b
      BY <2>2, <2>7 DEF next_bucket
    <3>. QED
      BY <2>4, <2>5, <3>1
  <2>. QED
    BY <2>2, <2>6, <2>7
<1>6. CASE Export
  BY <1>2, <1>3, <1>5, <1>6 DEF Export, ExportBucket, ExportPanic
<1>7. CASE \E t \in Threads : Call_or_step(t) \/ Panic(t)
  BY <1>4, <1>7 DEF Call_or_step, Panic, exportVars, Observe
<1>8. CASE UNCHANGED allVars
  BY <1>4, <1>8 DEF allVars, exportVars, historyVars
<1>. QED
  BY <1>2, <1>6, <1>7, <1>8 DEF ExportNext

\* A snapshot that is taken while the filter is used combines states that its
\* buckets were in meanwhile: what a bucket held all the time is in it, and it holds
\* nothing that the bucket did not hold at some time (exporter.rs:228).
THEOREM SnapshotIsOfStates ==
  ASSUME SlotsFit
  PROVE  ExportSpec => []SnapshotCombinesStates
<1>1. ExportInit => SnapshotInv
  <2> SUFFICES ASSUME ExportInit PROVE SnapshotInv
    OBVIOUS
  <2>1. ExportInv
    BY ExportInvInit
  <2>2. exporter = "none" /\ steady = {}
    BY DEF ExportInit
  <2>. QED
    BY <2>1, <2>2 DEF SnapshotInv, HistoryBounds, SnapshotCombinesStates
<1>2. SnapshotInv /\ [ExportNext]_allVars => SnapshotInv'
  BY ExportInvStep, HistoryStep, SnapshotStep DEF SnapshotInv
<1>3. SnapshotInv => SnapshotCombinesStates
  BY DEF SnapshotInv
<1>. QED
  BY <1>1, <1>2, <1>3, PTL DEF ExportSpec

-----------------------------------------------------------------------------
(* The counter, which a restart makes exact and a panic leaves behind.      *)

\* A panic has nothing left to count, whatever there was to count before it.
LEMMA PanicBalance ==
  ASSUME Shapes, IsFiniteSet(Threads), NEW t \in Threads, Panic(t), NEW e \in Int,
         e = frame[t].removed - ToCount(Adds(t))
  PROVE  Drift' = (Drift + e) % (UsizeMax + 1)
<1>1. /\ Shapes' /\ Alone(t) /\ UNCHANGED <<buckets, items>>
      /\ pc'[t] = "idle" /\ frame'[t] = NoFrame
  BY PanicStep
<1>2. frame'[t].removed = 0 /\ ToCount(Adds(t)') = 0
  BY <1>1 DEF NoFrame, Adds, ToCount
<1>3. Occupied' = Occupied
  BY <1>1, OccupiedSame
<1>4. /\ BalanceType /\ BalanceType'
      /\ Balance' = Balance + ToCount(Adds(t)') - ToCount(Adds(t))
                            - (frame'[t].removed - frame[t].removed)
                            - (Cardinality(Occupied)' - Cardinality(Occupied))
  BY <1>1, BalanceStep
<1>5. /\ Balance \in Int /\ Cardinality(Occupied) \in Int
      /\ ToCount(Adds(t)) \in Int /\ frame[t].removed \in Int
  BY <1>4, LocalTypes DEF BalanceType, Balance, ToCount
<1>6. Cardinality(Occupied)' = Cardinality(Occupied)
  BY <1>3
<1>7. Balance' = Balance - 0 + e
  BY <1>2, <1>4, <1>5, <1>6
<1>8. items' = (items + 0) % (UsizeMax + 1)
  BY <1>1, <1>4, DriftRange
<1>. QED
  BY <1>1, <1>4, <1>7, <1>8, DriftBy

\* What a panic does to the counter: it forgets a slot that an insertion has filled,
\* and the items that a scan has removed (filter.rs, insert and
\* scan_and_update_full_partition).
LEMMA PanicDrift ==
  ASSUME Shapes, IsFiniteSet(Threads), NEW t \in Threads, CountInv(t), Panic(t)
  PROVE  \/ Drift' = Drift
         \/ /\ Drift' = wrapping_sub(Drift, 1)
            /\ pc[t] \in {"kick", "place"} /\ ret'[t] = Panicked /\ frame[t].hand.fp = 0
         \/ /\ Drift' = wrapping_add(Drift, frame[t].removed)
            /\ pc[t] = "scan" /\ ret'[t] = Panicked
<1>1. ret'[t] = Panicked /\ Shapes' /\ Alone(t)
  BY PanicStep
<1>2. pc[t] \notin {"count_add", "count_sub"}
  BY DEF Panic, locks
<1>3. frame[t].removed \in Int /\ frame[t].kicks \in Nat
  BY LocalTypes, FilterConstants
<1>4. BalanceType
  BY <1>1, BalanceStep
<1>5. Drift \in Int /\ (Drift + 0) % (UsizeMax + 1) = Drift
  BY <1>4, DriftRange, FilterConstants DEF Drift, BalanceType, Shapes
<1>6. CASE pc[t] = "scan"
  <2>1. ToCount(Adds(t)) = 0
    BY <1>6 DEF ToCount, Adds
  <2>2. frame[t].removed = frame[t].removed - ToCount(Adds(t))
    BY <1>3, <2>1
  <2>3. Drift' = (Drift + frame[t].removed) % (UsizeMax + 1)
    BY <1>3, <2>2, PanicBalance
  <2>. QED
    BY <1>1, <1>6, <2>3 DEF wrapping_add
<1>7. CASE pc[t] # "scan" /\ ~Adds(t)
  <2>1. 0 = frame[t].removed - ToCount(Adds(t))
    BY <1>2, <1>7 DEF CountInv, ToCount
  <2>2. Drift' = (Drift + 0) % (UsizeMax + 1)
    BY <2>1, PanicBalance
  <2>. QED
    BY <1>5, <2>2
<1>8. CASE pc[t] # "scan" /\ Adds(t)
  <2>1. -1 = frame[t].removed - ToCount(Adds(t))
    BY <1>2, <1>8 DEF CountInv, ToCount
  <2>2. Drift' = (Drift + -1) % (UsizeMax + 1)
    BY <2>1, PanicBalance
  <2>3. Drift + -1 = Drift - 1
    BY <1>5
  <2>4. pc[t] \in {"kick", "place"} /\ frame[t].hand.fp = 0
    BY <1>2, <1>8 DEF Adds
  <2>. QED
    BY <1>1, <2>2, <2>3, <2>4 DEF wrapping_sub
<1>. QED
  BY <1>6, <1>7, <1>8

\* A restart begins with the counter exact (filter.rs:196).
LEMMA RestartDrift ==
  ASSUME SlotsFit, ExporterOK, IsFiniteSet(Threads), Restart
  PROVE  Drift' = 0
<1>1. \A t \in Threads : pc'[t] = "idle" /\ frame'[t] = NoFrame
  BY DEF Restart
<1>2. ToAdd' = {}
  BY <1>1 DEF ToAdd, NoFrame, ResetBlock
<1>3. ToSubtract' = {}
  <2>1. \A t \in Threads : frame'[t].removed = 0
    BY <1>1 DEF NoFrame
  <2>. QED
    BY <2>1 DEF ToSubtract
<1>4. items' = Cardinality(Occupied')
  <2>1. CASE Complete /\ buckets' = restored /\ items' = item_count
    BY <2>1, ItemsCounted
  <2>2. CASE buckets' = [i \in Buckets |-> EmptyBucket] /\ items' = 0
    <3>1. Occupied' = {}
      BY <2>2, EmptyBucketType DEF Occupied, occupied, is_empty
    <3>. QED
      BY <2>2, <3>1, FS_EmptySet
  <2>. QED
    BY <2>1, <2>2 DEF Restart
<1>5. items' \in Int
  BY RestartType, FilterConstants DEF StateOK, Shapes
<1>6. Cardinality(ToAdd') = 0 /\ Cardinality(ToSubtract') = 0
  BY <1>2, <1>3, FS_EmptySet
<1> DEFINE n == (items + Cardinality(ToAdd) - Cardinality(ToSubtract)
                   - Cardinality(Occupied))'
<1>7. n = 0
  BY <1>4, <1>5, <1>6
<1>8. Drift' = n % (UsizeMax + 1)
  BY DEF Drift
<1> HIDE DEF n
<1>9. UsizeMax + 1 \in Nat \ {0} /\ 0 \in 0 .. (UsizeMax + 1) - 1
  BY FilterConstants
<1>10. 0 % (UsizeMax + 1) = 0
  BY <1>9, InRange
<1>. QED
  BY <1>7, <1>8, <1>10

RestartCountInv == ExportInv /\ AllCountInv

\* Panics and restarts leave nothing to count either.
LEMMA RestartCountInvStep ==
  ASSUME SlotsFit, RestartCountInv, [ExportNext]_allVars
  PROVE  RestartCountInv'
<1>1. ExportInv' /\ StateOK' /\ Shapes
  BY ExportInvStep DEF RestartCountInv, ExportInv, StateOK
<1>2. CASE Restart
  <2>1. \A t \in Threads : pc'[t] = "idle" /\ frame'[t] = NoFrame
    BY <1>2 DEF Restart
  <2>2. \A t \in Threads : CountInv(t)'
    BY <2>1 DEF CountInv, NoFrame
  <2>. QED
    BY <1>1, <2>2 DEF RestartCountInv, AllCountInv
<1>3. ASSUME NEW t \in Threads, Panic(t) PROVE RestartCountInv'
  <2>1. Alone(t) /\ pc'[t] = "idle" /\ frame'[t] = NoFrame
    BY <1>1, <1>3, PanicStep
  <2>2. CountInv(t)'
    BY <2>1 DEF CountInv, NoFrame
  <2>3. ASSUME NEW u \in Threads \ {t} PROVE CountInv(u)'
    <3>1. pc'[u] = pc[u] /\ frame'[u] = frame[u]
      BY <2>1 DEF Alone
    <3>. QED
      BY <3>1 DEF RestartCountInv, AllCountInv, CountInv, new_item
  <2>. QED
    BY <1>1, <2>2, <2>3 DEF RestartCountInv, AllCountInv
<1>4. CASE [Next]_vars
  BY <1>1, <1>4, CountInvStep DEF RestartCountInv
<1>. QED
  BY <1>2, <1>3, <1>4, ExportSteps

\* A restored counter is exact, whatever it was before; calls that end in a panic, and
\* nothing else but the two cases of the methods themselves, leave it off: a scan
\* does not subtract what it has removed, an insertion with an empty block in hand has
\* filled a slot that it does not count (filter.rs:196, insert, scan_and_update_full).
THEOREM CounterRestoredExactly ==
  ASSUME SlotsFit, IsFiniteSet(Threads)
  PROVE  ExportSpec => CountDriftRestored
<1> DEFINE A == \/ Drift' = Drift
                \/ Restart /\ Drift' = 0
                \/ Drift' = wrapping_add(Drift, 1) /\ \E t \in Threads : Merges(t)
                \/ /\ Drift' = wrapping_sub(Drift, 1)
                   /\ \E t \in Threads :
                        /\ pc[t] \in {"kick", "place"}
                        /\ \/ ret'[t] = Evicted(0)
                           \/ ret'[t] = Panicked /\ frame[t].hand.fp = 0
                \/ \E t \in Threads : /\ pc[t] = "scan" /\ ret'[t] = Panicked
                                      /\ Drift' = wrapping_add(Drift, frame[t].removed)
<1>1. ExportInit => RestartCountInv
  <2> SUFFICES ASSUME ExportInit PROVE RestartCountInv
    OBVIOUS
  <2>1. ExportInv /\ StateOK /\ Init
    BY ExportInvInit DEF ExportInit, ExportInv
  <2>2. \A t \in Threads : CountInv(t)
    BY <2>1 DEF Init, CountInv, NoFrame
  <2>. QED
    BY <2>1, <2>2 DEF RestartCountInv, AllCountInv
<1>2. RestartCountInv /\ [ExportNext]_allVars => RestartCountInv'
  BY RestartCountInvStep
<1>3. RestartCountInv /\ RestartCountInv' /\ [ExportNext]_allVars => A
  <2> SUFFICES ASSUME RestartCountInv, RestartCountInv', [ExportNext]_allVars PROVE A
    OBVIOUS
  <2>1. StateOK /\ StateOK' /\ Shapes /\ ExporterOK /\ AllCountInv
    BY DEF RestartCountInv, ExportInv, StateOK
  <2>2. CASE Restart
    BY <2>1, <2>2, RestartDrift
  <2>3. ASSUME NEW t \in Threads, Panic(t) PROVE A
    BY <2>1, <2>3, PanicDrift DEF AllCountInv
  <2>4. CASE [Next]_vars
    BY <2>1, <2>4, NextDrift DEF Drifts
  <2>. QED
    BY <2>2, <2>3, <2>4, ExportSteps
<1> HIDE DEF A
<1>4. ExportSpec => [][A]_allVars
  BY <1>1, <1>2, <1>3, PTL DEF ExportSpec
<1>. QED
  BY <1>4 DEF CountDriftRestored, A
=============================================================================
