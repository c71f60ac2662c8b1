---------------------------- MODULE CuckooExport ----------------------------
(***************************************************************************)
(* The filter beside an export of itself (src/src/exporter.rs) and across  *)
(* restarts that import what was exported (src/src/filter.rs, import).     *)
(* The exporter locks one bucket after the other and calls the writer of   *)
(* the caller with the mutex held; the writer may fail or panic, and a     *)
(* panic poisons the mutex, so that every later lock().unwrap() panics.    *)
(* The hasher and the configuration never change; how they are written and *)
(* read is in ConfigStream.                                                *)
(***************************************************************************)
EXTENDS CuckooFilter, Sequences

VARIABLES
  exporter,  \* what the exporter is doing
  saved,     \* what it has written: position -> bucket, for the first positions
  poisoned,  \* the buckets whose mutex is poisoned
  steady,    \* since the export began: <<bucket, fingerprint>> stored all the time
  seen       \*   and those stored at some time

exportVars == <<exporter, saved, poisoned>>
historyVars == <<steady, seen>>
allVars == <<vars, exportVars, historyVars>>

Panicked == [panicked |-> TRUE]

stored(b) == {b[s].fp : s \in {s \in Slots : occupied(b[s])}}

StoredPairs == UNION {{i} \X stored(buckets[i]) : i \in Buckets}

ExportInit ==
  /\ Init
  /\ exporter = "none" /\ saved = << >> /\ poisoned = {}
  /\ steady = {} /\ seen = {}

\* Every step brings the histories up to date.
Observe ==
  /\ steady' = steady \cap StoredPairs'
  /\ seen' = seen \cup StoredPairs'

-----------------------------------------------------------------------------
(* The methods of the filter, and what they do when the mutex that they     *)
(* lock next is poisoned.                                                   *)

\* The bucket that thread t locks in its next section.
locks(t) ==
  CASE pc[t] \in {"look_i1", "insert_i1", "remove_i1"} -> {frame[t].home}
    [] pc[t] \in {"look_i2", "insert_i2", "remove_i2"} -> {second(t)}
    [] pc[t] \in {"kick", "place"}                     -> {frame[t].index}
    [] pc[t] = "scan"                                  -> {position(frame[t].pos)}
    [] OTHER                                           -> {}

Call_or_step(t) ==
  /\ Begin(t) \/ (locks(t) \cap poisoned = {} /\ Continue(t))
  /\ UNCHANGED exportVars
  /\ Observe

\* Mutant: a panic leaves the mutex locked, a call that needs it waits.
Panic_waits(t) == locks(t) \cap poisoned # {} /\ UNCHANGED allVars

\* lock_bucket(..) and b.lock().unwrap() panic: the call unwinds, the block in
\* hand and the number of items that a scan has removed so far are lost.
Panic(t) ==
  /\ locks(t) \cap poisoned # {}
  /\ Return(t, Panicked)
  /\ UNCHANGED <<buckets, items, exportVars>>
  /\ Observe

-----------------------------------------------------------------------------
(* Export. *)

\* Hasher and configuration are written.
ExportStart ==
  /\ exporter # "writing"
  /\ exporter' = "writing"
  /\ saved' = << >>
  /\ UNCHANGED <<vars, poisoned>>
  /\ steady' = StoredPairs /\ seen' = StoredPairs

next_bucket == position(Len(saved))

\* Mutant: a writer that fails leaves the bucket out.
ExportBucket_skipping ==
  /\ exporter = "writing" /\ next_bucket \notin poisoned
  /\ \E b \in {buckets[next_bucket], EmptyBucket} :
       /\ saved' = Append(saved, b)
       /\ exporter' = IF Len(saved) + 1 = BucketCount THEN "done" ELSE "writing"
  /\ UNCHANGED <<vars, poisoned>>
  /\ Observe

\* Mutant: one bucket more than there are.
ExportBucket_beyond ==
  /\ exporter = "writing" /\ next_bucket \notin poisoned
  /\ saved' = Append(saved, buckets[next_bucket])
  /\ exporter' = IF Len(saved) = BucketCount THEN "done" ELSE "writing"
  /\ UNCHANGED <<vars, poisoned>>
  /\ Observe

ExportBucket ==
  /\ exporter = "writing" /\ next_bucket \notin poisoned
  /\ \/ /\ saved' = Append(saved, buckets[next_bucket])
        /\ exporter' = IF Len(saved) + 1 = BucketCount THEN "done" ELSE "writing"
        /\ UNCHANGED poisoned
     \/ /\ exporter' = "failed"
        /\ UNCHANGED <<saved, poisoned>>
     \/ /\ exporter' = "panicked"
        /\ poisoned' = poisoned \cup {next_bucket}
        /\ UNCHANGED saved
  /\ UNCHANGED vars
  /\ Observe

\* The writer panics in one export, a later export finds the mutex poisoned.
ExportPanic ==
  /\ exporter = "writing" /\ next_bucket \in poisoned
  /\ exporter' = "panicked"
  /\ UNCHANGED <<vars, saved, poisoned>>
  /\ Observe

-----------------------------------------------------------------------------
(* Restart. *)

Complete == Len(saved) = BucketCount

\* Mutant: the buckets are pushed in front of each other.
restored_reversed ==
  [i \in Buckets |->
     saved[BucketCount + 1 - CHOOSE n \in 1 .. BucketCount : position(n - 1) = i]]

restored == [i \in Buckets |-> saved[CHOOSE n \in 1 .. BucketCount : position(n - 1) = i]]

\* Mutant: the imported items are not counted.
item_count_zero == 0

item_count ==
  Cardinality({x \in (1 .. BucketCount) \X Slots : occupied(saved[x[1]][x[2]])})

\* The process ends, whatever it is doing, and the next one imports what was
\* written.  An incomplete export is refused; the program then begins with an
\* empty filter of the same configuration.
Restart ==
  /\ \/ Complete /\ buckets' = restored /\ items' = item_count
     \/ ~Complete /\ buckets' = [i \in Buckets |-> EmptyBucket] /\ items' = 0
  /\ pc' = [t \in Threads |-> "idle"]
  /\ frame' = [t \in Threads |-> NoFrame]
  /\ ret' = [t \in Threads |-> Pending]
  /\ exporter' = "none" /\ poisoned' = {}
  /\ UNCHANGED saved
  /\ steady' = {} /\ seen' = {}

-----------------------------------------------------------------------------
Export == ExportStart \/ ExportBucket \/ ExportPanic

ExportNext == (\E t \in Threads : Call_or_step(t) \/ Panic(t)) \/ Export \/ Restart

ExportSpec == ExportInit /\ [][ExportNext]_allVars

\* A running thread goes on, and so does the exporter, whose writer returns.
FairExportSpec ==
  /\ ExportSpec
  /\ \A t \in Threads : WF_allVars((Call_or_step(t) /\ pc[t] # "idle") \/ Panic(t))
  /\ WF_allVars(ExportBucket \/ ExportPanic)

-----------------------------------------------------------------------------
(* Properties. *)

\* Buckets keep their shape, a thread that panics is idle again, and what the
\* exporter has written is a sequence of buckets (exporter.rs, write_to).
ExportTypeOK ==
  /\ buckets \in [Buckets -> BucketStates] /\ items \in 0 .. UsizeMax
  /\ pc \in [Threads -> Sections] /\ frame \in [Threads -> Frames]
  /\ \A t \in Threads : ret[t] \in Answers \/ (ret[t] = Panicked /\ pc[t] = "idle")
  /\ exporter \in {"none", "writing", "done", "failed", "panicked"}
  /\ saved \in Seq(BucketStates) /\ Len(saved) <= BucketCount
  /\ poisoned \subseteq Buckets

\* An imported filter has every fingerprint in one of the two buckets in which
\* the methods look for its key, whatever was going on while it was exported
\* (exporter.rs:240, filter.rs:194).
RestoredFindable == FindableWhereLooked

\* A restored counter is exact, whatever it was before (filter.rs:196); calls that
\* end in a panic, and nothing else but the two cases of the methods themselves,
\* leave it off: a scan does not subtract what it has removed, an insertion with
\* an empty block in hand has filled a slot that it does not count.
CountDriftRestored ==
  [][\/ Drift' = Drift
     \/ Restart /\ Drift' = 0
     \/ Drift' = wrapping_add(Drift, 1) /\ \E t \in Threads : Merges(t)
     \/ /\ Drift' = wrapping_sub(Drift, 1)
        /\ \E t \in Threads : /\ pc[t] \in {"kick", "place"}
                              /\ \/ ret'[t] = Evicted(0)
                                 \/ ret'[t] = Panicked /\ frame[t].hand.fp = 0
     \/ \E t \in Threads : /\ pc[t] = "scan" /\ ret'[t] = Panicked
                           /\ Drift' = wrapping_add(Drift, frame[t].removed)]_allVars

\* A snapshot combines states that the buckets were in while it was taken: what a
\* bucket held all the time is in it, and nothing is that the bucket never held
\* (exporter.rs:228).
SnapshotCombinesStates ==
  \A n \in 1 .. Len(saved) :
    LET i == position(n - 1)
    IN  exporter \in {"writing", "done"} =>
          /\ {x[2] : x \in {y \in steady : y[1] = i}} \subseteq stored(saved[n])
          /\ \A fp \in stored(saved[n]) : <<i, fp>> \in seen

\* Every call ends, by a return or a panic, also beside an export that has
\* panicked with a bucket locked (exporter.rs:243).
EveryCallEnds == \A t \in Threads : pc[t] # "idle" ~> pc[t] = "idle"
=============================================================================
