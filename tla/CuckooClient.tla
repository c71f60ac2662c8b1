---------------------------- MODULE CuckooClient ----------------------------
(***************************************************************************)
(* The filter with the programs that use it, as the fuzz targets do        *)
(* (src/fuzz/fuzz_targets/filter.rs): each thread inserts, looks up and    *)
(* removes keys of its own and keeps track of what it has been told.       *)
(***************************************************************************)
EXTENDS LookupHistory

CONSTANT Own  \* thread -> its keys

ASSUME OwnKeys == Own \in [Threads -> SUBSET Keys]

VARIABLES
  key,      \* the key of the last call of each thread
  members,  \* keys that were inserted, not removed, and not reported as evicted
  removed   \* keys whose removal has returned, and that were not inserted since

clientVars == <<historyVars, key, members, removed>>

ClientInit ==
  /\ HInit
  /\ key = [t \in Threads |-> None] /\ members = {} /\ removed = {}

token_of(k) ==
  LET h == get_fingerprint_and_index(k) IN token(h.fp, h.index)

\* The keys that the filter cannot tell from k: they share its slot.
Twins(k) == {j \in Keys : token_of(j) = token_of(k)}

Inserting == {"insert", "insert_if_not_present"}

\* Thread t calls a method with key k.
Ask(t, k) ==
  LET h == get_fingerprint_and_index(k)
      api == frame'[t].api
  IN  /\ Begin(t)
      /\ pc'[t] # "idle" /\ frame'[t].fp = h.fp /\ frame'[t].home = h.index
      /\ key' = [key EXCEPT ![t] = k]
      /\ members' = CASE api \in Inserting -> members \cup {k}
                      [] api = "remove"    -> members \ Twins(k)
                      [] OTHER             -> members
      /\ removed' = IF api \in Inserting THEN removed \ Twins(k) ELSE removed

Returns(t) == pc[t] # "idle" /\ pc'[t] = "idle"

\* Keys with the fingerprint that an insertion of thread t reports as evicted.
Reported(t) ==
  IF Returns(t) /\ ret'[t] \in [evicted : Fingerprint]
  THEN {k \in Keys : get_fingerprint_and_index(k).fp = ret'[t].evicted}
  ELSE {}

Learn(t) ==
  /\ Continue(t)
  /\ members' = members \ Reported(t)
  /\ removed' = IF Returns(t) /\ frame[t].api = "remove" THEN removed \cup {key[t]} ELSE removed
  /\ UNCHANGED key

ClientNext ==
  /\ \E t \in Threads : Learn(t) \/ \E k \in Own[t] : Ask(t, k)
  /\ Remember

ClientSpec == ClientInit /\ [][ClientNext]_clientVars

-----------------------------------------------------------------------------
(* Properties. *)

\* An insertion of k still carries the block of k.
Underway(k) ==
  \E t \in Threads :
    /\ key[t] = k /\ frame[t].api \in Inserting
    /\ pc[t] \in {"look_i1", "look_i2", "insert_i1", "insert_i2"}
       \/ (pc[t] = "kick" /\ new_item(t))

\* A key stays in the filter until it is removed, itself or under the name of one
\* that shares its slot (bucket.rs:72), or an eviction of its fingerprint is
\* reported to some thread: "Returns fingerprint of the item that was evicted from
\* the filter" (filter.rs:387).
StoredUnlessReported ==
  \A k \in members : Underway(k) \/ token_of(k) \in Tokens

\* Once its removal has returned a key is not found any more: "Removes this key
\* from the filter, if present" (filter.rs:533).
RemovedIsGone == \A k \in removed : token_of(k) \notin Tokens
=============================================================================
