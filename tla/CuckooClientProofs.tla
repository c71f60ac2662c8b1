-------------------------- MODULE CuckooClientProofs --------------------------
(***************************************************************************)
(* What a caller of the filter can rely on: theorems about lookups that    *)
(* find nothing, and about the keys that programs insert and remove.       *)
(***************************************************************************)
EXTENDS CuckooClient, CuckooFilterProofs

-----------------------------------------------------------------------------
(* Lookups that miss.  A bucket that has held the fingerprint all the time  *)
(* holds it now, and the first bucket has been seen without it.             *)

StillHolds(t) == pc[t] \in Looking => still[t] \subseteq CandidatesHolding(t)

HomeMissed(t) == pc[t] \in {"look_i2", "remove_i2"} => frame[t].home \notin still[t]

HistoryInv == StateOK /\ \A t \in Threads : StillHolds(t) /\ HomeMissed(t)

\* A thread goes on to the second bucket of its key when it has not found the
\* fingerprint in the first (filter.rs, contains, remove).
LEMMA GoesOnAfterMiss ==
  ASSUME Shapes, NEW t \in Threads, Begin(t) \/ Continue(t),
         pc'[t] \in {"look_i2", "remove_i2"}
  PROVE  /\ pc[t] # "idle" /\ UNCHANGED <<buckets, frame>>
         /\ ~contains(buckets[frame[t].home], frame[t].fp)
<1>1. ~Begin(t)
  BY DEF Begin, CallInsert, CallInsertIfNotPresent, CallContains, CallGetAssociatedData,
         CallRemove, CallScan, ScanPartition, GetItemCount, Call, Return, Goto, Shapes
<1>2. LookFirst(t) \/ RemoveFirst(t)
  BY <1>1 DEF Continue, LookFirst, LookSecond, Hit, InsertFirst, InsertSecond, Land, Kick,
       Place, CountAdd, RemoveFirst, RemoveSecond, Clear, Scan, CountSub, Goto, Return, Shapes
<1>. QED
  BY <1>2 DEF LookFirst, RemoveFirst, Hit, Clear, Return, Goto, Shapes

\* HistoryInv is inductive.
LEMMA HistoryInvStep == HistoryInv /\ [HNext]_historyVars => HistoryInv'
<1> SUFFICES ASSUME HistoryInv, [HNext]_historyVars PROVE HistoryInv'
  OBVIOUS
<1>1. CASE UNCHANGED historyVars
  BY <1>1, StateOKStep DEF historyVars, HistoryInv, vars, StillHolds, HomeMissed,
                          CandidatesHolding, Pair
<1>2. CASE HNext
  <2>1. PICK t \in Threads : Begin(t) \/ Continue(t)
    BY <1>2 DEF HNext, Next
  <2>2. StateOK' /\ Shapes
    BY <1>2, StateOKStep DEF HistoryInv, HNext, StateOK
  <2> SUFFICES ASSUME NEW u \in Threads PROVE StillHolds(u)' /\ HomeMissed(u)'
    BY <2>2 DEF HistoryInv
  <2>3. still'[u] = IF pc'[u] \in Looking
                    THEN {i \in CandidatesHolding(u)' : pc[u] = "idle" \/ i \in still[u]}
                    ELSE {}
    BY <1>2 DEF HNext, Remember
  <2>4. StillHolds(u)'
    BY <2>3 DEF StillHolds
  <2>5. HomeMissed(u)'
    <3> SUFFICES ASSUME pc'[u] \in {"look_i2", "remove_i2"}
                 PROVE  frame'[u].home \notin still'[u]
      BY DEF HomeMissed
    <3>1. CASE u = t
      BY <2>1, <2>2, <2>3, <3>1, GoesOnAfterMiss DEF CandidatesHolding
    <3>2. CASE u # t
      <4>1. pc'[u] = pc[u] /\ frame'[u] = frame[u]
        BY <2>1, <2>2, <3>2, OthersUnchanged
      <4>. QED
        BY <2>3, <4>1 DEF HistoryInv, HomeMissed
    <3>. QED
      BY <3>1, <3>2
  <2>. QED
    BY <2>4, <2>5
<1>. QED
  BY <1>1, <1>2

\* A lookup, a removal or the check of insert_if_not_present comes to its end
\* without a hit only if neither bucket of the key has held the fingerprint for the
\* whole time of the call, whatever other threads do meanwhile (filter.rs, contains,
\* remove, insert_if_not_present).
THEOREM MissedKeyWasMoved == HSpec => MissMeansMoved
<1>1. HInit => HistoryInv
  BY InitShapes DEF HInit, Init, HistoryInv, StateOK, LookupLocals, StillHolds, HomeMissed, Looking
<1>2. HistoryInv => \A t \in Threads : Misses(t) => still[t] = {}
  BY DEF HistoryInv, StillHolds, HomeMissed, Misses, CandidatesHolding, Pair, second, Looking
<1>3. HSpec => []HistoryInv
  BY <1>1, HistoryInvStep, PTL DEF HSpec
<1>. QED
  BY <1>2, <1>3, PTL DEF MissMeansMoved, HSpec

-----------------------------------------------------------------------------
(* Keys that programs insert.  Where no two threads use keys that share a   *)
(* slot, a program that is told of no eviction finds what it has inserted.  *)

OwnersApart ==
  \A t, u \in Threads : \A k \in Own[t], j \in Own[u] : t # u => token_of(k) # token_of(j)

Tries == {"look_i1", "look_i2", "insert_i1", "insert_i2"}

\* Thread t is at work on its key.
CallsOwnKey(t) ==
  pc[t] \in Tries \cup Looking \cup {"kick", "place"} =>
    LET h == get_fingerprint_and_index(key[t])
    IN  key[t] \in Own[t] /\ frame[t].fp = h.fp /\ frame[t].home = h.index

\* Only insertions insert.
InsertsByInsertion(t) ==
  pc[t] \in {"insert_i1", "insert_i2", "kick", "place"} => frame[t].api \in Inserting

\* Until its first kick an insertion has the block of its key in hand.
BlockOfKey(t) ==
  frame[t].api \in Inserting =>
    /\ pc[t] \in Tries => frame[t].hand.fp = frame[t].fp /\ frame[t].kicks = 0
    /\ pc[t] = "kick" /\ new_item(t) =>
         /\ frame[t].hand.fp = frame[t].fp
         /\ frame[t].index \in {frame[t].home, second(t)}

\* While a key is removed it is no member, and nor are those that share its slot.
RemovesNoMember(t) ==
  pc[t] \in {"remove_i1", "remove_i2"} => members \cap Twins(key[t]) = {}

CallInv(t) ==
  /\ CallsOwnKey(t) /\ InsertsByInsertion(t) /\ BlockOfKey(t) /\ RemovesNoMember(t)
  /\ pc[t] # "scan"

ClientInv ==
  /\ StateOK
  /\ members \subseteq Keys
  /\ key \in [Threads -> Keys \cup {None}]
  /\ \A t \in Threads : CallInv(t)
  /\ StoredUnlessReported

\* A call with a key of the program begins with the locals of that key
\* (filter.rs, get_fingerprint_and_index).
LEMMA AskForms ==
  ASSUME Shapes, NEW t \in Threads, NEW k \in Keys, Ask(t, k)
  PROVE  /\ pc[t] = "idle" /\ Begin(t) /\ UNCHANGED buckets
         /\ frame'[t].fp = get_fingerprint_and_index(k).fp
         /\ frame'[t].home = get_fingerprint_and_index(k).index
         /\ \/ /\ frame'[t].api \in Inserting /\ pc'[t] \in {"look_i1", "insert_i1"}
               /\ frame'[t].hand.fp = frame'[t].fp /\ frame'[t].kicks = 0
            \/ frame'[t].api \in {"contains", "get_associated_data"} /\ pc'[t] = "look_i1"
            \/ frame'[t].api = "remove" /\ pc'[t] = "remove_i1"
<1>1. /\ Begin(t) /\ pc'[t] # "idle"
      /\ frame'[t].fp = get_fingerprint_and_index(k).fp
      /\ frame'[t].home = get_fingerprint_and_index(k).index
  BY DEF Ask
<1>2. pc[t] = "idle" /\ UNCHANGED buckets
  BY <1>1, BeginForms
<1>3. CASE BeginsInsertion(t)
  <2>1. PICK j \in Keys, values \in InsertArgs :
          /\ \/ frame'[t].api = "insert" /\ pc'[t] = "insert_i1"
             \/ frame'[t].api = "insert_if_not_present" /\ pc'[t] = "look_i1"
          /\ CalledWith(frame'[t], frame'[t].api, j)
          /\ frame'[t].hand = new_data_block(get_fingerprint_and_index(j).fp, values)
    BY <1>3, Zenon DEF BeginsInsertion
  <2>2. frame'[t].hand.fp = get_fingerprint_and_index(j).fp
    BY <2>1, KeyTypes, NewDataBlockType, ArgumentsAreValues
  <2>. QED
    BY <1>1, <1>2, <2>1, <2>2 DEF CalledWith, Inserting
<1>4. CASE BeginsKeyed(t)
  BY <1>1, <1>2, <1>4 DEF BeginsKeyed
<1>5. ~BeginsUnkeyed(t)
  BY <1>1, KeyTypes DEF BeginsUnkeyed
<1>. QED
  BY <1>1, <1>3, <1>4, <1>5, BeginForms

\* What is known of a call holds when it begins.
LEMMA CallInvAsk ==
  ASSUME ClientInv, NEW t \in Threads, NEW k \in Own[t], Ask(t, k)
  PROVE  CallInv(t)'
<1>1. Shapes /\ k \in Keys /\ key'[t] = k
  BY OwnKeys DEF ClientInv, StateOK, Ask
<1>2. CallsOwnKey(t)' /\ pc'[t] # "scan"
  BY <1>1, AskForms DEF CallsOwnKey, get_fingerprint_and_index
<1>3. InsertsByInsertion(t)' /\ BlockOfKey(t)'
  BY <1>1, AskForms DEF InsertsByInsertion, BlockOfKey, Inserting
<1>4. RemovesNoMember(t)'
  <2>1. pc'[t] \in {"remove_i1", "remove_i2"} => members' = members \ Twins(k)
    BY <1>1, AskForms DEF Ask, Inserting
  <2>2. (Twins(key[t]))' = Twins(k)
    BY <1>1 DEF Twins, token_of, get_fingerprint_and_index, token, Pair
  <2>. QED
    BY <2>1, <2>2 DEF RemovesNoMember
<1>. QED
  BY <1>2, <1>3, <1>4 DEF CallInv

\* And as it goes on.
LEMMA CallInvLearn ==
  ASSUME ClientInv, NEW t \in Threads, Learn(t)
  PROVE  CallInv(t)'
<1>1. /\ Shapes /\ Continue(t) /\ key'[t] = key[t] /\ members' \subseteq members
      /\ CallInv(t)
  BY DEF ClientInv, StateOK, Learn
<1>2. Twins(key[t])' = Twins(key[t])
  BY <1>1 DEF Twins, token_of, get_fingerprint_and_index, token, Pair
<1>3. frame[t].kicks \in Nat
  BY <1>1, LocalTypes, FilterConstants
<1>4. CASE pc'[t] \in {"idle", "count_add", "count_sub"}
  BY <1>4 DEF CallInv, CallsOwnKey, InsertsByInsertion, BlockOfKey, RemovesNoMember, Tries,
              Looking
<1>5. CASE GoesToNext(t)
  <2>1. CallsOwnKey(t)'
    BY <1>1, <1>5 DEF GoesToNext, CallInv, CallsOwnKey, Tries, Looking, get_fingerprint_and_index
  <2>2. InsertsByInsertion(t)' /\ BlockOfKey(t)' /\ pc'[t] # "scan"
    BY <1>1, <1>5 DEF GoesToNext, CallInv, InsertsByInsertion, BlockOfKey, Tries, Inserting
  <2>3. RemovesNoMember(t)'
    BY <1>1, <1>2, <1>5 DEF GoesToNext, CallInv, RemovesNoMember
  <2>. QED
    BY <2>1, <2>2, <2>3 DEF CallInv
<1>6. CASE StartsToKick(t) \/ TakesOut(t) \/ KicksOn(t)
  <2>1. CallsOwnKey(t)'
    BY <1>1, <1>6 DEF StartsToKick, TakesOut, KicksOn, SameKey, CallInv, CallsOwnKey, Tries,
                      get_fingerprint_and_index
  <2>2. InsertsByInsertion(t)' /\ pc'[t] # "scan" /\ RemovesNoMember(t)'
    BY <1>1, <1>6 DEF StartsToKick, TakesOut, KicksOn, SameKey, CallInv, InsertsByInsertion,
                      RemovesNoMember
  <2>3. BlockOfKey(t)'
    <3>1. CASE StartsToKick(t)
      BY <1>1, <3>1 DEF StartsToKick, SameKey, CallInv, BlockOfKey, Tries, second, alt_index
    <3>2. CASE TakesOut(t)
      BY <3>2 DEF TakesOut, BlockOfKey, Tries
    <3>3. CASE KicksOn(t)
      BY <1>3, <3>3 DEF KicksOn, BlockOfKey, Tries, new_item
    <3>. QED
      BY <1>6, <3>1, <3>2, <3>3
  <2>. QED
    BY <2>1, <2>2, <2>3 DEF CallInv
<1>7. pc[t] # "scan"
  BY <1>1 DEF CallInv
<1>. QED
  BY <1>1, <1>4, <1>5, <1>6, <1>7, ContinueForms

\* The calls of the other threads are not disturbed, as long as nobody else uses
\* their keys.
LEMMA CallInvOthers ==
  ASSUME ClientInv, OwnersApart, NEW t \in Threads, NEW u \in Threads \ {t},
         Learn(t) \/ \E k \in Own[t] : Ask(t, k)
  PROVE  CallInv(u)'
<1>1. Begin(t) \/ Continue(t)
  BY DEF Learn, Ask
<1>2. Shapes /\ CallInv(u) /\ pc'[u] = pc[u] /\ frame'[u] = frame[u] /\ key'[u] = key[u]
  BY <1>1, OthersUnchanged DEF ClientInv, StateOK, Learn, Ask
<1>3. Twins(key[u])' = Twins(key[u])
  BY <1>2 DEF Twins, token_of, get_fingerprint_and_index, token, Pair
<1>4. CallsOwnKey(u)' /\ InsertsByInsertion(u)' /\ BlockOfKey(u)' /\ pc'[u] # "scan"
  BY <1>2 DEF CallInv, CallsOwnKey, InsertsByInsertion, BlockOfKey, new_item, second, alt_index,
              get_fingerprint_and_index
<1>5. RemovesNoMember(u)'
  <2> SUFFICES ASSUME pc[u] \in {"remove_i1", "remove_i2"}
               PROVE  members' \cap Twins(key[u]) = {}
    BY <1>2, <1>3 DEF RemovesNoMember
  <2>1. key[u] \in Own[u] /\ members \cap Twins(key[u]) = {}
    BY <1>2 DEF CallInv, CallsOwnKey, RemovesNoMember, Looking
  <2>2. CASE Learn(t)
    BY <2>1, <2>2 DEF Learn
  <2>3. ASSUME NEW k \in Own[t], Ask(t, k)
        PROVE  members' \cap Twins(key[u]) = {}
    <3>1. members' \subseteq members \cup {k}
      BY <2>3 DEF Ask
    <3>2. k \notin Twins(key[u])
      BY <2>1, <2>3 DEF OwnersApart, Twins
    <3>. QED
      BY <2>1, <3>1, <3>2
  <2>. QED
    BY <2>2, <2>3
<1>. QED
  BY <1>4, <1>5 DEF CallInv

\* The insertion still carries the block of its key.
Carries(t) ==
  /\ frame[t].api \in Inserting
  /\ pc[t] \in Tries \/ (pc[t] = "kick" /\ new_item(t))

\* An insertion that carries the block of its key goes on with it, puts it into a
\* bucket of the key, finds the fingerprint there, or reports it (filter.rs, insert
\* and insert_if_not_present).
LEMMA InsertionGoesOn ==
  ASSUME Shapes, NEW t \in Threads, CallInv(t), Continue(t), Carries(t), frame[t].fp # 0
  PROVE  \/ Carries(t)'
         \/ token(frame[t].fp, frame[t].home) \in Tokens'
         \/ pc'[t] = "idle" /\ ret'[t] = Evicted(frame[t].fp)
<1> DEFINE fp   == frame[t].fp
           home == frame[t].home
<1>1. fp \in Fingerprint /\ home \in Buckets /\ second(t) \in Buckets
  BY LocalTypes
<1>2. ASSUME NEW i \in {home, second(t)}
      PROVE  i \in Buckets /\ token(fp, i) = token(fp, home)
  BY <1>1, <1>2, TokenOther DEF second
<1>3. frame[t].hand.fp = fp
  BY DEF Carries, CallInv, BlockOfKey
<1>4. ASSUME NEW i \in {home, second(t)}, Hit(t, i), LookFirst(t) \/ LookSecond(t)
      PROVE  token(fp, home) \in Tokens'
  <2>1. PICK s \in Slots : buckets[i][s].fp = fp
    BY <1>4 DEF Hit, contains, holding
  <2>2. token(fp, i) \in Tokens
    BY <1>2, <2>1, StoredToken
  <2>. QED
    BY <1>2, <1>4, <2>2, LookKeepsTokens
<1>5. ASSUME NEW i \in {home, second(t)}, Land(t, i)
      PROVE  token(fp, home) \in Tokens'
  <2> DEFINE new == insert(buckets[i], frame[t].hand)
  <2>1. PICK s \in Slots : new[s].fp = fp
    BY <1>2, <1>3, <1>5, InsertType, LocalTypes, BucketOf DEF Land
  <2>2. buckets' = [buckets EXCEPT ![i] = new]
    BY <1>5 DEF Land
  <2> HIDE DEF new
  <2>3. buckets'[i][s].fp = fp
    BY <1>2, <2>1, <2>2 DEF Shapes
  <2>. QED
    BY <1>2, <2>3, StoredTokenNext
<1>6. CASE LookFirst(t)
  BY <1>4, <1>6 DEF LookFirst, Goto, Shapes, Carries, Tries
<1>7. CASE LookSecond(t)
  <2>1. CASE Hit(t, second(t))
    BY <1>4, <1>7, <2>1
  <2>2. CASE ~Hit(t, second(t))
    <3>1. pc'[t] = "insert_i1" /\ frame'[t] = frame[t]
      BY <1>7, <2>2 DEF LookSecond, Goto, Shapes, Carries, Inserting
    <3>. QED
      BY <3>1 DEF Carries, Tries
  <2>. QED
    BY <2>1, <2>2
<1>8. CASE InsertFirst(t)
  BY <1>5, <1>8 DEF InsertFirst, Goto, Shapes, Carries, Tries
<1>9. CASE InsertSecond(t)
  <2>1. CASE Land(t, second(t))
    BY <1>5, <2>1
  <2>2. CASE Return(t, Evicted(frame[t].hand.fp))
    BY <1>3, <2>2 DEF Return, Goto, Shapes
  <2>3. CASE pc'[t] = "kick"
    <3>1. StartsToKick(t)
      BY <1>9, <2>3, ContinueForms DEF InsertSecond, GoesToNext, TakesOut, KicksOn
    <3>2. frame[t].kicks = 0
      BY <1>9 DEF Carries, CallInv, BlockOfKey, InsertSecond, Tries
    <3>. QED
      BY <3>1, <3>2 DEF StartsToKick, SameKey, Carries, new_item
  <2>. QED
    BY <1>9, <2>1, <2>2, <2>3 DEF InsertSecond, Goto, Shapes
<1>10. CASE Kick(t)
  <2>1. CASE Return(t, Evicted(frame[t].hand.fp))
    BY <1>3, <2>1 DEF Return, Goto, Shapes
  <2>2. CASE TakesOut(t)
    <3> DEFINE i == frame[t].index
    <3>1. PICK s \in victims(t) :
            buckets' = [buckets EXCEPT ![i] = swap(buckets[i], s, frame[t].hand)]
      BY <2>2 DEF TakesOut
    <3>2. i \in {home, second(t)} /\ i \in Buckets /\ s \in Slots
      BY <1>2, <1>10, VictimTypes DEF Kick, Carries, CallInv, BlockOfKey, Tries
    <3> DEFINE new == swap(buckets[i], s, frame[t].hand)
    <3>3. new[s] = frame[t].hand
      BY <3>2, SwapType, BucketOf, LocalTypes
    <3> HIDE DEF new
    <3>4. buckets'[i][s] = frame[t].hand
      BY <3>1, <3>2, <3>3 DEF Shapes, new
    <3>. QED
      BY <1>2, <1>3, <3>2, <3>4, StoredTokenNext
  <2>3. pc'[t] = "place" \/ Return(t, Evicted(frame[t].hand.fp))
    BY <1>10 DEF Kick, Goto, Shapes
  <2>4. pc'[t] = "place" => TakesOut(t)
    BY <1>10, ContinueForms DEF Kick, GoesToNext, StartsToKick, KicksOn
  <2>. QED
    BY <2>1, <2>2, <2>3, <2>4
<1>. QED
  BY <1>6, <1>7, <1>8, <1>9, <1>10
  DEF Continue, Carries, Tries, Place, CountAdd, RemoveFirst, RemoveSecond, Scan, CountSub

\* A thread that inserts key k carries its block.
LEMMA CarriesUnderway ==
  /\ \A t \in Threads : Carries(t) => Underway(key[t])
  /\ \A k : \A t \in Threads : key'[t] = k /\ Carries(t)' => Underway(k)'
  /\ \A k : Underway(k) => \E t \in Threads : key[t] = k /\ Carries(t)
BY DEF Carries, Underway, Tries, new_item

\* A member stays in the filter, or on its way into it, through a step of a call.
LEMMA StoredLearn ==
  ASSUME ClientInv, NEW t \in Threads, Learn(t), NEW k \in members'
  PROVE  Underway(k)' \/ token_of(k) \in Tokens'
<1> DEFINE h == get_fingerprint_and_index(k)
<1>1. /\ Shapes /\ Continue(t) /\ CallInv(t) /\ key' = key
      /\ k \in members /\ k \in Keys /\ k \notin Reported(t)
  BY DEF ClientInv, StateOK, Learn
<1>2. h.fp \in Fingerprint \ {0} /\ token_of(k) = token(h.fp, h.index)
  BY <1>1, KeyTypes DEF token_of
<1>3. ~(pc[t] # "idle" /\ pc'[t] = "idle" /\ ret'[t] = Evicted(h.fp))
  <2> SUFFICES ASSUME pc[t] # "idle", pc'[t] = "idle", ret'[t] = Evicted(h.fp)
               PROVE  FALSE
    OBVIOUS
  <2>1. ret'[t] \in [evicted : Fingerprint] /\ ret'[t].evicted = h.fp
    BY <1>2 DEF Evicted
  <2>. QED
    BY <1>1, <2>1 DEF Reported, Returns
<1>4. CASE token_of(k) \in Tokens
  <2> SUFFICES ASSUME Loses(t, token_of(k))
               PROVE  FALSE
    BY <1>1, <1>4, ThreadLoss
  <2>1. CASE /\ pc[t] \in {"remove_i1", "remove_i2"}
             /\ token_of(k) = token(frame[t].fp, frame[t].home)
    BY <1>1, <2>1 DEF CallInv, CallsOwnKey, RemovesNoMember, Looking, Twins, token_of
  <2>2. CASE pc[t] \in {"kick", "place"} /\ pc'[t] = "idle" /\ ret'[t] = Evicted(token_of(k)[1])
    BY <1>2, <1>3, <2>2 DEF token
  <2>. QED
    BY <1>1, <2>1, <2>2 DEF Loses, CallInv
<1>5. CASE Underway(k)
  <2>1. PICK u \in Threads : key[u] = k /\ Carries(u)
    BY <1>5, CarriesUnderway
  <2>2. CASE u # t
    <3>1. pc'[u] = pc[u] /\ frame'[u] = frame[u]
      BY <1>1, <2>2, OthersUnchanged
    <3>. QED
      BY <1>1, <2>1, <3>1 DEF Underway, Carries, Tries, new_item
  <2>3. CASE u = t
    <3>1. frame[t].fp = h.fp /\ frame[t].home = h.index
      BY <1>1, <2>1, <2>3 DEF CallInv, CallsOwnKey, Carries, Tries
    <3>2. pc[t] # "idle"
      BY <2>1, <2>3 DEF Carries, Tries
    <3>3. Carries(t)' \/ token_of(k) \in Tokens'
      BY <1>1, <1>2, <1>3, <2>1, <2>3, <3>1, <3>2, InsertionGoesOn
    <3>. QED
      BY <1>1, <2>1, <2>3, <3>3, CarriesUnderway
  <2>. QED
    BY <2>2, <2>3
<1>. QED
  BY <1>1, <1>4, <1>5 DEF ClientInv, StoredUnlessReported

\* And through the beginning of one; the key of an insertion becomes a member
\* and is on its way.
LEMMA StoredAsk ==
  ASSUME ClientInv, NEW t \in Threads, NEW j \in Own[t], Ask(t, j), NEW k \in members'
  PROVE  Underway(k)' \/ token_of(k) \in Tokens'
<1>1. Shapes /\ j \in Keys /\ Begin(t) /\ pc[t] = "idle" /\ key' = [key EXCEPT ![t] = j]
  BY OwnKeys, AskForms DEF ClientInv, StateOK, Ask
<1>2. CASE k \in members /\ token_of(k) \in Tokens
  BY <1>1, <1>2, BeginKeepsTokens
<1>3. CASE k \in members /\ Underway(k)
  <2>1. PICK u \in Threads : key[u] = k /\ Carries(u)
    BY <1>3, CarriesUnderway
  <2>2. u # t
    BY <1>1, <2>1 DEF Carries, Tries
  <2>3. pc'[u] = pc[u] /\ frame'[u] = frame[u] /\ key'[u] = key[u]
    BY <1>1, <2>2, OthersUnchanged DEF ClientInv
  <2>. QED
    BY <2>1, <2>3 DEF Underway, Carries, Tries, new_item
<1>4. CASE k \notin members
  <2>1. k = j /\ frame'[t].api \in Inserting
    BY <1>4 DEF Ask
  <2>2. pc'[t] \in {"look_i1", "insert_i1"}
    BY <1>1, <2>1, AskForms DEF Inserting
  <2>3. key'[t] = j
    BY <1>1 DEF ClientInv
  <2>. QED
    BY <2>1, <2>2, <2>3 DEF Underway
<1>. QED
  BY <1>2, <1>3, <1>4 DEF ClientInv, StoredUnlessReported

\* ClientInv is inductive.
LEMMA ClientInvStep ==
  ASSUME OwnersApart
  PROVE  ClientInv /\ [ClientNext]_clientVars => ClientInv'
<1> SUFFICES ASSUME ClientInv, [ClientNext]_clientVars PROVE ClientInv'
  OBVIOUS
<1>1. CASE UNCHANGED clientVars
  <2>1. UNCHANGED <<buckets, pc, frame, key, members>> /\ UNCHANGED vars
    BY <1>1 DEF clientVars, historyVars, vars
  <2>2. StateOK'
    BY <2>1, StateOKStep DEF ClientInv
  <2>3. ASSUME NEW t \in Threads PROVE CallInv(t)'
    <3>1. CallInv(t)
      BY DEF ClientInv
    <3>2. Twins(key[t])' = Twins(key[t])
      BY <2>1 DEF Twins, token_of, get_fingerprint_and_index, token, Pair
    <3>3. CallsOwnKey(t)' /\ InsertsByInsertion(t)' /\ BlockOfKey(t)'
      BY <2>1, <3>1 DEF CallInv, CallsOwnKey, InsertsByInsertion, BlockOfKey, new_item, second,
                        alt_index, get_fingerprint_and_index
    <3>. QED
      BY <2>1, <3>1, <3>2, <3>3 DEF CallInv, RemovesNoMember
  <2>4. StoredUnlessReported'
    <3>1. Tokens' = Tokens
      BY <2>1 DEF Tokens, StoredTokens, DisplacedTokens, Displaced, new_item, token, Pair
    <3>2. \A k : token_of(k)' = token_of(k) /\ (Underway(k) => Underway(k)')
      BY <2>1 DEF token_of, token, Pair, get_fingerprint_and_index, Underway, new_item
    <3>. QED
      BY <2>1, <3>1, <3>2 DEF ClientInv, StoredUnlessReported
  <2>. QED
    BY <2>1, <2>2, <2>3, <2>4 DEF ClientInv
<1>2. ASSUME NEW t \in Threads, Learn(t) \/ \E k \in Own[t] : Ask(t, k)
      PROVE  ClientInv'
  <2>1. Begin(t) \/ Continue(t)
    BY <1>2 DEF Learn, Ask
  <2>2. StateOK'
    BY <2>1, StateOKStep DEF ClientInv, Next
  <2>3. members' \subseteq Keys /\ key' \in [Threads -> Keys \cup {None}]
    BY <1>2, OwnKeys DEF ClientInv, Learn, Ask
  <2>4. ASSUME NEW u \in Threads PROVE CallInv(u)'
    BY <1>2, CallInvAsk, CallInvLearn, CallInvOthers
  <2>5. ASSUME NEW k \in members' PROVE Underway(k)' \/ token_of(k)' \in Tokens'
    <3>1. token_of(k)' = token_of(k)
      BY DEF token_of, token, Pair, get_fingerprint_and_index
    <3>. QED
      BY <1>2, <3>1, StoredAsk, StoredLearn
  <2>6. StoredUnlessReported'
    BY <2>5 DEF StoredUnlessReported
  <2>. QED
    BY <2>2, <2>3, <2>4, <2>6 DEF ClientInv
<1>. QED
  BY <1>1, <1>2 DEF ClientNext

\* A key that a program has inserted stays in the filter until it is removed or an
\* eviction of its fingerprint is reported, for any number of programs as long as
\* no two of them use keys that the filter cannot tell apart (filter.rs, insert,
\* insert_if_not_present and remove).
THEOREM InsertedStaysUnlessReported ==
  ASSUME OwnersApart
  PROVE  ClientSpec => []StoredUnlessReported
<1>1. ClientInit => ClientInv
  BY InitShapes DEF ClientInit, HInit, Init, ClientInv, StateOK, LookupLocals, CallInv, CallsOwnKey,
                    InsertsByInsertion, BlockOfKey, RemovesNoMember, Tries, Looking,
                    StoredUnlessReported, NoFrame, Inserting
<1>2. ClientInv => StoredUnlessReported
  BY DEF ClientInv
<1>. QED
  BY <1>1, <1>2, ClientInvStep, PTL DEF ClientSpec

-----------------------------------------------------------------------------
(* One thread.  What concurrent calls can break holds as long as the calls  *)
(* come one after the other, and the check of insert_if_not_present keeps   *)
(* every fingerprint in one slot of its pair.                               *)

OneThread == \A t, u \in Threads : t = u

Absent(fp, i) == \A j \in Pair(fp, i), s \in Slots : buckets[j][s].fp # fp

\* NoDuplicates, slot by slot.
StoredOnce ==
  \A i, j \in Buckets, r, s \in Slots :
    /\ buckets[i][r].fp # 0 /\ buckets[j][s].fp = buckets[i][r].fp
    /\ j \in Pair(buckets[i][r].fp, i)
    => i = j /\ r = s

\* The second bucket of a key is locked when the first does not hold it.
FirstMissed(t) ==
  pc[t] \in {"look_i2", "remove_i2"} => ~contains(buckets[frame[t].home], frame[t].fp)

\* The block in hand is of a fingerprint that is in no slot of its pair.
InsertsOnce(t) ==
  /\ pc[t] \in {"look_i1", "look_i2"} /\ frame[t].api = "insert_if_not_present" =>
       frame[t].hand.fp = frame[t].fp
  /\ pc[t] \in {"insert_i1", "insert_i2"} =>
       frame[t].hand.fp = frame[t].fp /\ Absent(frame[t].fp, frame[t].home)
  /\ pc[t] \in {"kick", "place"} /\ frame[t].hand.fp # 0 =>
       Absent(frame[t].hand.fp, frame[t].index)

OnceInv == StateOK /\ StoredOnce /\ \A t \in Threads : FirstMissed(t) /\ InsertsOnce(t)

\* A fingerprint that is in no slot of its pair is not in the filter while no
\* thread moves a block.
LEMMA AbsentToken ==
  ASSUME NEW fp, NEW i \in Buckets, Absent(fp, i), \A t \in Threads : ~Displaced(t)
  PROVE  token(fp, i) \notin Tokens
<1> SUFFICES ASSUME NEW j \in Buckets, NEW s \in Slots, token(fp, i) = token(buckets[j][s].fp, j)
             PROVE  FALSE
  BY TokenSource
<1>1. buckets[j][s].fp = fp /\ j \in Pair(fp, i)
  BY DEF token, Pair
<1>. QED
  BY <1>1 DEF Absent

\* Nor is it after a step that leaves it so.
LEMMA AbsentTokenNext ==
  ASSUME NEW fp, NEW i \in Buckets, \A t \in Threads : ~Displaced(t)',
         \A j \in Pair(fp, i), s \in Slots : buckets'[j][s].fp # fp
  PROVE  token(fp, i) \notin Tokens'
<1>1. ASSUME NEW j \in Buckets, NEW s \in Slots, token(fp, i) = token(buckets'[j][s].fp, j)
      PROVE  FALSE
  BY <1>1 DEF token, Pair
<1>2. DisplacedTokens' = {}
  BY DEF DisplacedTokens
<1>3. token(fp, i) \notin StoredTokens'
  BY <1>1 DEF StoredTokens, token, Pair
<1>. QED
  BY <1>2, <1>3 DEF Tokens

\* The lookup of the only thread goes on to the second bucket with the first still
\* as it was seen.
LEMMA FirstMissedStep ==
  ASSUME StateOK, OneThread, [Next]_vars, \A t \in Threads : FirstMissed(t)
  PROVE  \A t \in Threads : FirstMissed(t)'
<1>1. CASE Next
  BY <1>1, GoesOnAfterMiss DEF Next, OneThread, FirstMissed, StateOK
<1>2. CASE UNCHANGED vars
  BY <1>2 DEF vars, FirstMissed
<1>. QED
  BY <1>1, <1>2

\* In a filter that one thread uses, a lookup, a removal or the check of
\* insert_if_not_present misses only a key that is not in the filter (filter.rs:490).
THEOREM MissedKeyWasAbsent ==
  ASSUME OneThread
  PROVE  HSpec => MissMeansAbsent
<1> DEFINE Steady(t) == steady[t] => pc[t] \in Looking
                                     /\ token(frame[t].fp, frame[t].home) \in Tokens
           SteadyInv == StateOK /\ \A t \in Threads : FirstMissed(t) /\ Steady(t)
<1>1. HInit => SteadyInv
  BY InitShapes DEF HInit, Init, StateOK, LookupLocals, FirstMissed
<1>2. SteadyInv /\ [HNext]_historyVars => SteadyInv'
  <2> SUFFICES ASSUME SteadyInv, [HNext]_historyVars PROVE SteadyInv'
    OBVIOUS
  <2>1. [Next]_vars
    BY DEF HNext, historyVars
  <2>2. StateOK' /\ \A t \in Threads : FirstMissed(t)'
    BY <2>1, StateOKStep, FirstMissedStep
  <2>3. ASSUME NEW t \in Threads PROVE Steady(t)'
    <3>1. CASE HNext
      <4>1. steady'[t] => pc'[t] \in Looking /\ (token(frame[t].fp, frame[t].home) \in Tokens)'
        BY <3>1 DEF HNext, Remember
      <4>. QED
        BY <4>1
    <3>2. CASE UNCHANGED historyVars
      <4>1. Tokens' = Tokens /\ UNCHANGED <<pc, frame, steady>>
        BY <3>2 DEF historyVars, vars, Tokens, StoredTokens, DisplacedTokens, Displaced, new_item,
                    token, Pair
      <4>. QED
        BY <4>1 DEF token, Pair
    <3>. QED
      BY <3>1, <3>2
  <2>. QED
    BY <2>2, <2>3
<1>3. SteadyInv => \A t \in Threads : Misses(t) => ~steady[t]
  <2> SUFFICES ASSUME SteadyInv, NEW t \in Threads, Misses(t) PROVE ~steady[t]
    OBVIOUS
  <2>1. \A u \in Threads : ~Displaced(u)
    BY DEF OneThread, Displaced, Misses
  <2>2. Absent(frame[t].fp, frame[t].home)
    BY DEF Misses, FirstMissed, Absent, Pair, second, contains, holding
  <2>3. token(frame[t].fp, frame[t].home) \notin Tokens
    BY <2>1, <2>2, AbsentToken, LocalTypes DEF StateOK
  <2>. QED
    BY <2>3
<1>4. HSpec => []SteadyInv
  <2> HIDE DEF SteadyInv
  <2>. QED
    BY <1>1, <1>2, PTL DEF HSpec
<1>. QED
  BY <1>3, <1>4, PTL DEF MissMeansAbsent, HSpec

\* The two buckets of a pair have the same pair.
LEMMA PairMate ==
  ASSUME NEW fp \in Fingerprint, NEW i \in Buckets
  PROVE  /\ \A j \in Pair(fp, i) : j \in Buckets /\ Pair(fp, j) = Pair(fp, i)
         /\ \A j \in Buckets : i \in Pair(fp, j) => j \in Pair(fp, i)
<1>1. \A j \in Buckets : alt_index(fp, alt_index(fp, j)) = j /\ alt_index(fp, j) \in Buckets
  BY AltIndexInvolution, IndexTypes
<1>. QED
  BY <1>1 DEF Pair

\* Emptying slots makes no duplicate.
LEMMA ClearedStaysOnce ==
  ASSUME StoredOnce,
         \A i \in Buckets, s \in Slots : buckets'[i][s].fp \in {buckets[i][s].fp, 0}
  PROVE  StoredOnce'
<1> SUFFICES ASSUME NEW i \in Buckets, NEW j \in Buckets, NEW r \in Slots, NEW s \in Slots,
                    buckets'[i][r].fp # 0, buckets'[j][s].fp = buckets'[i][r].fp,
                    j \in Pair(buckets'[i][r].fp, i)
             PROVE  i = j /\ r = s
  BY DEF StoredOnce, Pair
<1>1. buckets'[i][r].fp = buckets[i][r].fp /\ buckets'[j][s].fp = buckets[j][s].fp
  OBVIOUS
<1>. QED
  BY <1>1 DEF StoredOnce

\* Nor does filling a slot with a fingerprint that its pair does not have.
LEMMA FilledStaysOnce ==
  ASSUME Shapes, StoredOnce, NEW i \in Buckets, NEW s \in Slots, NEW fp \in Fingerprint,
         fp # 0 => Absent(fp, i), buckets'[i][s].fp = fp,
         \A j \in Buckets, r \in Slots : <<j, r>> # <<i, s>> => buckets'[j][r].fp = buckets[j][r].fp
  PROVE  StoredOnce'
<1> SUFFICES ASSUME NEW j \in Buckets, NEW k \in Buckets, NEW r \in Slots, NEW q \in Slots,
                    buckets'[j][r].fp # 0, buckets'[k][q].fp = buckets'[j][r].fp,
                    k \in Pair(buckets'[j][r].fp, j)
             PROVE  j = k /\ r = q
  BY DEF StoredOnce, Pair
<1>1. CASE <<j, r>> = <<i, s>>
  <2>1. <<k, q>> # <<i, s>> => buckets[k][q].fp # fp
    BY <1>1 DEF Absent
  <2>. QED
    BY <1>1, <2>1
<1>2. CASE <<j, r>> # <<i, s>> /\ <<k, q>> = <<i, s>>
  <2>1. buckets[j][r].fp = fp /\ fp # 0 /\ j \in Pair(fp, i)
    BY <1>2, PairMate
  <2>. QED
    BY <2>1 DEF Absent
<1>3. CASE <<j, r>> # <<i, s>> /\ <<k, q>> # <<i, s>>
  BY <1>3 DEF StoredOnce
<1>. QED
  BY <1>1, <1>2, <1>3

\* What a step of the only thread has to keep.
LEMMA OnceOfOne ==
  ASSUME OneThread, NEW t \in Threads, StoredOnce', InsertsOnce(t)'
  PROVE  StoredOnce' /\ \A u \in Threads : InsertsOnce(u)'
BY DEF OneThread

\* A call begins with no duplicate.
LEMMA OnceBegin ==
  ASSUME OnceInv, NEW t \in Threads, "insert" \notin Apis, Begin(t)
  PROVE  StoredOnce' /\ InsertsOnce(t)'
<1>1. Shapes /\ buckets' = buckets /\ StoredOnce
  BY BeginForms DEF OnceInv, StateOK
<1>2. StoredOnce'
  BY <1>1, ClearedStaysOnce
<1>3. ~BeginsInsertion(t) \/ frame'[t].hand.fp = frame'[t].fp
  <2> SUFFICES ASSUME BeginsInsertion(t) PROVE frame'[t].hand.fp = frame'[t].fp
    OBVIOUS
  <2>1. PICK j \in Keys, values \in InsertArgs :
          /\ CalledWith(frame'[t], frame'[t].api, j)
          /\ frame'[t].hand = new_data_block(get_fingerprint_and_index(j).fp, values)
    BY Zenon DEF BeginsInsertion
  <2>. QED
    BY <2>1, KeyTypes, NewDataBlockType, ArgumentsAreValues DEF CalledWith
<1>4. pc'[t] # "insert_i1"
  BY <1>1 DEF Begin, CallInsert, CallInsertIfNotPresent, CallContains, CallGetAssociatedData,
              CallRemove, CallScan, ScanPartition, GetItemCount, Call, Return, Goto, Shapes
<1>5. \/ pc'[t] = "look_i1" /\ (frame'[t].api = "insert_if_not_present" => BeginsInsertion(t))
      \/ pc'[t] \in {"remove_i1", "scan", "idle"}
  BY <1>1, <1>4, BeginForms DEF BeginsInsertion, BeginsKeyed, BeginsUnkeyed
<1>. QED
  BY <1>2, <1>3, <1>5 DEF InsertsOnce

\* A lookup changes no fingerprint, and an insertion that has looked into both
\* buckets knows that they do not have its key (filter.rs, insert_if_not_present).
LEMMA OnceLook ==
  ASSUME OnceInv, NEW t \in Threads, LookFirst(t) \/ LookSecond(t)
  PROVE  StoredOnce' /\ InsertsOnce(t)'
<1>1. Shapes /\ StoredOnce /\ InsertsOnce(t) /\ FirstMissed(t)
  BY DEF OnceInv, StateOK
<1>2. \A j \in Buckets, s \in Slots : buckets'[j][s].fp = buckets[j][s].fp
  BY <1>1, HitKeepsFingerprints, LocalTypes DEF LookFirst, LookSecond
<1>3. StoredOnce'
  BY <1>1, <1>2, ClearedStaysOnce
<1>4. CASE pc'[t] = "idle"
  BY <1>3, <1>4 DEF InsertsOnce
<1>5. CASE GoesToNext(t)
  <2>1. CASE pc[t] = "look_i1"
    BY <1>1, <1>3, <1>5, <2>1 DEF GoesToNext, InsertsOnce
  <2>2. CASE pc[t] = "look_i2"
    <3>1. ~contains(buckets[second(t)], frame[t].fp)
      BY <1>1, <1>5, <2>2 DEF GoesToNext, LookFirst, LookSecond, Hit, Return, Goto, Shapes
    <3>2. Absent(frame[t].fp, frame[t].home)
      BY <1>1, <2>2, <3>1 DEF FirstMissed, Absent, Pair, second, contains, holding
    <3>3. Absent(frame[t].fp, frame[t].home)'
      BY <1>5, <3>2 DEF GoesToNext, Absent, Pair
    <3>. QED
      BY <1>1, <1>3, <1>5, <2>2, <3>3 DEF GoesToNext, InsertsOnce
  <2>. QED
    BY <2>1, <2>2 DEF LookFirst, LookSecond
<1>6. pc'[t] = "idle" \/ GoesToNext(t)
  BY <1>1, ContinueForms DEF Continue, LookFirst, LookSecond, Hit, Return, Goto, Shapes,
       StartsToKick, TakesOut, KicksOn
<1>. QED
  BY <1>4, <1>5, <1>6

\* The block of an insertion lands in an empty slot, as no slot of the pair has its
\* fingerprint (bucket.rs, insert).
LEMMA OnceLand ==
  ASSUME OnceInv, NEW t \in Threads, NEW i \in Buckets, Land(t, i),
         frame[t].hand.fp # 0 => Absent(frame[t].hand.fp, i)
  PROVE  StoredOnce' /\ InsertsOnce(t)'
<1> DEFINE new == insert(buckets[i], frame[t].hand)
<1>1. Shapes /\ StoredOnce /\ frame[t].hand \in DataBlocks /\ frame[t].hand.fp \in Fingerprint
  BY LocalTypes DEF OnceInv, StateOK
<1>2. PICK s \in Slots : /\ new[s].fp = frame[t].hand.fp
                         /\ \A r \in Slots \ {s} : new[r] = buckets[i][r]
  BY <1>1, InsertType, BucketOf DEF Land
<1>3. buckets' = [buckets EXCEPT ![i] = new]
  BY DEF Land
<1> HIDE DEF new
<1>4. /\ buckets'[i][s].fp = frame[t].hand.fp
      /\ \A j \in Buckets, r \in Slots :
           <<j, r>> # <<i, s>> => buckets'[j][r].fp = buckets[j][r].fp
  BY <1>1, <1>2, <1>3 DEF Shapes
<1>5. pc'[t] = "count_add"
  BY <1>1 DEF Land, Goto, Shapes
<1>. QED
  BY <1>1, <1>4, <1>5, FilledStaysOnce DEF InsertsOnce

\* The tries of an insertion make no duplicate.
LEMMA OnceInsert ==
  ASSUME OnceInv, NEW t \in Threads, InsertFirst(t) \/ InsertSecond(t)
  PROVE  StoredOnce' /\ InsertsOnce(t)'
<1> DEFINE fp   == frame[t].fp
           home == frame[t].home
<1>1. /\ Shapes /\ StoredOnce /\ InsertsOnce(t) /\ home \in Buckets /\ fp \in Fingerprint
      /\ second(t) \in Buckets
  BY LocalTypes DEF OnceInv, StateOK
<1>2. frame[t].hand.fp = fp /\ Absent(fp, home)
  BY <1>1 DEF InsertsOnce, InsertFirst, InsertSecond
<1>3. ASSUME NEW i \in {home, second(t)} PROVE i \in Buckets /\ Absent(fp, i)
  BY <1>1, <1>2, PairMate DEF Absent, Pair, second
<1>4. ASSUME NEW i \in {home, second(t)}, Land(t, i)
      PROVE  StoredOnce' /\ InsertsOnce(t)'
  BY <1>2, <1>3, <1>4, OnceLand
<1>5. CASE UNCHANGED buckets
  <2>1. StoredOnce'
    BY <1>1, <1>5, ClearedStaysOnce
  <2>2. CASE pc'[t] = "idle"
    BY <2>1, <2>2 DEF InsertsOnce
  <2>3. CASE GoesToNext(t)
    BY <1>2, <1>5, <2>1, <2>3
    DEF GoesToNext, InsertFirst, InsertSecond, InsertsOnce, Absent, Pair
  <2>4. CASE StartsToKick(t)
    <3>1. PICK i \in {home, second(t)} : frame'[t].index = i
      BY <2>4 DEF StartsToKick
    <3>2. frame'[t].hand.fp = fp /\ pc'[t] = "kick"
      BY <1>2, <2>4 DEF StartsToKick
    <3>3. \A j \in Pair(fp, i), s \in Slots : buckets'[j][s].fp # fp
      BY <1>3, <1>5 DEF Absent
    <3>4. Absent(frame[t].hand.fp, frame[t].index)'
      BY <3>1, <3>2, <3>3 DEF Absent, Pair
    <3>. QED
      BY <2>1, <3>2, <3>4 DEF InsertsOnce
  <2>5. pc'[t] = "idle" \/ Land(t, home) \/ Land(t, second(t)) \/ GoesToNext(t) \/ StartsToKick(t)
    BY <1>1, ContinueForms
    DEF Continue, InsertFirst, InsertSecond, Full, Return, Goto, Shapes, TakesOut, KicksOn
  <2>. QED
    BY <1>4, <2>2, <2>3, <2>4, <2>5
<1>6. UNCHANGED buckets \/ Land(t, home) \/ Land(t, second(t))
  BY DEF InsertFirst, InsertSecond, Full
<1>. QED
  BY <1>4, <1>5, <1>6

\* A kick puts the block in hand into the slot of its victim, and no other slot of
\* the pair has the fingerprint that it takes out (filter.rs, insert).
LEMMA OnceKick ==
  ASSUME OnceInv, NEW t \in Threads, Kick(t) \/ Place(t)
  PROVE  StoredOnce' /\ InsertsOnce(t)'
<1> DEFINE i    == frame[t].index
           hand == frame[t].hand
<1>1. /\ Shapes /\ StoredOnce /\ i \in Buckets /\ hand \in DataBlocks /\ hand.fp \in Fingerprint
      /\ Continue(t) /\ (hand.fp # 0 => Absent(hand.fp, i))
  BY LocalTypes DEF OnceInv, StateOK, Continue, InsertsOnce, Kick, Place
<1>2. CASE UNCHANGED buckets /\ ~TakesOut(t)
  <2>1. StoredOnce'
    BY <1>1, <1>2, ClearedStaysOnce
  <2>2. CASE pc'[t] = "idle"
    BY <2>1, <2>2 DEF InsertsOnce
  <2>3. CASE KicksOn(t)
    <3>1. frame'[t].hand = hand /\ frame'[t].index = i /\ pc'[t] = "kick"
      BY <2>3 DEF KicksOn
    <3>2. hand.fp # 0 => \A j \in Pair(hand.fp, i), s \in Slots : buckets'[j][s].fp # hand.fp
      BY <1>1, <1>2 DEF Absent
    <3>3. (frame[t].hand.fp # 0 => Absent(frame[t].hand.fp, frame[t].index))'
      BY <3>1, <3>2 DEF Absent, Pair
    <3>. QED
      BY <2>1, <3>1, <3>3 DEF InsertsOnce
  <2>4. pc'[t] \in {"idle", "count_add", "count_sub"} \/ KicksOn(t)
    BY <1>1, <1>2, ContinueForms DEF Kick, Place, GoesToNext, StartsToKick
  <2>5. CASE pc'[t] \in {"count_add", "count_sub"}
    BY <2>1, <2>5 DEF InsertsOnce
  <2>. QED
    BY <2>2, <2>3, <2>4, <2>5
<1>3. CASE Land(t, i)
  BY <1>1, <1>3, OnceLand
<1>4. CASE TakesOut(t)
  <2>1. PICK s \in victims(t) :
          /\ frame'[t].hand = buckets[i][s] /\ frame'[t].index = alt_index(buckets[i][s].fp, i)
          /\ buckets' = [buckets EXCEPT ![i] = swap(buckets[i], s, hand)]
    BY <1>4 DEF TakesOut
  <2> DEFINE out == buckets[i][s]
             new == swap(buckets[i], s, hand)
  <2>2. s \in Slots /\ buckets[i] \in BucketStates /\ out.fp \in Fingerprint
    BY <1>1, VictimTypes, BucketOf, BlockOf
  <2>3. \A r \in Slots : new[r] = IF r = s THEN hand ELSE buckets[i][r]
    BY <1>1, <2>2, SwapType
  <2> HIDE DEF new
  <2>4. /\ buckets'[i][s] = hand
        /\ \A j \in Buckets, r \in Slots : <<j, r>> # <<i, s>> => buckets'[j][r] = buckets[j][r]
    BY <1>1, <2>1, <2>2, <2>3 DEF Shapes, new
  <2>5. StoredOnce'
    BY <1>1, <2>2, <2>4, FilledStaysOnce
  <2>6. ASSUME out.fp # 0, NEW j \in Pair(out.fp, alt_index(out.fp, i)), NEW r \in Slots
        PROVE  buckets'[j][r].fp # out.fp
    <3>1. j \in Buckets /\ j \in Pair(out.fp, i)
      BY <1>1, <2>2, <2>6, PairMate, AltIndexInvolution
    <3>2. CASE <<j, r>> = <<i, s>>
      BY <1>1, <2>2, <2>4, <2>6, <3>2 DEF Absent, Pair
    <3>3. CASE <<j, r>> # <<i, s>>
      BY <1>1, <2>2, <2>4, <2>6, <3>1, <3>3 DEF StoredOnce
    <3>. QED
      BY <3>2, <3>3
  <2>7. (frame[t].hand.fp # 0 => Absent(frame[t].hand.fp, frame[t].index))'
    BY <2>1, <2>6 DEF Absent, Pair
  <2>8. pc'[t] = "place"
    BY <1>4 DEF TakesOut
  <2>9. InsertsOnce(t)'
    BY <2>7, <2>8 DEF InsertsOnce
  <2>. QED
    BY <2>5, <2>9
<1>5. UNCHANGED buckets \/ Land(t, i) \/ TakesOut(t)
  BY <1>1, ContinueForms DEF Kick, Place, Full, GoesToNext, StartsToKick, KicksOn, Goto, Shapes
<1>. QED
  BY <1>2, <1>3, <1>4, <1>5

\* A removal and a scan only empty slots (filter.rs, remove and
\* scan_and_update_full).
LEMMA OnceEmptied ==
  ASSUME OnceInv, NEW t \in Threads, RemoveFirst(t) \/ RemoveSecond(t) \/ Scan(t)
  PROVE  StoredOnce' /\ InsertsOnce(t)'
<1>1. Shapes /\ StoredOnce
  BY DEF OnceInv, StateOK
<1>2. pc'[t] \in {"remove_i2", "scan", "count_sub", "idle"}
  BY <1>1 DEF RemoveFirst, RemoveSecond, Clear, Scan, Goto, Return, Shapes
<1>3. \A i \in Buckets, s \in Slots : buckets'[i][s].fp \in {buckets[i][s].fp, 0}
  <2>1. ASSUME NEW i \in Buckets, Clear(t, i)
        PROVE  \A j \in Buckets, s \in Slots : buckets'[j][s].fp \in {buckets[j][s].fp, 0}
    BY <1>1, <2>1, ClearEmptiesOne
  <2>. QED
    BY <1>1, <2>1, ScanEmpties, LocalTypes DEF RemoveFirst, RemoveSecond
<1>. QED
  BY <1>1, <1>2, <1>3, ClearedStaysOnce DEF InsertsOnce

\* OnceInv is inductive for one thread that inserts by insert_if_not_present only.
LEMMA OnceInvStep ==
  ASSUME OneThread, "insert" \notin Apis
  PROVE  OnceInv /\ [Next]_vars => OnceInv'
<1> SUFFICES ASSUME OnceInv, [Next]_vars PROVE OnceInv'
  OBVIOUS
<1>1. StateOK' /\ \A t \in Threads : FirstMissed(t)'
  BY StateOKStep, FirstMissedStep DEF OnceInv
<1>2. ASSUME NEW t \in Threads, Begin(t) \/ Continue(t)
      PROVE  StoredOnce' /\ \A u \in Threads : InsertsOnce(u)'
  <2>1. CASE CountAdd(t) \/ CountSub(t)
    <3>1. UNCHANGED buckets /\ pc'[t] = "idle" /\ StoredOnce
      BY <2>1 DEF CountAdd, CountSub, Return, Goto, OnceInv, StateOK, Shapes
    <3>2. StoredOnce'
      BY <3>1, ClearedStaysOnce
    <3>. QED
      BY <3>1, <3>2, OnceOfOne DEF InsertsOnce
  <2>. QED
    BY <1>2, <2>1, OnceBegin, OnceLook, OnceInsert, OnceKick, OnceEmptied, OnceOfOne DEF Continue
<1>3. CASE UNCHANGED vars
  <2>1. UNCHANGED <<buckets, pc, frame>> /\ StoredOnce
    BY <1>3 DEF vars, OnceInv
  <2>2. StoredOnce'
    BY <2>1, ClearedStaysOnce
  <2>3. \A t \in Threads : InsertsOnce(t)'
    BY <2>1 DEF OnceInv, InsertsOnce, Absent, Pair
  <2>. QED
    BY <1>1, <2>2, <2>3 DEF OnceInv
<1>. QED
  BY <1>1, <1>2, <1>3 DEF Next, OnceInv

\* One thread that inserts with insert_if_not_present stores no fingerprint twice in
\* its pair of buckets, whatever it removes, kicks and ages in between
\* (filter.rs:275).
THEOREM OneThreadStoresOnce ==
  ASSUME OneThread, "insert" \notin Apis
  PROVE  Spec => []NoDuplicates
<1>1. Init => OnceInv
  BY InitShapes, EmptyBucketType
  DEF Init, StateOK, LookupLocals, OnceInv, StoredOnce, FirstMissed, InsertsOnce
<1>2. OnceInv => NoDuplicates
  <2> SUFFICES ASSUME OnceInv, NEW p \in Occupied, NEW q \in Occupied, p # q,
                      buckets[p[1]][p[2]].fp = buckets[q[1]][q[2]].fp
               PROVE  q[1] \notin Pair(buckets[p[1]][p[2]].fp, p[1])
    BY DEF NoDuplicates
  <2>1. /\ p = <<p[1], p[2]>> /\ p[1] \in Buckets /\ p[2] \in Slots /\ buckets[p[1]][p[2]].fp # 0
        /\ q = <<q[1], q[2]>> /\ q[1] \in Buckets /\ q[2] \in Slots
    BY DEF Occupied, occupied, is_empty
  <2>. QED
    BY <2>1 DEF OnceInv, StoredOnce
<1>. QED
  BY <1>1, <1>2, OnceInvStep, PTL DEF Spec

-----------------------------------------------------------------------------
(* The counter of a filter that one thread uses.  It inserts no fingerprint *)
(* twice, and kicks only when both buckets are full, so that neither of the *)
(* two ways in which the counter drifts is open.                            *)

AllUsed(i) == \A s \in Slots : buckets[i][s].fp # 0

\* An insertion goes on when it has found its bucket full, and has a block in hand.
KicksWhenFull(t) ==
  /\ pc[t] = "insert_i2" => AllUsed(frame[t].home)
  /\ pc[t] \in {"kick", "place"} => frame[t].hand.fp # 0
  /\ pc[t] = "kick" => AllUsed(frame[t].index)

ExactInv == OnceInv /\ AllCountInv /\ Drift = 0 /\ \A t \in Threads : KicksWhenFull(t)

\* A bucket that takes no block has no empty slot (bucket.rs, insert).
LEMMA FullIsUsed ==
  ASSUME NEW t \in Threads, NEW i \in Buckets, Full(t, i)
  PROVE  AllUsed(i)
BY DEF Full, inserts, landing, is_empty, AllUsed

\* The only thread finds the buckets as it left them.
LEMMA KicksWhenFullStep ==
  ASSUME Shapes, NEW t \in Threads, CountInv(t), KicksWhenFull(t), Begin(t) \/ Continue(t)
  PROVE  KicksWhenFull(t)'
<1>1. CASE Begin(t)
  <2>1. pc'[t] \in {"insert_i1", "look_i1", "remove_i1", "scan", "idle"}
    BY <1>1, BeginForms DEF BeginsInsertion, BeginsKeyed, BeginsUnkeyed
  <2>. QED
    BY <2>1 DEF KicksWhenFull
<1>2. CASE Continue(t) /\ pc'[t] \in {"idle", "count_add", "count_sub", "scan"}
  BY <1>2 DEF KicksWhenFull
<1>3. CASE Continue(t) /\ GoesToNext(t)
  <2>1. CASE pc'[t] = "insert_i2"
    <3>1. Full(t, frame[t].home) /\ frame[t].home \in Buckets
      BY <1>3, <2>1, LocalTypes
      DEF GoesToNext, Continue, LookFirst, LookSecond, InsertFirst, InsertSecond, Kick, Place,
          CountAdd, RemoveFirst, RemoveSecond, Scan, CountSub, Land, Goto, Shapes
    <3>2. AllUsed(frame[t].home)
      BY <3>1, FullIsUsed
    <3>. QED
      BY <1>3, <2>1, <3>2 DEF GoesToNext, KicksWhenFull, AllUsed
  <2>. QED
    BY <1>3, <2>1 DEF GoesToNext, KicksWhenFull
<1>4. CASE Continue(t) /\ StartsToKick(t)
  <2>1. Full(t, second(t)) /\ second(t) \in Buckets
    BY <1>4, LocalTypes
    DEF StartsToKick, Continue, LookFirst, LookSecond, InsertFirst, InsertSecond, Kick, Place,
        CountAdd, RemoveFirst, RemoveSecond, Scan, CountSub, Land, Goto, Shapes
  <2>2. AllUsed(frame[t].home) /\ AllUsed(second(t)) /\ frame[t].hand.fp # 0
    BY <1>4, <2>1, FullIsUsed DEF StartsToKick, KicksWhenFull, CountInv
  <2>3. AllUsed(frame'[t].index) /\ UNCHANGED buckets /\ frame'[t].hand.fp # 0
    BY <1>4, <2>2 DEF StartsToKick
  <2>. QED
    BY <1>4, <2>3 DEF StartsToKick, KicksWhenFull, AllUsed
<1>5. CASE TakesOut(t)
  <2>1. PICK s \in victims(t) : frame'[t].hand = buckets[frame[t].index][s]
    BY <1>5 DEF TakesOut
  <2>2. frame'[t].hand.fp # 0
    BY <1>5, <2>1, VictimTypes DEF TakesOut, KicksWhenFull, AllUsed
  <2>. QED
    BY <1>5, <2>2 DEF TakesOut, KicksWhenFull
<1>6. CASE Continue(t) /\ KicksOn(t)
  <2>1. Full(t, frame[t].index) /\ frame[t].index \in Buckets
    BY <1>6, LocalTypes
    DEF KicksOn, Continue, LookFirst, LookSecond, InsertFirst, InsertSecond, Kick, Place,
        CountAdd, RemoveFirst, RemoveSecond, Scan, CountSub, Land, Goto, Shapes
  <2>2. AllUsed(frame[t].index)
    BY <2>1, FullIsUsed
  <2>. QED
    BY <1>6, <2>2 DEF KicksOn, KicksWhenFull, AllUsed
<1>. QED
  BY <1>1, <1>2, <1>3, <1>4, <1>5, <1>6, ContinueForms

\* An insertion that has looked into both buckets merges with nothing (filter.rs,
\* insert_if_not_present).
LEMMA NeverMerges ==
  ASSUME OnceInv, NEW t \in Threads, Continue(t)
  PROVE  ~Merges(t)
<1> SUFFICES ASSUME Merges(t) PROVE FALSE
  OBVIOUS
<1> DEFINE fp   == frame[t].fp
           hand == frame[t].hand
<1>1. /\ Shapes /\ InsertsOnce(t) /\ fp \in Fingerprint /\ hand \in DataBlocks
      /\ frame[t].home \in Buckets /\ second(t) \in Buckets /\ frame[t].index \in Buckets
  BY LocalTypes DEF OnceInv, StateOK
<1>2. pc[t] \in {"insert_i1", "insert_i2", "place"} /\ pc'[t] = "count_add" /\ hand.fp # 0
  BY DEF Merges
<1>3. \/ pc[t] \in {"insert_i1", "insert_i2"}
           /\ (Land(t, frame[t].home) \/ Land(t, second(t)))
      \/ pc[t] = "place" /\ Land(t, frame[t].index)
  BY <1>1, <1>2
  DEF Continue, LookFirst, LookSecond, InsertFirst, InsertSecond, Kick, Place, CountAdd,
      RemoveFirst, RemoveSecond, Scan, CountSub, Goto, Return, Shapes
<1>4. PICK i \in Buckets : Land(t, i) /\ Absent(hand.fp, i)
  <2>1. CASE pc[t] = "place"
    BY <1>1, <1>2, <1>3, <2>1 DEF InsertsOnce
  <2>2. CASE pc[t] \in {"insert_i1", "insert_i2"}
    <3>1. hand.fp = fp /\ Absent(fp, frame[t].home)
      BY <1>1, <2>2 DEF InsertsOnce
    <3>2. Absent(fp, second(t))
      BY <1>1, <3>1, PairMate DEF Absent, Pair, second
    <3>. QED
      BY <1>1, <1>3, <2>2, <3>1, <3>2
  <2>. QED
    BY <1>2, <2>1, <2>2
<1> DEFINE new == insert(buckets[i], hand)
<1>5. PICK s \in Slots : buckets[i][s].fp \in {0, hand.fp} /\ new[s].fp = hand.fp
  BY <1>1, <1>4, InsertType, BucketOf DEF Land
<1>6. buckets' = [buckets EXCEPT ![i] = new]
  BY <1>4 DEF Land
<1> HIDE DEF new
<1>7. buckets[i][s].fp = 0 /\ buckets'[i][s].fp = hand.fp
  BY <1>1, <1>4, <1>5, <1>6 DEF Absent, Pair, Shapes
<1>8. <<i, s>> \in Occupied' /\ <<i, s>> \notin Occupied
  BY <1>2, <1>7 DEF Occupied, occupied, is_empty
<1>. QED
  BY <1>8 DEF Merges

\* Nor does one report an empty block.
LEMMA NeverEmptyHanded ==
  ASSUME Shapes, NEW t \in Threads, KicksWhenFull(t), Continue(t),
         pc[t] \in {"kick", "place"}, pc'[t] = "idle"
  PROVE  ret'[t] # Evicted(0)
<1>1. ret'[t] = Evicted(frame[t].hand.fp)
  BY DEF Continue, LookFirst, LookSecond, InsertFirst, InsertSecond, Kick, Place, CountAdd,
         RemoveFirst, RemoveSecond, Scan, CountSub, Land, Goto, Return, Shapes
<1>2. frame[t].hand.fp # 0
  BY DEF KicksWhenFull
<1>. QED
  BY <1>1, <1>2 DEF Evicted

\* A single thread is finitely many.
LEMMA OneIsFinite == OneThread => IsFiniteSet(Threads)
<1> SUFFICES ASSUME OneThread PROVE IsFiniteSet(Threads)
  OBVIOUS
<1>1. CASE Threads = {}
  BY <1>1, FS_EmptySet
<1>2. ASSUME NEW t \in Threads PROVE IsFiniteSet(Threads)
  <2>1. Threads = {t}
    BY DEF OneThread
  <2>. QED
    BY <2>1, FS_Singleton
<1>. QED
  BY <1>1, <1>2

\* ExactInv is inductive.
LEMMA ExactInvStep ==
  ASSUME OneThread, "insert" \notin Apis
  PROVE  ExactInv /\ [Next]_vars => ExactInv'
<1> SUFFICES ASSUME ExactInv, [Next]_vars PROVE ExactInv'
  OBVIOUS
<1>1. OnceInv' /\ AllCountInv' /\ StateOK'
  BY OnceInvStep, CountInvStep DEF ExactInv, OnceInv
<1>2. CASE UNCHANGED vars
  <2>1. UNCHANGED <<buckets, items, pc, frame>>
    BY <1>2 DEF vars
  <2>2. Drift' = Drift
    BY <2>1 DEF Drift, ToAdd, ToSubtract, Occupied, new_item
  <2>3. \A t \in Threads : KicksWhenFull(t)'
    BY <2>1 DEF ExactInv, KicksWhenFull, AllUsed
  <2>. QED
    BY <1>1, <2>2, <2>3 DEF ExactInv
<1>3. ASSUME NEW t \in Threads, Begin(t) \/ Continue(t)
      PROVE  Drift' = 0 /\ \A u \in Threads : KicksWhenFull(u)'
  <2>1. Shapes /\ Shapes' /\ CountInv(t) /\ KicksWhenFull(t) /\ OnceInv /\ Drift = 0
    BY <1>1 DEF ExactInv, AllCountInv, StateOK
  <2>2. KicksWhenFull(t)'
    BY <1>3, <2>1, KicksWhenFullStep
  <2>3. CASE Begin(t)
    <3>1. IsFiniteSet(Threads)
      BY OneIsFinite
    <3>2. Drift' = Drift
      BY <2>1, <2>3, <3>1, BeginDrift
    <3>. QED
      BY <2>1, <2>2, <3>2 DEF OneThread
  <2>4. CASE Continue(t)
    <3>1. Drifts(t)
      BY <2>1, <2>4, OneIsFinite, ContinueDrift
    <3>2. ~Merges(t)
      BY <2>1, <2>4, NeverMerges
    <3>3. pc[t] \in {"kick", "place"} /\ pc'[t] = "idle" => ret'[t] # Evicted(0)
      BY <2>1, <2>4, NeverEmptyHanded
    <3>4. Drift' = Drift
      BY <3>1, <3>2, <3>3 DEF Drifts
    <3>. QED
      BY <2>1, <2>2, <3>4 DEF OneThread
  <2>. QED
    BY <1>3, <2>3, <2>4
<1>. QED
  BY <1>1, <1>2, <1>3 DEF Next, ExactInv

\* Nothing is occupied, and nothing due, in a new filter.
LEMMA InitDrift == Init => Drift = 0
<1> SUFFICES ASSUME Init PROVE Drift = 0
  OBVIOUS
<1>1. Occupied = {}
  BY EmptyBucketType DEF Init, Occupied, occupied, is_empty
<1>2. ToAdd = {}
  BY DEF Init, ToAdd, NoFrame
<1>3. ToSubtract = {}
  <2>1. \A t \in Threads : 1 .. frame[t].removed = {}
    BY DEF Init, NoFrame
  <2>. QED
    BY <2>1 DEF ToSubtract
<1>4. UsizeMax + 1 \in Nat \ {0} /\ 0 \in 0 .. (UsizeMax + 1) - 1 /\ items = 0
  BY FilterConstants DEF Init
<1>5. 0 % (UsizeMax + 1) = 0
  BY <1>4, InRange
<1>6. Drift = 0 % (UsizeMax + 1)
  BY <1>1, <1>2, <1>3, <1>4, FS_EmptySet DEF Drift
<1>. QED
  BY <1>5, <1>6

\* get_item_count is "the actual number of items currently stored" (filter.rs:242)
\* whenever the only thread that uses a filter is between two calls, if it inserts
\* with insert_if_not_present and a usize can count the slots.
THEOREM OneThreadCountsExactly ==
  ASSUME OneThread, "insert" \notin Apis, Cardinality(Buckets \X Slots) <= UsizeMax
  PROVE  Spec => []CountExact
<1>1. Init => ExactInv
  <2> SUFFICES ASSUME Init PROVE ExactInv
    OBVIOUS
  <2>1. OnceInv
    BY InitShapes, EmptyBucketType
    DEF Init, StateOK, LookupLocals, OnceInv, StoredOnce, FirstMissed, InsertsOnce
  <2>2. AllCountInv
    BY InitShapes DEF Init, AllCountInv, StateOK, LookupLocals, CountInv, NoFrame
  <2>3. \A t \in Threads : KicksWhenFull(t)
    BY DEF Init, KicksWhenFull
  <2>. QED
    BY <2>1, <2>2, <2>3, InitDrift DEF ExactInv
<1>2. ExactInv => CountExact
  <2> SUFFICES ASSUME ExactInv, Idle PROVE items = Cardinality(Occupied)
    BY DEF CountExact
  <2> DEFINE n == Cardinality(Occupied)
             m == UsizeMax + 1
  <2>1. ToAdd = {}
    BY DEF Idle, ToAdd
  <2>2. ToSubtract = {}
    <3>1. \A t \in Threads : 1 .. frame[t].removed = {}
      BY DEF ExactInv, AllCountInv, CountInv, Idle
    <3>. QED
      BY <3>1 DEF ToSubtract
  <2>3. items \in 0 .. UsizeMax /\ n \in 0 .. UsizeMax /\ m \in Nat \ {0}
    <3>1. n \in Nat /\ Cardinality(Buckets \X Slots) \in Nat
      BY OccupiedFinite, PlacesFinite, FS_CardinalityType
    <3>2. n <= Cardinality(Buckets \X Slots)
      <4>1. Occupied \in SUBSET (Buckets \X Slots)
        BY DEF Occupied
      <4>. QED
        BY <4>1, PlacesFinite, FS_Subset
    <3>. QED
      BY <3>1, <3>2, FilterConstants DEF ExactInv, OnceInv, StateOK, Shapes
  <2>4. (items - n) % m = 0
    <3>1. Cardinality({}) = 0
      BY FS_EmptySet
    <3>2. Drift = (items + 0 - 0 - n) % m
      BY <2>1, <2>2, <3>1 DEF Drift
    <3>3. items + 0 - 0 - n = items - n
      BY <2>3
    <3>. QED
      BY <3>2, <3>3 DEF ExactInv
  <2> HIDE DEF n
  <2>5. items - n < m /\ n - items < m
    BY <2>3, FilterConstants
  <2> HIDE DEF m
  <2>6. items - n \in Int /\ items - n = m * ((items - n) \div m) /\ (items - n) \div m \in Int
    BY <2>3, <2>4, Divided
  <2> DEFINE q == (items - n) \div m
  <2>7. q = 0
    <3> HIDE DEF q
    <3>1. q > 0 => m * 0 + m <= m * q
      BY <2>3, <2>6, NextMultiple DEF q
    <3>2. q < 0 => m * q + m <= m * 0
      BY <2>3, <2>6, NextMultiple DEF q
    <3>. QED
      BY <2>3, <2>5, <2>6, <3>1, <3>2 DEF q
  <2>. QED
    BY <2>3, <2>6, <2>7 DEF n
<1>. QED
  BY <1>1, <1>2, ExactInvStep, PTL DEF Spec

-----------------------------------------------------------------------------
(* Keys that one program removes. *)

\* What a step brings into the filter is in a slot that changes its fingerprint, or
\* in the hand of the thread.
LEMMA GainedFrom ==
  ASSUME Shapes, NEW t \in Threads, Begin(t) \/ Continue(t), NEW x \in Tokens' \ Tokens
  PROVE  \/ \E i \in Buckets, s \in Slots :
              /\ buckets'[i][s].fp # 0 /\ x = token(buckets'[i][s].fp, i)
              /\ buckets'[i][s].fp # buckets[i][s].fp
         \/ Displaced(t)' /\ x = token(frame'[t].hand.fp, frame'[t].index)
<1>1. CASE \E i \in Buckets, s \in Slots :
             buckets'[i][s].fp # 0 /\ x = token(buckets'[i][s].fp, i)
  BY <1>1, StoredToken
<1>2. CASE \E u \in Threads : Displaced(u)' /\ x = token(frame'[u].hand.fp, frame'[u].index)
  <2>1. PICK u \in Threads : Displaced(u)' /\ x = token(frame'[u].hand.fp, frame'[u].index)
    BY <1>2
  <2>2. CASE u # t
    <3>1. pc'[u] = pc[u] /\ frame'[u] = frame[u]
      BY <2>2, OthersUnchanged
    <3>2. Displaced(u)
      BY <2>1, <3>1 DEF Displaced, new_item
    <3>. QED
      BY <2>1, <3>1, <3>2, DisplacedToken
  <2>. QED
    BY <2>1, <2>2
<1>3. \/ \E i \in Buckets, s \in Slots :
           buckets'[i][s].fp # 0 /\ x = token(buckets'[i][s].fp, i)
      \/ \E u \in Threads : Displaced(u)' /\ x = token(frame'[u].hand.fp, frame'[u].index)
  BY DEF Tokens, StoredTokens, DisplacedTokens, occupied, is_empty, token, Pair
<1>. QED
  BY <1>1, <1>2, <1>3

\* A step that leaves or empties every slot, by a thread with no displaced block
\* afterwards, brings nothing in.
LEMMA NothingGained ==
  ASSUME Shapes, NEW t \in Threads, Begin(t) \/ Continue(t), ~Displaced(t)',
         \A i \in Buckets, s \in Slots : buckets'[i][s].fp \in {buckets[i][s].fp, 0}
  PROVE  Tokens' \subseteq Tokens
BY GainedFrom

\* Only an insertion brings a fingerprint into the filter, and it is that of its
\* key: kicks move what is there already (filter.rs, insert).
LEMMA GainedByInsertion ==
  ASSUME Shapes, NEW t \in Threads, CallInv(t), Continue(t), NEW x \in Tokens' \ Tokens
  PROVE  Carries(t) /\ x = token(frame[t].fp, frame[t].home)
<1> DEFINE fp   == frame[t].fp
           home == frame[t].home
           hand == frame[t].hand
           i    == frame[t].index
<1>1. /\ fp \in Fingerprint /\ home \in Buckets /\ second(t) \in Buckets /\ i \in Buckets
      /\ hand \in DataBlocks /\ hand.fp \in Fingerprint
  BY LocalTypes
<1>2. ASSUME NEW j \in {home, second(t)} PROVE j \in Buckets /\ token(fp, j) = token(fp, home)
  BY <1>1, TokenOther DEF second
<1>3. ASSUME NEW j \in Buckets, Land(t, j) PROVE x = token(hand.fp, j) /\ hand.fp # 0
  <2> DEFINE new == insert(buckets[j], hand)
  <2>1. PICK s \in Slots : new[s].fp = hand.fp /\ \A r \in Slots \ {s} : new[r] = buckets[j][r]
    BY <1>1, <1>3, InsertType, BucketOf DEF Land
  <2>2. buckets' = [buckets EXCEPT ![j] = new]
    BY <1>3 DEF Land
  <2> HIDE DEF new
  <2>3. ASSUME NEW k \in Buckets, NEW r \in Slots, buckets'[k][r].fp # buckets[k][r].fp
        PROVE  k = j /\ buckets'[k][r].fp = hand.fp
    BY <2>1, <2>2, <2>3 DEF Shapes
  <2>4. ~Displaced(t)'
    BY <1>3 DEF Land, Goto, Shapes, Displaced
  <2>. QED
    BY <2>3, <2>4, GainedFrom
<1>4. CASE LookFirst(t) \/ LookSecond(t)
  <2>1. \A k \in Buckets, s \in Slots : buckets'[k][s].fp = buckets[k][s].fp
    BY <1>1, <1>4, HitKeepsFingerprints DEF LookFirst, LookSecond
  <2>2. ~Displaced(t)'
    BY <1>4 DEF LookFirst, LookSecond, Hit, Return, Goto, Shapes, Displaced
  <2>. QED
    BY <2>1, <2>2, NothingGained
<1>5. CASE InsertFirst(t) \/ InsertSecond(t)
  <2>1. Carries(t) /\ hand.fp = fp /\ frame[t].kicks = 0
    BY <1>5 DEF InsertFirst, InsertSecond, CallInv, InsertsByInsertion, BlockOfKey, Carries, Tries
  <2>2. CASE UNCHANGED buckets
    <3>1. pc'[t] = "kick" => StartsToKick(t)
      BY <1>5, ContinueForms DEF InsertFirst, InsertSecond, GoesToNext, TakesOut, KicksOn
    <3>2. pc'[t] # "place"
      BY <1>5 DEF InsertFirst, InsertSecond, Land, Return, Goto, Shapes
    <3>3. ~Displaced(t)'
      BY <2>1, <3>1, <3>2 DEF Displaced, StartsToKick, new_item
    <3>. QED
      BY <2>2, <3>3, NothingGained
  <2>3. UNCHANGED buckets \/ Land(t, home) \/ Land(t, second(t))
    BY <1>5 DEF InsertFirst, InsertSecond, Full
  <2>. QED
    BY <1>2, <1>3, <2>1, <2>2, <2>3
<1>6. CASE TakesOut(t)
  <2>1. PICK s \in victims(t) :
          /\ frame'[t].hand = buckets[i][s] /\ frame'[t].index = alt_index(buckets[i][s].fp, i)
          /\ buckets' = [buckets EXCEPT ![i] = swap(buckets[i], s, hand)]
    BY <1>6 DEF TakesOut
  <2> DEFINE out == buckets[i][s]
             new == swap(buckets[i], s, hand)
  <2>2. s \in Slots /\ buckets[i] \in BucketStates /\ out.fp \in Fingerprint
    BY <1>1, VictimTypes, BucketOf, BlockOf
  <2>3. \A r \in Slots : new[r] = IF r = s THEN hand ELSE buckets[i][r]
    BY <1>1, <2>2, SwapType
  <2> HIDE DEF new
  <2>4. ASSUME NEW k \in Buckets, NEW r \in Slots, buckets'[k][r].fp # buckets[k][r].fp
        PROVE  k = i /\ buckets'[k][r] = hand
    BY <1>1, <2>1, <2>3, <2>4 DEF Shapes, new
  <2>5. Displaced(t)' => token(frame'[t].hand.fp, frame'[t].index) \in Tokens
    <3>1. Displaced(t)' => out.fp # 0
      BY <2>1 DEF Displaced
    <3>2. token(out.fp, alt_index(out.fp, i)) = token(out.fp, i)
      BY <1>1, <2>2, TokenOther
    <3>. QED
      BY <1>1, <2>1, <2>2, <3>1, <3>2, StoredToken
  <2>6. x = token(hand.fp, i) /\ hand.fp # 0
    BY <2>4, <2>5, GainedFrom
  <2>7. new_item(t)
    BY <1>6, <2>6, DisplacedToken DEF Displaced, TakesOut
  <2>. QED
    BY <1>2, <1>6, <2>6, <2>7
    DEF TakesOut, CallInv, InsertsByInsertion, BlockOfKey, Carries, Tries
<1>7. CASE KicksOn(t)
  <2>1. Displaced(t)' => Displaced(t)
    BY <1>7 DEF KicksOn, Displaced
  <2>. QED
    BY <1>7, <2>1, GainedFrom, DisplacedToken DEF KicksOn
<1>8. CASE Kick(t) \/ Place(t)
  <2>1. CASE UNCHANGED buckets /\ ~KicksOn(t) /\ ~TakesOut(t)
    <3>1. pc'[t] \in {"idle", "count_add", "count_sub"}
      BY <1>8, <2>1, ContinueForms DEF Kick, Place, GoesToNext, StartsToKick
    <3>. QED
      BY <2>1, <3>1, NothingGained DEF Displaced
  <2>2. CASE Land(t, i) /\ Place(t)
    BY <1>1, <1>3, <2>2, DisplacedToken DEF Displaced, Place
  <2>3. UNCHANGED buckets \/ (Land(t, i) /\ Place(t)) \/ TakesOut(t)
    BY <1>8, ContinueForms DEF Kick, Place, Full, GoesToNext, StartsToKick, KicksOn, Goto, Shapes
  <2>. QED
    BY <1>6, <1>7, <2>1, <2>2, <2>3
<1>9. ASSUME NEW j \in Buckets, Clear(t, j)
      PROVE  FALSE
  <2>1. \A k \in Buckets, r \in Slots : buckets'[k][r].fp \in {buckets[k][r].fp, 0}
    BY <1>9, ClearEmptiesOne
  <2>2. ~Displaced(t)'
    BY <1>9 DEF Clear, Goto, Shapes, Displaced
  <2>. QED
    BY <2>1, <2>2, NothingGained
<1>10. CASE RemoveFirst(t) \/ RemoveSecond(t) \/ CountAdd(t) \/ CountSub(t)
  <2>1. CASE UNCHANGED buckets
    <3>1. ~Displaced(t)'
      BY <1>10 DEF RemoveFirst, RemoveSecond, CountAdd, CountSub, Clear, Return, Goto, Shapes,
                   Displaced
    <3>. QED
      BY <2>1, <3>1, NothingGained
  <2>. QED
    BY <1>1, <1>9, <1>10, <2>1 DEF RemoveFirst, RemoveSecond, CountAdd, CountSub
<1>11. ~Scan(t)
  BY DEF CallInv, Scan
<1>. QED
  BY <1>4, <1>5, <1>8, <1>10, <1>11 DEF Continue

\* A removal takes the fingerprint of its key out of the filter: the only slot of
\* the pair that has it is emptied (filter.rs, remove).
LEMMA RemovalTakesAll ==
  ASSUME OneThread, OnceInv, NEW t \in Threads, NEW i \in {frame[t].home, second(t)},
         Clear(t, i), frame[t].fp # 0
  PROVE  token(frame[t].fp, frame[t].home) \notin Tokens'
<1> DEFINE fp   == frame[t].fp
           home == frame[t].home
<1>1. Shapes /\ fp \in Fingerprint /\ home \in Buckets /\ i \in Buckets
  BY LocalTypes DEF OnceInv, StateOK
<1>2. PICK s \in Slots :
        /\ buckets[i][s].fp = fp /\ buckets'[i][s].fp = 0
        /\ \A j \in Buckets, r \in Slots :
             <<j, r>> # <<i, s>> => buckets'[j][r].fp = buckets[j][r].fp
  BY <1>1, ClearEmptiesOne
<1>3. Pair(fp, i) = Pair(fp, home)
  BY <1>1, AltIndexInvolution DEF second
<1>4. ASSUME NEW j \in Pair(fp, home), NEW r \in Slots PROVE buckets'[j][r].fp # fp
  <2>1. j \in Buckets /\ j \in Pair(fp, i)
    BY <1>1, <1>3, PairMate
  <2>. QED
    BY <1>1, <1>2, <2>1 DEF OnceInv, StoredOnce
<1>5. \A u \in Threads : ~Displaced(u)'
  BY <1>1 DEF OneThread, Clear, Goto, Shapes, Displaced
<1>. QED
  BY <1>1, <1>4, <1>5, AbsentTokenNext

\* What is known of a removal, and of an insertion of a key that was removed.
RemovalInv(t) ==
  /\ frame[t].api = "remove" => pc[t] \in {"remove_i1", "remove_i2", "count_sub"}
  /\ pc[t] = "count_sub" => key[t] \in Keys /\ token_of(key[t]) \notin Tokens

ReinsertInv(t) == Carries(t) => removed \cap Twins(key[t]) = {}

\* What is known of a program that removes keys.
GoneInv ==
  /\ OnceInv /\ ClientInv
  /\ removed \subseteq Keys
  /\ RemovedIsGone
  /\ \A t \in Threads : RemovalInv(t) /\ ReinsertInv(t)

\* A removal that returns has found nothing, or has taken out what there was.
LEMMA RemovalReturns ==
  ASSUME OneThread, GoneInv, NEW t \in Threads, Learn(t), Returns(t), frame[t].api = "remove"
  PROVE  key[t] \in Keys /\ token_of(key[t]) \notin Tokens
<1>1. /\ Shapes /\ CallInv(t) /\ RemovalInv(t) /\ FirstMissed(t) /\ Continue(t)
      /\ pc[t] \in {"remove_i1", "remove_i2", "count_sub"}
  BY DEF GoneInv, OnceInv, ClientInv, StateOK, RemovalInv, Learn
<1>2. CASE pc[t] = "count_sub"
  BY <1>1, <1>2 DEF RemovalInv
<1>3. CASE pc[t] \in {"remove_i1", "remove_i2"}
  <2>1. key[t] \in Keys /\ token_of(key[t]) = token(frame[t].fp, frame[t].home)
    BY <1>1, <1>3, OwnKeys DEF CallInv, CallsOwnKey, Looking, token_of
  <2>2. pc[t] = "remove_i2" /\ ~contains(buckets[second(t)], frame[t].fp)
    BY <1>1, <1>3
    DEF Continue, LookFirst, LookSecond, InsertFirst, InsertSecond, Kick, Place, CountAdd,
        RemoveFirst, RemoveSecond, Clear, Scan, CountSub, Goto, Return, Shapes, Returns
  <2>3. Absent(frame[t].fp, frame[t].home)
    BY <1>1, <2>2 DEF FirstMissed, Absent, Pair, second, contains, holding
  <2>4. \A u \in Threads : ~Displaced(u)
    BY <2>2 DEF OneThread, Displaced
  <2>. QED
    BY <1>1, <2>1, <2>3, <2>4, AbsentToken, LocalTypes
<1>. QED
  BY <1>1, <1>2, <1>3

\* GoneInv goes on as a call goes on.
LEMMA GoneLearn ==
  ASSUME OneThread, GoneInv, NEW t \in Threads, Learn(t)
  PROVE  /\ removed' \subseteq Keys /\ RemovedIsGone'
         /\ RemovalInv(t)' /\ ReinsertInv(t)'
<1>1. /\ Shapes /\ CallInv(t) /\ RemovalInv(t) /\ ReinsertInv(t) /\ Continue(t) /\ key' = key
      /\ removed \subseteq Keys /\ OnceInv
      /\ removed' = IF Returns(t) /\ frame[t].api = "remove" THEN removed \cup {key[t]} ELSE removed
  BY DEF GoneInv, OnceInv, ClientInv, StateOK, RemovalInv, ReinsertInv, Learn
<1>2. \A k : token_of(k)' = token_of(k) /\ Twins(k)' = Twins(k)
  BY DEF token_of, token, Pair, get_fingerprint_and_index, Twins
<1>3. removed' \subseteq Keys
  BY <1>1, RemovalReturns
<1>4. ASSUME NEW k \in removed', token_of(k) \in Tokens'
      PROVE  FALSE
  <2>1. k \in Keys /\ token_of(k) \notin Tokens
    BY <1>1, <1>3, <1>4, RemovalReturns DEF GoneInv, RemovedIsGone
  <2>2. Carries(t) /\ token_of(k) = token(frame[t].fp, frame[t].home)
    BY <1>1, <1>4, <2>1, GainedByInsertion
  <2>3. token_of(k) = token_of(key[t])
    BY <1>1, <2>2 DEF Carries, Tries, CallInv, CallsOwnKey, token_of
  <2>4. frame[t].api # "remove"
    BY <2>2 DEF Carries, Inserting
  <2>5. k \in removed \cap Twins(key[t])
    BY <1>1, <1>4, <2>1, <2>3, <2>4 DEF Twins
  <2>. QED
    BY <1>1, <2>2, <2>5 DEF ReinsertInv
<1>5. RemovedIsGone'
  BY <1>2, <1>4 DEF RemovedIsGone
<1>6. (frame[t].api = "remove" => pc[t] \in {"remove_i1", "remove_i2", "count_sub"})'
  <2>1. CASE pc'[t] \in {"idle", "count_add"}
    BY <1>1, <2>1, EndsEmpty DEF NoFrame
  <2>2. CASE pc'[t] = "count_sub"
    BY <2>2
  <2>. QED
    BY <1>1, <2>1, <2>2, ContinueForms
    DEF CallInv, RemovalInv, GoesToNext, StartsToKick, TakesOut, KicksOn, SameKey
<1>7. ASSUME pc'[t] = "count_sub"
      PROVE  key[t] \in Keys /\ token_of(key[t]) \notin Tokens'
  <2>1. PICK i \in {frame[t].home, second(t)} : Clear(t, i) /\ pc[t] \in {"remove_i1", "remove_i2"}
    BY <1>1, <1>7
    DEF Continue, LookFirst, LookSecond, Hit, InsertFirst, InsertSecond, Land, Kick, Place,
        CountAdd, RemoveFirst, RemoveSecond, Scan, CountSub, Goto, Return, Shapes, CallInv
  <2>2. /\ key[t] \in Keys /\ token_of(key[t]) = token(frame[t].fp, frame[t].home)
        /\ frame[t].fp # 0
    BY <1>1, <2>1, OwnKeys, KeyTypes DEF CallInv, CallsOwnKey, Looking, token_of
  <2>. QED
    BY <1>1, <2>1, <2>2, RemovalTakesAll
<1>8. RemovalInv(t)'
  BY <1>1, <1>2, <1>6, <1>7 DEF RemovalInv
<1>9. ReinsertInv(t)'
  <2> SUFFICES ASSUME Carries(t)' PROVE removed' \cap Twins(key[t]) = {}
    BY <1>1, <1>2 DEF ReinsertInv
  <2>1. GoesToNext(t) \/ StartsToKick(t) \/ KicksOn(t)
    BY <1>1, ContinueForms DEF Carries, Tries, TakesOut, CallInv
  <2>2. ~KicksOn(t)
    BY <1>1, LocalTypes, FilterConstants DEF KicksOn, Carries, Tries, new_item
  <2>3. Carries(t) /\ pc'[t] # "idle"
    BY <2>1, <2>2 DEF GoesToNext, StartsToKick, SameKey, Carries, Tries
  <2>. QED
    BY <1>1, <2>3 DEF ReinsertInv, Returns
<1>. QED
  BY <1>3, <1>5, <1>8, <1>9

\* And as one begins.
LEMMA GoneAsk ==
  ASSUME GoneInv, NEW t \in Threads, NEW k \in Own[t], Ask(t, k)
  PROVE  /\ removed' \subseteq Keys /\ RemovedIsGone'
         /\ RemovalInv(t)' /\ ReinsertInv(t)'
<1>1. /\ Shapes /\ k \in Keys /\ removed \subseteq Keys /\ Begin(t) /\ key'[t] = k
      /\ removed' = IF frame'[t].api \in Inserting THEN removed \ Twins(k) ELSE removed
  BY OwnKeys DEF GoneInv, ClientInv, StateOK, Ask
<1>2. \A j : token_of(j)' = token_of(j) /\ Twins(j)' = Twins(j)
  BY DEF token_of, token, Pair, get_fingerprint_and_index, Twins
<1>3. Tokens' \subseteq Tokens
  <2>1. UNCHANGED buckets /\ ~Displaced(t)'
    BY <1>1, AskForms DEF Displaced
  <2>. QED
    BY <1>1, <2>1, NothingGained
<1>4. RemovedIsGone'
  BY <1>1, <1>2, <1>3 DEF GoneInv, RemovedIsGone
<1>5. RemovalInv(t)'
  BY <1>1, AskForms DEF RemovalInv, Inserting
<1>6. ReinsertInv(t)'
  BY <1>1, <1>2 DEF ReinsertInv, Carries
<1>. QED
  BY <1>1, <1>4, <1>5, <1>6

\* GoneInv is inductive.
LEMMA GoneInvStep ==
  ASSUME OneThread, "insert" \notin Apis
  PROVE  GoneInv /\ [ClientNext]_clientVars => GoneInv'
<1> SUFFICES ASSUME GoneInv, [ClientNext]_clientVars PROVE GoneInv'
  OBVIOUS
<1>1. [Next]_vars
  BY DEF ClientNext, Learn, Ask, Next, clientVars, historyVars
<1>2. OwnersApart
  BY DEF OneThread, OwnersApart
<1>3. OnceInv' /\ ClientInv'
  BY <1>1, <1>2, OnceInvStep, ClientInvStep DEF GoneInv
<1>4. ASSUME NEW t \in Threads, Learn(t) \/ \E k \in Own[t] : Ask(t, k)
      PROVE  GoneInv'
  <2>1. /\ removed' \subseteq Keys /\ RemovedIsGone'
        /\ RemovalInv(t)' /\ ReinsertInv(t)'
    BY <1>4, GoneLearn, GoneAsk
  <2>2. \A u \in Threads : RemovalInv(u)' /\ ReinsertInv(u)'
    BY <2>1 DEF OneThread
  <2>. QED
    BY <1>3, <2>1, <2>2 DEF GoneInv
<1>5. CASE UNCHANGED clientVars
  <2>1. UNCHANGED <<buckets, pc, frame, key, removed>>
    BY <1>5 DEF clientVars, historyVars, vars
  <2>2. Tokens' = Tokens
    BY <2>1 DEF Tokens, StoredTokens, DisplacedTokens, Displaced, new_item, token, Pair
  <2>3. \A j : token_of(j)' = token_of(j) /\ Twins(j)' = Twins(j)
    BY DEF token_of, token, Pair, get_fingerprint_and_index, Twins
  <2>4. \A u \in Threads : RemovalInv(u)' /\ ReinsertInv(u)'
    BY <2>1, <2>2, <2>3 DEF GoneInv, RemovalInv, ReinsertInv, Carries, new_item
  <2>5. removed' \subseteq Keys /\ RemovedIsGone'
    BY <2>1, <2>2, <2>3 DEF GoneInv, RemovedIsGone
  <2>. QED
    BY <1>3, <2>4, <2>5 DEF GoneInv
<1>. QED
  BY <1>4, <1>5 DEF ClientNext

\* One program that inserts with insert_if_not_present does not find a key again
\* once it has removed it, nor any that the filter cannot tell from it, until it
\* inserts one (fuzz/fuzz_targets/filter.rs:32).
THEOREM RemovedStaysGone ==
  ASSUME OneThread, "insert" \notin Apis
  PROVE  ClientSpec => []RemovedIsGone
<1>1. OwnersApart
  BY DEF OneThread, OwnersApart
<1>2. ClientInit => GoneInv
  <2> SUFFICES ASSUME ClientInit PROVE GoneInv
    OBVIOUS
  <2>1. OnceInv
    BY InitShapes, EmptyBucketType
    DEF ClientInit, HInit, Init, StateOK, LookupLocals, OnceInv, StoredOnce, FirstMissed,
        InsertsOnce
  <2>2. ClientInv
    BY InitShapes DEF ClientInit, HInit, Init, ClientInv, StateOK, LookupLocals, CallInv,
                      CallsOwnKey, InsertsByInsertion, BlockOfKey, RemovesNoMember, Tries, Looking,
                      StoredUnlessReported, NoFrame, Inserting
  <2>3. \A t \in Threads : RemovalInv(t) /\ ReinsertInv(t)
    BY DEF ClientInit, HInit, Init, RemovalInv, ReinsertInv, Carries, NoFrame, Inserting
  <2>. QED
    BY <2>1, <2>2, <2>3 DEF GoneInv, ClientInit, RemovedIsGone
<1>3. GoneInv => RemovedIsGone
  BY DEF GoneInv
<1>. QED
  BY <1>2, <1>3, GoneInvStep, PTL DEF ClientSpec
=============================================================================
