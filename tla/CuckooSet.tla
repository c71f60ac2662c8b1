------------------------------ MODULE CuckooSet ------------------------------
(***************************************************************************)
(* What the filter promises, with no buckets, slots, kicks or locks: a bag *)
(* of entries, each an item, which is a fingerprint with its pair of       *)
(* buckets, and the data associated with it.  A call of a client changes   *)
(* the bag in one step, with the item and the values it was called with;   *)
(* only to admit a new item may take a second step, which makes room.      *)
(* Nothing but a call in progress changes it.                              *)
(***************************************************************************)
EXTENDS Integers, FiniteSets, Bags

CONSTANTS
  Clients,
  Items,            \* <<fingerprint, ..>>
  Fresh,            \* data with which an item may be inserted
  Uses,             \* what lookups do to the data of the entry they find
  Scans,            \* which of the LRU and the TTL a scan ages
  LruMax, LruIncrement, LruRemoveOnZero, LruHalving, LruDecrement,
  CounterMax,
  Nothing

VARIABLES
  entries,  \* bag of [item, data]
  calls,    \* client -> what its call still has to do
  report    \* client -> the fingerprint its last call has reported as evicted

set == <<entries, calls, report>>

Idle            == [op |-> "none"]
Looking(x, u)   == [op |-> "look", item |-> x, use |-> u]
Ensuring(x, d, u) == [op |-> "ensure", item |-> x, data |-> d, use |-> u]
Inserting(x, d) == [op |-> "insert", item |-> x, data |-> d]
Settling        == [op |-> "settle"]   \* the item is in, room is being made
Removing(x)     == [op |-> "remove", item |-> x]
Scanning(s)     == [op |-> "scan", scan |-> s]

Requests ==
  {Looking(x, u) : x \in Items, u \in Uses}
    \cup {Ensuring(x, d, u) : x \in Items, d \in Fresh, u \in Uses}
    \cup {Inserting(x, d) : x \in Items, d \in Fresh}
    \cup {Removing(x) : x \in Items} \cup {Scanning(s) : s \in Scans}

-----------------------------------------------------------------------------
(* Data. *)

Lesser(a, b) == IF a < b THEN a ELSE b
Greater(a, b) == IF a > b THEN a ELSE b

\* Two entries for one item become one, with the uses of both.
Combined(d, e) ==
  [lru     |-> Lesser(d.lru + e.lru, LruMax),
   ttl     |-> Greater(d.ttl, e.ttl),
   counter |-> Lesser(d.counter + e.counter, CounterMax)]

\* What a lookup leaves: no counter passes its bounds.
Used(d, u) ==
  [lru     |-> Lesser(d.lru + LruIncrement, LruMax),
   ttl     |-> IF u.ttl = Nothing THEN d.ttl ELSE u.ttl,
   counter |-> Lesser(Greater(d.counter + u.by, 0), CounterMax)]

Spent(s, d) == (s.lru /\ LruRemoveOnZero /\ d.lru = 0) \/ (s.ttl /\ d.ttl <= 1)

Decayed(n) == IF LruHalving THEN n \div 2 ELSE Greater(n - LruDecrement, 0)

Aged(s, d) ==
  [lru     |-> IF s.lru THEN Decayed(d.lru) ELSE d.lru,
   ttl     |-> IF s.ttl THEN d.ttl - 1 ELSE d.ttl,
   counter |-> d.counter]

-----------------------------------------------------------------------------
(* Steps. *)

Entry(x, d) == [item |-> x, data |-> d]

One(e) == SetToBag({e})

Replace(e, f) == entries' = (entries (-) One(e)) (+) One(f)

Becomes(c, call) == calls' = [calls EXCEPT ![c] = call]

Init ==
  /\ entries = EmptyBag
  /\ calls = [c \in Clients |-> Idle]
  /\ report = [c \in Clients |-> Nothing]

\* A call that has nothing to do with the entries returns at once.
Begin(c) ==
  /\ calls[c] = Idle
  /\ \E request \in Requests \cup {Idle} : Becomes(c, request)
  /\ report' = [report EXCEPT ![c] = Nothing]
  /\ UNCHANGED entries

Miss(c) ==
  /\ \/ calls[c].op \in {"look", "remove"} /\ Becomes(c, Idle)
     \/ calls[c].op = "ensure" /\ Becomes(c, Inserting(calls[c].item, calls[c].data))
  /\ UNCHANGED <<entries, report>>

Lookup(c) ==
  /\ calls[c].op \in {"look", "ensure"}
  /\ \E e \in BagToSet(entries) :
       e.item = calls[c].item /\ Replace(e, Entry(e.item, Used(e.data, calls[c].use)))
  /\ Becomes(c, Idle)
  /\ UNCHANGED report

Insert(c) ==
  /\ calls[c].op = "insert"
  /\ LET x == calls[c].item
         d == calls[c].data
     IN  \/ /\ entries' = entries (+) One(Entry(x, d))
            /\ \E rest \in {Idle, Settling} : Becomes(c, rest)
         \/ /\ \E e \in BagToSet(entries) :
                 e.item = x /\ Replace(e, Entry(x, Combined(e.data, d)))
            /\ Becomes(c, Idle)
  /\ UNCHANGED report

\* There is room, or two entries of one item take the room of one.
Settle(c) ==
  /\ calls[c].op = "settle"
  /\ \/ UNCHANGED entries
     \/ \E e, f \in BagToSet(entries) :
          /\ e.item = f.item
          /\ One(e) (+) One(f) \sqsubseteq entries
          /\ entries' = (entries (-) (One(e) (+) One(f)))
                          (+) One(Entry(e.item, Combined(e.data, f.data)))
  /\ Becomes(c, Idle)
  /\ UNCHANGED report

\* There is no room: an entry goes, or the item of the call is not admitted.
Evict(c) ==
  /\ \/ /\ calls[c].op = "settle"
        /\ \E e \in BagToSet(entries) :
             entries' = entries (-) One(e) /\ report' = [report EXCEPT ![c] = e.item[1]]
     \/ /\ calls[c].op = "insert"
        /\ report' = [report EXCEPT ![c] = calls[c].item[1]]
        /\ UNCHANGED entries
  /\ Becomes(c, Idle)

Remove(c) ==
  /\ calls[c].op = "remove"
  /\ \E e \in BagToSet(entries) : e.item = calls[c].item /\ entries' = entries (-) One(e)
  /\ Becomes(c, Idle)
  /\ UNCHANGED report

\* The entries of the bag, told apart.
Copies == UNION {{e} \X (1 .. entries[e]) : e \in BagToSet(entries)}

\* A scan ages some of the entries, and goes on or ends.
Age(c) ==
  /\ calls[c].op = "scan"
  /\ \E some \in SUBSET Copies :
       LET s       == calls[c].scan
           left    == {p \in Copies : p \in some => ~Spent(s, p[1].data)}
           aged(p) == IF p \in some THEN Entry(p[1].item, Aged(s, p[1].data)) ELSE p[1]
       IN  entries' = [e \in {aged(p) : p \in left} |-> Cardinality({p \in left : aged(p) = e})]
  /\ UNCHANGED calls \/ Becomes(c, Idle)
  /\ UNCHANGED report

Next ==
  \E c \in Clients :
    \/ Begin(c) \/ Miss(c) \/ Lookup(c) \/ Insert(c) \/ Settle(c) \/ Evict(c)
    \/ Remove(c) \/ Age(c)

Spec == Init /\ [][Next]_set
=============================================================================
