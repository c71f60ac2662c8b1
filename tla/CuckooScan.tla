------------------------------ MODULE CuckooScan ------------------------------
(***************************************************************************)
(* The filter with rounds of TTL scans, as the documentation of            *)
(* scan_and_update_full asks for (src/src/filter.rs): in a round the       *)
(* scanners scan partitions 0 to Total - 1 once each, in parallel, beside  *)
(* the threads that use the filter.                                        *)
(***************************************************************************)
EXTENDS CuckooFilter

CONSTANTS
  Scanners,  \* the threads that scan; the others use the filter
  Total      \* total_partitions

ASSUME ScanConstants == Scanners \subseteq Threads /\ Total \in Nat \ {0}

VARIABLES
  todo,   \* the partitions of this round that no scanner has begun
  before  \* token -> its TTL when the round began, while nobody else touches or moves it

scanVars == <<vars, todo, before>>

StoredBlocks ==
  {<<token(buckets[p[1]][p[2]].fp, p[1]), buckets[p[1]][p[2]].ttl>> : p \in Occupied}

\* Every TTL that token x has in some slot.
ttls(x) == {y[2] : y \in {z \in StoredBlocks : z[1] = x}}

Untouched(S) == before' = [x \in DOMAIN before \ S |-> before[x]]

RoundOver == todo = {} /\ \A t \in Scanners : pc[t] = "idle"

CalledFor == {token(frame[t].fp, frame[t].home) : t \in Threads \ Scanners}

\* A token that is there twice has no one TTL.
RoundStart ==
  LET alone == {x \in StoredTokens \ (DisplacedTokens \cup CalledFor) : Cardinality(ttls(x)) = 1}
  IN  /\ RoundOver
      /\ todo' = 0 .. Total - 1
      /\ before' = [x \in alone |-> CHOOSE n \in ttls(x) : TRUE]
      /\ UNCHANGED vars

Scanner(t) ==
  \/ /\ \E p \in todo : /\ ScanPartition(t, "scan_ttl", <<Total, p>>)
                        /\ todo' = todo \ {p}
     /\ UNCHANGED before
  \/ Continue(t) /\ UNCHANGED <<todo, before>>

\* A call with a key touches its token, a kick the one that it takes out; what an
\* insertion evicts or a removal takes is gone.
User(t) ==
  /\ UNCHANGED todo
  /\ \/ Begin(t) /\ Untouched({token(frame'[t].fp, frame'[t].home)})
     \/ Continue(t) /\ Untouched((Tokens \ Tokens') \cup DisplacedTokens')

ScanNext ==
  \/ RoundStart
  \/ \E t \in Scanners : Scanner(t)
  \/ \E t \in Threads \ Scanners : User(t)

ScanSpec == Init /\ todo = {} /\ before = << >> /\ [][ScanNext]_scanVars

-----------------------------------------------------------------------------
(* Properties. *)

\* In a round every item that no call touches or kicks loses 1 of its TTL, and goes
\* when nothing is left, whichever partition it is in, whoever scans that, and
\* whatever is inserted, kicked and removed around it meanwhile: "TTL will get
\* reduced by 1 on each call" (filter.rs:562).  An item that is kicked while its
\* two buckets are scanned may be aged twice or not at all (filter.rs:624).
AgedOnce ==
  RoundOver => \A x \in DOMAIN before :
    ttls(x) = IF before[x] = 1 THEN {} ELSE {before[x] - 1}
=============================================================================
