---------------------------- MODULE LookupHistory ----------------------------
(***************************************************************************)
(* The filter with two history variables about the key that the call of a  *)
(* thread looks for.                                                       *)
(***************************************************************************)
EXTENDS CuckooFilter

VARIABLES
  steady,  \* thread -> the key has been in the filter, in a slot or in the hand of
           \*   an insertion that moves it, ever since the call began
  still    \* thread -> the buckets that have held its fingerprint all that time

historyVars == <<vars, steady, still>>

Looking == {"look_i1", "look_i2", "remove_i1", "remove_i2"}

CandidatesHolding(t) ==
  {i \in Pair(frame[t].fp, frame[t].home) : contains(buckets[i], frame[t].fp)}

HInit ==
  /\ Init
  /\ steady = [t \in Threads |-> FALSE]
  /\ still = [t \in Threads |-> {}]

\* Every step brings the histories up to date.
Remember ==
  LET looks(t)  == pc'[t] \in Looking
      begins(t) == pc[t] = "idle"
  IN  /\ steady' = [t \in Threads |->
                      /\ looks(t)
                      /\ begins(t) \/ steady[t]
                      /\ (token(frame[t].fp, frame[t].home) \in Tokens)']
      /\ still' = [t \in Threads |->
                     IF looks(t)
                     THEN {i \in CandidatesHolding(t)' : begins(t) \/ i \in still[t]}
                     ELSE {}]

HNext == Next /\ Remember

HSpec == HInit /\ [][HNext]_historyVars

FairHSpec == HSpec /\ Fairness

\* The lookup of thread t, or its removal, comes to the end without a hit.
Misses(t) ==
  /\ pc[t] \in {"look_i2", "remove_i2"} /\ pc'[t] # pc[t]
  /\ ~contains(buckets[second(t)], frame[t].fp)

\* "If false is returned, then the key is definitely not present" (filter.rs:490):
\* a lookup, a removal or the check of insert_if_not_present misses only a key
\* that was absent at some time during the call.
MissMeansAbsent == [][\A t \in Threads : Misses(t) => ~steady[t]]_historyVars

\* What is left of that beside the kicks of other threads: a miss means that the
\* key was in neither of its buckets for the whole time.  A key that is found by
\* nobody has been moved, whichever thread was delayed where (filter.rs:447).
MissMeansMoved == [][\A t \in Threads : Misses(t) => still[t] = {}]_historyVars
=============================================================================
