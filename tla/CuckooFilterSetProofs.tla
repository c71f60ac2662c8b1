------------------------ MODULE CuckooFilterSetProofs ------------------------
(***************************************************************************)
(* The filter implements CuckooSet, for every value of the constants.  The *)
(* entries are a bag, of which every occupied slot and every hand that     *)
(* holds a kicked block has one: what a step does to the bag is seen from  *)
(* the one slot and the one hand that it writes.                           *)
(***************************************************************************)
EXTENDS CuckooFilterSet, CuckooFilterProofs

-----------------------------------------------------------------------------
(* Bags, by how many of each element they have. *)

copies(B, e) == IF e \in DOMAIN B THEN B[e] ELSE 0

IsBag(B) == B = [e \in DOMAIN B |-> B[e]] /\ \A e \in DOMAIN B : B[e] \in Nat \ {0}

\* ToCount of a membership.
has(e, x) == IF e = x THEN 1 ELSE 0

\* A bag is what it has of each element.
LEMMA SameBag ==
  ASSUME NEW A, NEW B, IsBag(A), IsBag(B), \A e : copies(A, e) = copies(B, e)
  PROVE  A = B
<1>1. \A e : e \in DOMAIN A <=> e \in DOMAIN B
  BY DEF copies, IsBag
<1>2. DOMAIN A = DOMAIN B
  BY <1>1
<1>3. \A e \in DOMAIN A : A[e] = B[e]
  BY <1>2 DEF copies
<1>. QED
  BY <1>2, <1>3 DEF IsBag

\* One of an element is a bag.
LEMMA OneCopy ==
  ASSUME NEW x
  PROVE  IsBag(SetToBag({x})) /\ \A e : copies(SetToBag({x}), e) = has(e, x)
BY DEF SetToBag, IsBag, copies, has

\* A bag has what two have together.
LEMMA PlusCopies ==
  ASSUME NEW A, NEW B, IsBag(A), IsBag(B)
  PROVE  IsBag(A (+) B) /\ \A e : copies(A (+) B, e) = copies(A, e) + copies(B, e)
<1> DEFINE C == A (+) B
<1>1. /\ DOMAIN C = DOMAIN A \cup DOMAIN B
      /\ C = [e \in DOMAIN C |-> C[e]]
      /\ \A e \in DOMAIN C : C[e] = copies(A, e) + copies(B, e)
  BY DEF (+), copies
<1>2. \A e \in DOMAIN C : C[e] \in Nat \ {0}
  BY <1>1 DEF IsBag, copies
<1>3. \A e : e \notin DOMAIN C => copies(A, e) = 0 /\ copies(B, e) = 0
  BY <1>1 DEF copies
<1> HIDE DEF C
<1>4. IsBag(C)
  BY <1>1, <1>2 DEF IsBag
<1>5. ASSUME NEW e PROVE copies(C, e) = copies(A, e) + copies(B, e)
  BY <1>1, <1>3 DEF copies
<1>. QED
  BY <1>4, <1>5 DEF C

\* And what is left of one.
LEMMA MinusCopies ==
  ASSUME NEW A, NEW B, IsBag(A), IsBag(B)
  PROVE  /\ IsBag(A (-) B)
         /\ \A e : copies(A (-) B, e) =
                     IF copies(A, e) > copies(B, e) THEN copies(A, e) - copies(B, e) ELSE 0
<1> DEFINE D == [e \in DOMAIN A |-> IF e \in DOMAIN B THEN A[e] - B[e] ELSE A[e]]
           C == A (-) B
<1>1. C = [e \in {d \in DOMAIN D : D[d] > 0} |-> D[e]]
  BY DEF (-)
<1>2. \A e \in DOMAIN A : D[e] = copies(A, e) - copies(B, e)
  BY DEF copies, IsBag
<1>3. \A e : copies(A, e) \in Nat /\ copies(B, e) \in Nat
  BY DEF copies, IsBag
<1>4. \A e : e \in DOMAIN C <=> e \in DOMAIN A /\ copies(A, e) - copies(B, e) > 0
  BY <1>1, <1>2
<1>5. \A e \in DOMAIN C : C[e] = copies(A, e) - copies(B, e)
  BY <1>1, <1>2
<1>6. C = [e \in DOMAIN C |-> C[e]]
  BY <1>1
<1> HIDE DEF C, D
<1>7. IsBag(C)
  BY <1>3, <1>4, <1>5, <1>6 DEF IsBag
<1>8. ASSUME NEW e
      PROVE  copies(C, e) =
               IF copies(A, e) > copies(B, e) THEN copies(A, e) - copies(B, e) ELSE 0
  <2>1. e \notin DOMAIN A => copies(A, e) = 0
    BY DEF copies
  <2>2. copies(C, e) = IF e \in DOMAIN C THEN C[e] ELSE 0
    BY DEF copies
  <2>. QED
    BY <1>3, <1>4, <1>5, <2>1, <2>2
<1>. QED
  BY <1>7, <1>8 DEF C

-----------------------------------------------------------------------------
(* Bags that are filled from places: f says which element is in which.     *)

fiber(f, e) == {p \in DOMAIN f : f[p] = e}

bag_of(f) == [e \in {f[p] : p \in DOMAIN f} |-> Cardinality(fiber(f, e))]

\* It has an element as often as that is in a place.
LEMMA BagOf ==
  ASSUME NEW f, IsFiniteSet(DOMAIN f)
  PROVE  /\ IsBag(bag_of(f))
         /\ \A e : /\ IsFiniteSet(fiber(f, e)) /\ Cardinality(fiber(f, e)) \in Nat
                  /\ copies(bag_of(f), e) = Cardinality(fiber(f, e))
<1>1. ASSUME NEW e PROVE IsFiniteSet(fiber(f, e)) /\ Cardinality(fiber(f, e)) \in Nat
  BY FS_Subset, FS_CardinalityType DEF fiber
<1>2. ASSUME NEW e PROVE Cardinality(fiber(f, e)) = 0 <=> e \notin {f[p] : p \in DOMAIN f}
  <2>1. Cardinality(fiber(f, e)) = 0 <=> fiber(f, e) = {}
    BY <1>1, FS_EmptySet
  <2>. QED
    BY <2>1 DEF fiber
<1>3. IsBag(bag_of(f))
  <2>1. /\ DOMAIN bag_of(f) = {f[p] : p \in DOMAIN f}
        /\ bag_of(f) = [e \in DOMAIN bag_of(f) |-> bag_of(f)[e]]
        /\ \A e \in DOMAIN bag_of(f) : bag_of(f)[e] = Cardinality(fiber(f, e))
    BY DEF bag_of
  <2>. QED
    BY <1>1, <1>2, <2>1 DEF IsBag
<1>4. ASSUME NEW e PROVE copies(bag_of(f), e) = Cardinality(fiber(f, e))
  BY <1>1, <1>2 DEF copies, bag_of
<1>. QED
  BY <1>1, <1>3, <1>4

at(f, p, e) == IF p \in DOMAIN f /\ f[p] = e THEN 1 ELSE 0

\* f and g say the same of all places but two.
DifferAt(f, g, p, q) ==
  /\ p # q
  /\ \A r : r \notin {p, q} => /\ r \in DOMAIN f <=> r \in DOMAIN g
                               /\ r \in DOMAIN f => f[r] = g[r]

\* Then the other places have as much of an element in either.
LEMMA RestSame ==
  ASSUME NEW f, NEW g, NEW p, NEW q, IsFiniteSet(DOMAIN f), DifferAt(f, g, p, q)
  PROVE  /\ IsFiniteSet(DOMAIN g)
         /\ \A e : \E n \in Nat :
              /\ copies(bag_of(f), e) = n + at(f, p, e) + at(f, q, e)
              /\ copies(bag_of(g), e) = n + at(g, p, e) + at(g, q, e)
<1>1. IsFiniteSet(DOMAIN g)
  <2>1. DOMAIN g \in SUBSET ((DOMAIN f \cup {p}) \cup {q})
    BY DEF DifferAt
  <2>2. IsFiniteSet((DOMAIN f \cup {p}) \cup {q})
    BY FS_AddElement
  <2>. QED
    BY <2>1, <2>2, FS_Subset
<1>2. ASSUME NEW h, NEW e, IsFiniteSet(DOMAIN h)
      PROVE  /\ Cardinality((fiber(h, e) \ {p}) \ {q}) \in Nat
             /\ copies(bag_of(h), e) =
                  Cardinality((fiber(h, e) \ {p}) \ {q}) + at(h, p, e) + at(h, q, e)
  <2> DEFINE S == fiber(h, e)
  <2>1. IsFiniteSet(S) /\ Cardinality(S) \in Nat /\ copies(bag_of(h), e) = Cardinality(S)
    BY <1>2, BagOf
  <2>2. /\ IsFiniteSet(S \ {p}) /\ Cardinality(S \ {p}) \in Nat
        /\ Cardinality(S \ {p}) = IF p \in S THEN Cardinality(S) - 1 ELSE Cardinality(S)
    BY <2>1, FS_RemoveElement, FS_CardinalityType
  <2>3. /\ Cardinality((S \ {p}) \ {q}) \in Nat
        /\ Cardinality((S \ {p}) \ {q}) =
             IF q \in S \ {p} THEN Cardinality(S \ {p}) - 1 ELSE Cardinality(S \ {p})
    BY <2>2, FS_RemoveElement, FS_CardinalityType
  <2>4. /\ at(h, p, e) = IF p \in S THEN 1 ELSE 0
        /\ at(h, q, e) = IF q \in S \ {p} THEN 1 ELSE 0
    BY DEF at, fiber, DifferAt
  <2> HIDE DEF S
  <2>. QED
    BY <2>1, <2>2, <2>3, <2>4 DEF S
<1>3. ASSUME NEW e
      PROVE  \E n \in Nat : /\ copies(bag_of(f), e) = n + at(f, p, e) + at(f, q, e)
                            /\ copies(bag_of(g), e) = n + at(g, p, e) + at(g, q, e)
  <2>1. (fiber(f, e) \ {p}) \ {q} = (fiber(g, e) \ {p}) \ {q}
    BY DEF fiber, DifferAt
  <2>. QED
    BY <1>1, <1>2, <2>1
<1>. QED
  BY <1>1, <1>3

\* What is in the two places has only changed places.
LEMMA BagKept ==
  ASSUME NEW f, NEW g, NEW p, NEW q, IsFiniteSet(DOMAIN f), DifferAt(f, g, p, q),
         \A e : at(f, p, e) + at(f, q, e) = at(g, p, e) + at(g, q, e)
  PROVE  bag_of(g) = bag_of(f)
<1>1. \A h, r, e : at(h, r, e) \in 0 .. 1
  BY DEF at
<1>2. \A e : copies(bag_of(g), e) = copies(bag_of(f), e)
  BY <1>1, RestSame
<1>. QED
  BY <1>2, RestSame, BagOf, SameBag

\* One element x has been put there.
LEMMA BagPut ==
  ASSUME NEW f, NEW g, NEW p, NEW q, IsFiniteSet(DOMAIN f), DifferAt(f, g, p, q), NEW x,
         \A e : at(g, p, e) + at(g, q, e) = at(f, p, e) + at(f, q, e) + has(e, x)
  PROVE  bag_of(g) = bag_of(f) (+) SetToBag({x})
<1> DEFINE B == bag_of(f) (+) SetToBag({x})
<1>1. \A h, r, e : at(h, r, e) \in 0 .. 1
  BY DEF at
<1>2. IsBag(B) /\ \A e : copies(B, e) = copies(bag_of(f), e) + has(e, x)
  <2>1. IsBag(bag_of(f))
    BY BagOf
  <2>2. IsBag(SetToBag({x})) /\ \A e : copies(SetToBag({x}), e) = has(e, x)
    BY OneCopy
  <2>. QED
    BY <2>1, <2>2, PlusCopies
<1>3. \A e : has(e, x) \in 0 .. 1
  BY DEF has
<1> HIDE DEF B
<1>4. ASSUME NEW e PROVE copies(bag_of(g), e) = copies(B, e)
  BY <1>1, <1>2, <1>3, RestSame
<1>5. IsBag(bag_of(g))
  BY RestSame, BagOf
<1>6. bag_of(g) = B
  BY <1>2, <1>4, <1>5, SameBag
<1>. QED
  BY <1>6 DEF B

\* One element x has been taken from there.
LEMMA BagTaken ==
  ASSUME NEW f, NEW g, NEW p, NEW q, IsFiniteSet(DOMAIN f), DifferAt(f, g, p, q), NEW x,
         \A e : at(f, p, e) + at(f, q, e) = at(g, p, e) + at(g, q, e) + has(e, x)
  PROVE  x \in DOMAIN bag_of(f) /\ bag_of(g) = bag_of(f) (-) SetToBag({x})
<1> DEFINE B == bag_of(f) (-) SetToBag({x})
<1>1. \A h, r, e : at(h, r, e) \in 0 .. 1
  BY DEF at
<1>2. /\ IsBag(B)
      /\ \A e : copies(B, e) = IF copies(bag_of(f), e) > has(e, x)
                               THEN copies(bag_of(f), e) - has(e, x) ELSE 0
  BY BagOf, OneCopy, MinusCopies
<1>3. \A e : has(e, x) \in 0 .. 1
  BY DEF has
<1> HIDE DEF B
<1>4. ASSUME NEW e PROVE copies(bag_of(g), e) = copies(B, e)
  BY <1>1, <1>2, <1>3, RestSame
<1>5. IsBag(bag_of(g))
  BY RestSame, BagOf
<1>6. bag_of(g) = B
  BY <1>2, <1>4, <1>5, SameBag
<1>7. copies(bag_of(f), x) > 0
  <2>1. has(x, x) = 1
    BY DEF has
  <2>. QED
    BY <1>1, <2>1, RestSame
<1>8. x \in DOMAIN bag_of(f)
  BY <1>7 DEF copies
<1>. QED
  BY <1>6, <1>8 DEF B

\* There, x has become y.
Becomes(f, g, p, q, x, y) ==
  /\ \A e : at(f, p, e) + at(f, q, e) + has(e, y) = at(g, p, e) + at(g, q, e) + has(e, x)
  /\ at(f, p, x) + at(f, q, x) >= 1

\* One element x has become y.
LEMMA BagReplaced ==
  ASSUME NEW f, NEW g, NEW p, NEW q, IsFiniteSet(DOMAIN f), DifferAt(f, g, p, q), NEW x, NEW y,
         Becomes(f, g, p, q, x, y)
  PROVE  /\ x \in DOMAIN bag_of(f)
         /\ bag_of(g) = (bag_of(f) (-) SetToBag({x})) (+) SetToBag({y})
<1> DEFINE A == bag_of(f) (-) SetToBag({x})
           B == A (+) SetToBag({y})
<1>1. \A h, r, e : at(h, r, e) \in 0 .. 1
  BY DEF at
<1>2. /\ IsBag(A)
      /\ \A e : copies(A, e) = IF copies(bag_of(f), e) > has(e, x)
                               THEN copies(bag_of(f), e) - has(e, x) ELSE 0
  BY BagOf, OneCopy, MinusCopies
<1> HIDE DEF A
<1>3. IsBag(B) /\ \A e : copies(B, e) = copies(A, e) + has(e, y)
  BY <1>2, OneCopy, PlusCopies
<1>4. \A e, z : has(e, z) \in 0 .. 1 /\ (e = z => has(e, z) = 1) /\ (e # z => has(e, z) = 0)
  BY DEF has
<1> HIDE DEF B
<1>5. copies(bag_of(f), x) > 0
  BY <1>1, RestSame DEF Becomes
<1>6. ASSUME NEW e PROVE copies(bag_of(g), e) = copies(B, e)
  <2>1. has(e, x) = 1 => copies(bag_of(f), e) > 0
    BY <1>4, <1>5
  <2>2. PICK n \in Nat : /\ copies(bag_of(f), e) = n + at(f, p, e) + at(f, q, e)
                         /\ copies(bag_of(g), e) = n + at(g, p, e) + at(g, q, e)
    BY RestSame
  <2>. QED
    BY <1>1, <1>2, <1>3, <1>4, <2>1, <2>2 DEF Becomes
<1>7. IsBag(bag_of(g))
  BY RestSame, BagOf
<1>8. bag_of(g) = B
  BY <1>3, <1>6, <1>7, SameBag
<1>9. x \in DOMAIN bag_of(f)
  BY <1>5 DEF copies
<1>. QED
  BY <1>8, <1>9 DEF B, A

\* There, x and y have become z.
BecomeOne(f, g, p, q, x, y, z) ==
  \A e : /\ at(f, p, e) + at(f, q, e) = has(e, x) + has(e, y)
         /\ at(g, p, e) + at(g, q, e) = has(e, z)

both(x, y) == SetToBag({x}) (+) SetToBag({y})

joined(B, x, y, z) == (B (-) both(x, y)) (+) SetToBag({z})

\* Two elements x and y have become z.
LEMMA BagMerged ==
  ASSUME NEW f, NEW g, NEW p, NEW q, IsFiniteSet(DOMAIN f), DifferAt(f, g, p, q),
         NEW x, NEW y, NEW z, BecomeOne(f, g, p, q, x, y, z)
  PROVE  /\ x \in DOMAIN bag_of(f) /\ y \in DOMAIN bag_of(f)
         /\ both(x, y) \sqsubseteq bag_of(f)
         /\ bag_of(g) = joined(bag_of(f), x, y, z)
<1> DEFINE two == both(x, y)
           A == bag_of(f) (-) two
           B == A (+) SetToBag({z})
<1>1. IsBag(two) /\ \A e : copies(two, e) = has(e, x) + has(e, y)
  BY OneCopy, PlusCopies DEF both
<1> HIDE DEF two
<1>2. /\ IsBag(A)
      /\ \A e : copies(A, e) = IF copies(bag_of(f), e) > copies(two, e)
                               THEN copies(bag_of(f), e) - copies(two, e) ELSE 0
  BY <1>1, BagOf, MinusCopies
<1> HIDE DEF A
<1>3. IsBag(B) /\ \A e : copies(B, e) = copies(A, e) + has(e, z)
  BY <1>2, OneCopy, PlusCopies
<1>4. \A e, w : has(e, w) \in 0 .. 1 /\ (e = w => has(e, w) = 1)
  BY DEF has
<1> HIDE DEF B
<1>5. ASSUME NEW e
      PROVE  copies(bag_of(f), e) >= copies(two, e) /\ copies(bag_of(f), e) \in Nat
  <2>1. PICK n \in Nat : copies(bag_of(f), e) = n + at(f, p, e) + at(f, q, e)
    BY RestSame
  <2>2. at(f, p, e) + at(f, q, e) = copies(two, e) /\ copies(two, e) \in Nat
    BY <1>1, <1>4 DEF BecomeOne
  <2>3. at(f, p, e) \in 0 .. 1 /\ at(f, q, e) \in 0 .. 1
    BY DEF at
  <2>. QED
    BY <2>1, <2>2, <2>3
<1>6. ASSUME NEW e PROVE copies(bag_of(g), e) = copies(B, e)
  <2>1. PICK n \in Nat : /\ copies(bag_of(f), e) = n + at(f, p, e) + at(f, q, e)
                         /\ copies(bag_of(g), e) = n + at(g, p, e) + at(g, q, e)
    BY RestSame
  <2>2. at(f, p, e) \in 0 .. 1 /\ at(f, q, e) \in 0 .. 1
        /\ at(g, p, e) \in 0 .. 1 /\ at(g, q, e) \in 0 .. 1
    BY DEF at
  <2>. QED
    BY <1>1, <1>2, <1>3, <1>4, <2>1, <2>2 DEF BecomeOne
<1>7. IsBag(bag_of(g))
  BY RestSame, BagOf
<1>8. bag_of(g) = B
  BY <1>3, <1>6, <1>7, SameBag
<1>9. copies(two, x) > 0 /\ copies(two, y) > 0
  BY <1>1, <1>4
<1>10. x \in DOMAIN bag_of(f) /\ y \in DOMAIN bag_of(f)
  <2>1. ASSUME NEW e, copies(two, e) > 0 PROVE e \in DOMAIN bag_of(f)
    <3>1. copies(bag_of(f), e) > 0
      BY <1>1, <1>4, <1>5, <2>1
    <3>. QED
      BY <3>1 DEF copies
  <2>. QED
    BY <1>9, <2>1
<1>11. two \sqsubseteq bag_of(f)
  <2>1. ASSUME NEW e \in DOMAIN two PROVE e \in DOMAIN bag_of(f) /\ two[e] <= bag_of(f)[e]
    <3>1. copies(two, e) = two[e] /\ two[e] \in Nat \ {0}
      BY <1>1, <2>1 DEF copies, IsBag
    <3>. QED
      BY <1>5, <3>1 DEF copies
  <2>. QED
    BY <2>1 DEF \sqsubseteq
<1>. QED
  BY <1>8, <1>10, <1>11 DEF B, A, two, joined

-----------------------------------------------------------------------------
(* Which entry is where. *)

view == [p \in Places |-> entry_at(p)]

slot(i, s) == <<"slot", <<i, s>>>>
hand(t) == <<"hand", t>>

\* The entries are those of the places.
LEMMA EntriesOf == Entries = bag_of(view)
<1>1. \A e : fiber(view, e) = {p \in Places : entry_at(p) = e}
  BY DEF fiber, view
<1>2. {view[p] : p \in DOMAIN view} = {entry_at(p) : p \in Places}
  BY DEF view
<1>. QED
  BY <1>1, <1>2 DEF Entries, bag_of

\* After a step, too.
LEMMA EntriesOfNext == Entries' = bag_of(view')
<1>1. \A e : fiber(view', e) = {p \in Places' : entry_at(p)' = e}
  BY DEF fiber, view
<1>2. {view'[p] : p \in DOMAIN view'} = {entry_at(p)' : p \in Places'}
  BY DEF view
<1>. QED
  BY <1>1, <1>2 DEF Entries, bag_of

\* A place is a slot or the hand of a thread.
LEMMA InView ==
  ASSUME NEW p \in DOMAIN view
  PROVE  (\E i \in Buckets, s \in Slots : p = slot(i, s)) \/ (\E t \in Threads : p = hand(t))
BY DEF view, Places, Occupied, slot, hand

\* After a step, too.
LEMMA InViewNext ==
  ASSUME NEW p \in DOMAIN view'
  PROVE  (\E i \in Buckets, s \in Slots : p = slot(i, s)) \/ (\E t \in Threads : p = hand(t))
BY DEF view, Places, Occupied, slot, hand

\* A slot has an entry if it is occupied.
LEMMA SlotInView ==
  ASSUME NEW i \in Buckets, NEW s \in Slots
  PROVE  /\ slot(i, s) \in DOMAIN view <=> buckets[i][s].fp # 0
         /\ slot(i, s) \in DOMAIN view => view[slot(i, s)] = entry(buckets[i][s], i)
BY DEF view, Places, Occupied, occupied, is_empty, slot, entry_at

\* After a step, too.
LEMMA SlotInViewNext ==
  ASSUME NEW i \in Buckets, NEW s \in Slots
  PROVE  /\ slot(i, s) \in DOMAIN view' <=> buckets'[i][s].fp # 0
         /\ slot(i, s) \in DOMAIN view' => view'[slot(i, s)] = entry(buckets'[i][s], i)
BY DEF view, Places, Occupied, occupied, is_empty, slot, entry_at, entry, token, Pair, data_of

\* A hand has one if it moves a block.
LEMMA HandInView ==
  ASSUME NEW t \in Threads
  PROVE  /\ hand(t) \in DOMAIN view <=> Displaced(t)
         /\ hand(t) \in DOMAIN view => view[hand(t)] = entry(frame[t].hand, frame[t].index)
BY DEF view, Places, hand, entry_at

\* After a step, too.
LEMMA HandInViewNext ==
  ASSUME NEW t \in Threads
  PROVE  /\ hand(t) \in DOMAIN view' <=> Displaced(t)'
         /\ hand(t) \in DOMAIN view' => view'[hand(t)] = entry(frame'[t].hand, frame'[t].index)
BY DEF view, Places, hand, entry_at, entry, token, Pair, data_of

\* Slots and hands are places of their own.
LEMMA PlacesApart ==
  /\ \A i, s, j, r : slot(i, s) = slot(j, r) => i = j /\ s = r
  /\ \A t, u : hand(t) = hand(u) => t = u
  /\ \A i, s, t : slot(i, s) # hand(t)
BY DEF slot, hand

\* The places can be counted.
LEMMA ViewFinite ==
  ASSUME IsFiniteSet(Threads)
  PROVE  IsFiniteSet(DOMAIN view)
<1>1. IsFiniteSet({"slot"} \X Occupied)
  BY OccupiedFinite, RowSize
<1>2. IsFiniteSet({t \in Threads : Displaced(t)})
  BY FS_Subset
<1>3. IsFiniteSet({"hand"} \X {t \in Threads : Displaced(t)})
  BY <1>2, RowSize
<1>. QED
  BY <1>1, <1>3, FS_Union DEF view, Places

\* Which entry a block is in bucket i, if it is one.
is_entry(d, i, e) == IF d.fp # 0 /\ entry(d, i) = e THEN 1 ELSE 0

carries(t, e) == IF Displaced(t) THEN is_entry(frame[t].hand, frame[t].index, e) ELSE 0

\* What is in a slot and in a hand.
LEMMA AtPlaces ==
  ASSUME NEW t \in Threads, NEW i \in Buckets, NEW s \in Slots, NEW e
  PROVE  /\ at(view, slot(i, s), e) = is_entry(buckets[i][s], i, e)
         /\ at(view', slot(i, s), e) = is_entry(buckets'[i][s], i, e)
         /\ at(view, hand(t), e) = carries(t, e)
         /\ at(view', hand(t), e) = carries(t, e)'
<1>1. at(view, slot(i, s), e) = is_entry(buckets[i][s], i, e)
  BY SlotInView DEF at, is_entry
<1>2. at(view', slot(i, s), e) = is_entry(buckets'[i][s], i, e)
  BY SlotInViewNext DEF at, is_entry
<1>3. at(view, hand(t), e) = carries(t, e)
  BY HandInView DEF at, is_entry, carries, Displaced
<1>4. at(view', hand(t), e) = carries(t, e)'
  <2>1. Displaced(t)' => frame'[t].hand.fp # 0
    BY DEF Displaced
  <2>2. carries(t, e)' = IF Displaced(t)' THEN is_entry(frame'[t].hand, frame'[t].index, e) ELSE 0
    BY DEF carries, is_entry, entry, token, Pair, data_of
  <2>. QED
    BY <2>1, <2>2, HandInViewNext DEF at, is_entry
<1>. QED
  BY <1>1, <1>2, <1>3, <1>4

\* A step of thread t that writes one slot at most.
WritesSlot(t, i, s) ==
  \A j \in Buckets, r \in Slots : <<j, r>> # <<i, s>> => buckets'[j][r] = buckets[j][r]

\* It leaves all other places as they are.
LEMMA StepDiffers ==
  ASSUME Shapes, NEW t \in Threads, Begin(t) \/ Continue(t), NEW i \in Buckets, NEW s \in Slots,
         WritesSlot(t, i, s)
  PROVE  DifferAt(view, view', slot(i, s), hand(t))
<1>1. slot(i, s) # hand(t)
  BY PlacesApart
<1>2. ASSUME NEW p, p \notin {slot(i, s), hand(t)}, p \in DOMAIN view \/ p \in DOMAIN view'
      PROVE  /\ p \in DOMAIN view <=> p \in DOMAIN view'
             /\ p \in DOMAIN view => view[p] = view'[p]
  <2>1. CASE \E j \in Buckets, r \in Slots : p = slot(j, r)
    <3>1. PICK j \in Buckets, r \in Slots : p = slot(j, r)
      BY <2>1
    <3>2. buckets'[j][r] = buckets[j][r]
      BY <1>2, <3>1 DEF WritesSlot
    <3>. QED
      BY <3>1, <3>2, SlotInView, SlotInViewNext
  <2>2. CASE \E u \in Threads : p = hand(u)
    <3>1. PICK u \in Threads : p = hand(u)
      BY <2>2
    <3>2. pc'[u] = pc[u] /\ frame'[u] = frame[u]
      BY <1>2, <3>1, OthersUnchanged
    <3>3. Displaced(u)' <=> Displaced(u)
      BY <3>2 DEF Displaced, new_item
    <3>. QED
      BY <3>1, <3>2, <3>3, HandInView, HandInViewNext
  <2>. QED
    BY <1>2, <2>1, <2>2, InView, InViewNext
<1>. QED
  BY <1>1, <1>2 DEF DifferAt

-----------------------------------------------------------------------------
(* What becomes of the data of a block. *)

\* The data of a new block do not depend on its fingerprint (data_block.rs, new).
LEMMA NewData ==
  ASSUME NEW fp \in Fingerprint, NEW values \in InsertArgs
  PROVE  data_of(new_data_block(fp, values)) \in fresh
<1>1. values \in InsertValues /\ FpMask \in Fingerprint
  BY ArgumentsAreValues, Masks DEF Fingerprint
<1>2. ASSUME NEW x \in Fingerprint
      PROVE  data_of(new_data_block(x, values)) =
               [lru |-> saturate(LruMask, LruStartingValue),
                ttl |-> store_bits(TtlMask, unwrap_or(values.ttl, TtlDefault)),
                counter |-> saturate(CounterMask, saturating_add_signed(0,
                              unwrap_or(values.counter, ChangeOnInsert)))]
  BY DEF new_data_block, data_of, set_ttl, update_counter, init_lru_counter, ResetBlock
<1>. QED
  BY <1>1, <1>2 DEF fresh

\* A lookup uses the data as its caller asked (data_block.rs).
LEMMA TouchData ==
  ASSUME NEW d \in DataBlocks, NEW update \in LookupValues
  PROVE  data_of(touch(d, update)) = Set!Used(data_of(d), use(update))
<1> DEFINE by == unwrap_or(update.counter_diff, ChangeOnLookup)
           counted == saturate(CounterMask, saturating_add_signed(d.counter, by))
           timed == IF update.ttl = None THEN d.ttl ELSE store_bits(TtlMask, update.ttl)
           used == saturate(LruMask, saturating_add(d.lru, LruIncrement))
<1>1. data_of(touch(d, update)) = [lru |-> used, ttl |-> timed, counter |-> counted]
  <2>1. ASSUME NEW f, NEW l, NEW n, NEW c, d = [fp |-> f, lru |-> l, ttl |-> n, counter |-> c]
        PROVE  data_of(touch(d, update)) = [lru |-> used, ttl |-> timed, counter |-> counted]
    BY <2>1 DEF touch, data_of, set_ttl, update_counter, inc_lru_counter
  <2>2. d = [fp |-> d.fp, lru |-> d.lru, ttl |-> d.ttl, counter |-> d.counter]
    BY DEF DataBlocks
  <2>. QED
    BY <2>1, <2>2
<1>2. /\ d.lru \in Nat /\ d.counter \in Nat /\ LruMask \in Nat /\ CounterMask \in Nat
      /\ LruMask <= U32Max /\ CounterMask <= U32Max /\ U32Max \in Nat /\ LruIncrement \in Nat
  BY Masks, ConstantsAreU32 DEF DataBlocks, U32
<1>3. by \in Int
  BY ConstantsAreU32 DEF LookupValues, unwrap_or, I32
<1> HIDE DEF by
<1>4. used = Set!Lesser(d.lru + LruIncrement, LruMask)
  BY <1>2 DEF saturate, saturating_add, Set!Lesser
<1>5. counted = Set!Lesser(Set!Greater(d.counter + by, 0), CounterMask)
  BY <1>2, <1>3 DEF saturate, saturating_add_signed, Set!Lesser, Set!Greater
<1>6. timed = IF use(update).ttl = None THEN d.ttl ELSE use(update).ttl
  <2>1. update.ttl # None => store_bits(TtlMask, update.ttl) \in Int
    BY Masks DEF LookupValues, store_bits, U32
  <2>. QED
    BY <2>1, NoneIsNotANumber DEF use
<1>7. use(update).by = by
  BY DEF use, by
<1> HIDE DEF used, counted, timed
<1>. QED
  BY <1>1, <1>4, <1>5, <1>6, <1>7 DEF Set!Used, data_of

\* A merge combines the data of two blocks (data_block.rs, merge_associated_from).
LEMMA MergeData ==
  ASSUME NEW d \in DataBlocks, NEW other \in DataBlocks
  PROVE  data_of(merge_associated_from(d, other)) = Set!Combined(data_of(d), data_of(other))
<1>1. /\ \A x, y \in Nat : x <= LruMask /\ y <= LruMask
           => saturate(LruMask, saturating_add(x, y)) = Set!Lesser(x + y, LruMask)
      /\ \A x, y \in Nat : x <= CounterMask /\ y <= CounterMask
           => saturate(CounterMask, saturating_add(x, y)) = Set!Lesser(x + y, CounterMask)
  BY ConstantsAreU32 DEF saturate, saturating_add, Set!Lesser, U32
<1>2. \A x, y \in Nat : (IF y > x THEN y ELSE x) = Set!Greater(x, y)
  BY DEF Set!Greater
<1>3. /\ d.lru \in 0 .. LruMask /\ other.lru \in 0 .. LruMask
      /\ d.counter \in 0 .. CounterMask /\ other.counter \in 0 .. CounterMask
      /\ d.ttl \in Nat /\ other.ttl \in Nat
  BY Masks DEF DataBlocks
<1>4. LruMask \in Nat /\ CounterMask \in Nat
  BY Masks
<1>5. /\ saturate(LruMask, saturating_add(d.lru, other.lru))
           = Set!Lesser(d.lru + other.lru, LruMask)
      /\ saturate(CounterMask, saturating_add(d.counter, other.counter))
           = Set!Lesser(d.counter + other.counter, CounterMask)
      /\ (IF other.ttl > d.ttl THEN other.ttl ELSE d.ttl) = Set!Greater(d.ttl, other.ttl)
  BY <1>1, <1>2, <1>3, <1>4
<1>6. data_of(merge_associated_from(d, other)) =
        [lru |-> saturate(LruMask, saturating_add(d.lru, other.lru)),
         ttl |-> IF other.ttl > d.ttl THEN other.ttl ELSE d.ttl,
         counter |-> saturate(CounterMask, saturating_add(d.counter, other.counter))]
  BY DEF merge_associated_from, data_of, DataBlocks
<1>. QED
  BY <1>5, <1>6 DEF data_of, Set!Combined

\* A scan of one block.
aged_block(api, d) ==
  LET used == IF ages_lru(api) THEN age_lru_counter(d) ELSE d
  IN  IF ages_ttl(api) /\ occupied(used) THEN age_ttl_counter(used) ELSE used

\* A block ages as its entry does (bucket.rs, age_lru_counters, age_ttl_counters).
LEMMA AgedData ==
  ASSUME NEW api, NEW d \in DataBlocks, d.fp # 0
  PROVE  LET new == aged_block(api, d)
         IN  /\ new.fp # 0 <=> ~Set!Spent(ages(api), data_of(d))
             /\ new.fp # 0 => new.fp = d.fp /\ data_of(new) = Set!Aged(ages(api), data_of(d))
<1> DEFINE used == IF ages_lru(api) THEN age_lru_counter(d) ELSE d
           new  == aged_block(api, d)
           lru  == IF ages_lru(api) THEN Set!Decayed(d.lru) ELSE d.lru
           gone == ages_lru(api) /\ LruRemoveOnZero /\ d.lru = 0
<1>1. /\ d = [fp |-> d.fp, lru |-> d.lru, ttl |-> d.ttl, counter |-> d.counter]
      /\ d.lru \in 0 .. LruMask /\ d.ttl \in Nat /\ LruMask \in Nat
  BY Masks DEF DataBlocks
<1>2. store_bits(LruMask, age_value(d.lru)) = Set!Decayed(d.lru)
  <2>1. age_value(d.lru) = Set!Decayed(d.lru) /\ age_value(d.lru) \in 0 .. LruMask
    BY <1>1, ConstantsAreU32 DEF age_value, saturating_sub, Set!Decayed, Set!Greater, U32
  <2>. QED
    BY <1>1, <2>1 DEF store_bits
<1>3. /\ gone => used.fp = 0
      /\ ~gone => used = [fp |-> d.fp, lru |-> lru, ttl |-> d.ttl, counter |-> d.counter]
  BY <1>1, <1>2 DEF age_lru_counter, ResetBlock
<1>4. new = IF ages_ttl(api) /\ used.fp # 0 THEN age_ttl_counter(used) ELSE used
  BY DEF aged_block, occupied, is_empty
<1>5. Set!Spent(ages(api), data_of(d)) <=> gone \/ (ages_ttl(api) /\ d.ttl <= 1)
  BY DEF Set!Spent, ages, data_of
<1>6. Set!Aged(ages(api), data_of(d)) =
        [lru |-> lru, ttl |-> IF ages_ttl(api) THEN d.ttl - 1 ELSE d.ttl, counter |-> d.counter]
  BY DEF Set!Aged, ages, data_of
<1> HIDE DEF used, lru, gone, new
<1>7. CASE gone
  BY <1>3, <1>4, <1>5, <1>7 DEF new
<1>8. CASE ~gone /\ ~ages_ttl(api)
  BY <1>3, <1>4, <1>5, <1>6, <1>8 DEF new, data_of
<1>9. CASE ~gone /\ ages_ttl(api)
  <2>1. new = IF d.ttl <= 1 THEN ResetBlock
              ELSE [fp |-> d.fp, lru |-> lru, ttl |-> d.ttl - 1, counter |-> d.counter]
    BY <1>1, <1>3, <1>4, <1>9 DEF age_ttl_counter, saturating_sub
  <2>. QED
    BY <1>1, <1>5, <1>6, <1>9, <2>1 DEF new, data_of, ResetBlock
<1>. QED
  BY <1>7, <1>8, <1>9

-----------------------------------------------------------------------------
(* What a call relies on while it runs: it has returned nothing yet, no     *)
(* kick is counted before the first, and the kicks of a new item start at a *)
(* bucket of its key.                                                       *)

KicksForKey(t) ==
  pc[t] = "kick" /\ new_item(t) /\ frame[t].hand.fp # 0 =>
    frame[t].hand.fp = frame[t].fp
      /\ token(frame[t].fp, frame[t].index) = token(frame[t].fp, frame[t].home)

CallInv(t) ==
  /\ pc[t] # "idle" => ret[t] = Pending
  /\ KicksUncounted(t)
  /\ KicksForKey(t)

AllCallInv == StateOK /\ \A t \in Threads : CallInv(t)

\* A call that begins has returned nothing (filter.rs, public methods).
LEMMA BeginAnswer ==
  ASSUME Shapes, NEW t \in Threads, Begin(t)
  PROVE  \/ ret' = [ret EXCEPT ![t] = Pending]
         \/ \E n : ret' = [ret EXCEPT ![t] = Count(n)] /\ pc'[t] = "idle"
<1>1. ASSUME NEW api, NEW section, NEW locals, Call(t, api, section, locals)
      PROVE  ret' = [ret EXCEPT ![t] = Pending]
  BY <1>1 DEF Call
<1>2. ASSUME NEW n, Return(t, Count(n))
      PROVE  ret' = [ret EXCEPT ![t] = Count(n)] /\ pc'[t] = "idle"
  BY <1>2 DEF Return, Goto, Shapes
<1>3. CASE CallScan(t)
  BY <1>1, <1>2, <1>3 DEF CallScan, ScanPartition
<1>4. CASE GetItemCount(t)
  BY <1>2, <1>4 DEF GetItemCount
<1>. QED
  BY <1>1, <1>3, <1>4 DEF Begin, CallInsert, CallInsertIfNotPresent, CallContains,
       CallGetAssociatedData, CallRemove

\* It has made no kick.
LEMMA CallInvBegin ==
  ASSUME Shapes, NEW t \in Threads, Begin(t)
  PROVE  CallInv(t)'
<1>1. pc'[t] # "idle" => ret'[t] = Pending
  BY BeginAnswer DEF Shapes
<1>2. CASE BeginsInsertion(t)
  BY <1>1, <1>2 DEF BeginsInsertion, CallInv, KicksUncounted, KicksForKey, CalledWith
<1>3. CASE BeginsKeyed(t)
  BY <1>1, <1>3 DEF BeginsKeyed, CallInv, KicksUncounted, KicksForKey, CalledWith
<1>4. CASE BeginsUnkeyed(t)
  BY <1>1, <1>4 DEF BeginsUnkeyed, CallInv, KicksUncounted, KicksForKey
<1>. QED
  BY <1>2, <1>3, <1>4, BeginForms

\* A section that does not end the call returns nothing.
LEMMA ContinueAnswer ==
  ASSUME Shapes, NEW t \in Threads, Continue(t), pc'[t] # "idle"
  PROVE  ret' = ret /\ pc[t] # "idle"
<1>1. ASSUME NEW answer, Return(t, answer)
      PROVE  FALSE
  BY <1>1 DEF Return, Goto, Shapes
<1>. QED
  BY <1>1 DEF Continue, LookFirst, LookSecond, Hit, InsertFirst, InsertSecond, Land, Kick, Place,
       CountAdd, RemoveFirst, RemoveSecond, Clear, Scan, CountSub

\* The call keeps to it.
LEMMA CallInvContinue ==
  ASSUME Shapes, NEW t \in Threads, CallInv(t), NewItemAtHome(t), Continue(t)
  PROVE  CallInv(t)'
<1>1. pc'[t] # "idle" => ret'[t] = Pending
  BY ContinueAnswer DEF CallInv
<1>2. CASE pc'[t] \in {"idle", "count_add", "count_sub", "scan"}
  BY <1>1, <1>2 DEF CallInv, KicksUncounted, KicksForKey
<1>3. CASE GoesToNext(t)
  BY <1>1, <1>3 DEF GoesToNext, CallInv, KicksUncounted, KicksForKey
<1>4. CASE StartsToKick(t)
  <2>1. KicksForKey(t)'
    <3>1. SUFFICES ASSUME frame[t].hand.fp # 0
                   PROVE  /\ frame'[t].hand.fp = frame'[t].fp
                          /\ token(frame'[t].fp, frame'[t].index)
                               = token(frame'[t].fp, frame'[t].home)
      BY <1>4 DEF StartsToKick, KicksForKey, token, Pair
    <3>2. frame[t].hand.fp = frame[t].fp
      BY <1>4, <3>1 DEF StartsToKick, NewItemAtHome
    <3>3. token(frame[t].fp, second(t)) = token(frame[t].fp, frame[t].home)
      BY LocalTypes, TokenOther DEF second
    <3>. QED
      BY <1>4, <3>2, <3>3 DEF StartsToKick, SameKey
  <2>. QED
    BY <1>1, <1>4, <2>1 DEF StartsToKick, CallInv, KicksUncounted
<1>5. CASE TakesOut(t)
  BY <1>1, <1>5 DEF TakesOut, CallInv, KicksUncounted, KicksForKey
<1>6. CASE KicksOn(t)
  <2>1. frame[t].kicks \in Nat
    BY LocalTypes, FilterConstants
  <2>2. frame'[t].kicks # 0 /\ pc'[t] = "kick"
    BY <1>6, <2>1 DEF KicksOn
  <2>. QED
    BY <1>1, <2>2 DEF CallInv, KicksUncounted, KicksForKey, new_item
<1>. QED
  BY <1>2, <1>3, <1>4, <1>5, <1>6, ContinueForms

\* Whatever the other threads do.
LEMMA CallInvStep == FindableInv /\ AllCallInv /\ [Next]_vars => AllCallInv'
<1> SUFFICES ASSUME FindableInv, AllCallInv, [Next]_vars PROVE AllCallInv'
  OBVIOUS
<1>1. StateOK'
  BY StateOKStep DEF AllCallInv
<1>2. ASSUME NEW u \in Threads, pc'[u] = pc[u], frame'[u] = frame[u], ret'[u] = ret[u]
      PROVE  CallInv(u)'
  BY <1>2 DEF AllCallInv, CallInv, KicksUncounted, KicksForKey, new_item, token, Pair
<1>3. CASE UNCHANGED vars
  BY <1>1, <1>2, <1>3 DEF AllCallInv, vars
<1>4. ASSUME NEW t \in Threads, Begin(t) \/ Continue(t), NEW u \in Threads
      PROVE  CallInv(u)'
  <2>1. CASE u = t
    BY <1>4, <2>1, CallInvBegin, CallInvContinue DEF AllCallInv, StateOK, FindableInv
  <2>2. CASE u # t
    BY <1>2, <1>4, <2>2, OthersUnchanged DEF AllCallInv, StateOK
  <2>. QED
    BY <2>1, <2>2
<1>. QED
  BY <1>1, <1>3, <1>4 DEF AllCallInv, Next

\* It holds before the first call.
LEMMA CallInvInit == Init => AllCallInv
BY InitShapes DEF Init, AllCallInv, StateOK, LookupLocals, CallInv, KicksUncounted, KicksForKey

-----------------------------------------------------------------------------
(* What becomes of the entries when a thread writes one slot, or none.      *)

\* Nothing, if the slot and the hand hold the same as before, together.
LEMMA EntriesKept ==
  ASSUME IsFiniteSet(Threads), Shapes, NEW t \in Threads, Begin(t) \/ Continue(t),
         NEW i \in Buckets, NEW s \in Slots, WritesSlot(t, i, s),
         \A e : is_entry(buckets[i][s], i, e) + carries(t, e)
                  = is_entry(buckets'[i][s], i, e) + carries(t, e)'
  PROVE  Entries' = Entries
<1>1. DifferAt(view, view', slot(i, s), hand(t)) /\ IsFiniteSet(DOMAIN view)
  BY StepDiffers, ViewFinite
<1>2. ASSUME NEW e
      PROVE  at(view, slot(i, s), e) + at(view, hand(t), e)
               = at(view', slot(i, s), e) + at(view', hand(t), e)
  BY AtPlaces
<1>3. bag_of(view') = bag_of(view)
  BY <1>1, <1>2, BagKept
<1>. QED
  BY <1>3, EntriesOf, EntriesOfNext

\* One entry more.
LEMMA EntryPut ==
  ASSUME IsFiniteSet(Threads), Shapes, NEW t \in Threads, Begin(t) \/ Continue(t),
         NEW i \in Buckets, NEW s \in Slots, WritesSlot(t, i, s), NEW x,
         \A e : is_entry(buckets'[i][s], i, e) + carries(t, e)'
                  = is_entry(buckets[i][s], i, e) + carries(t, e) + has(e, x)
  PROVE  Entries' = Entries (+) SetToBag({x})
<1>1. DifferAt(view, view', slot(i, s), hand(t)) /\ IsFiniteSet(DOMAIN view)
  BY StepDiffers, ViewFinite
<1>2. ASSUME NEW e
      PROVE  at(view', slot(i, s), e) + at(view', hand(t), e)
               = at(view, slot(i, s), e) + at(view, hand(t), e) + has(e, x)
  BY AtPlaces
<1>3. bag_of(view') = bag_of(view) (+) SetToBag({x})
  BY <1>1, <1>2, BagPut
<1>. QED
  BY <1>3, EntriesOf, EntriesOfNext

\* One entry less.
LEMMA EntryTaken ==
  ASSUME IsFiniteSet(Threads), Shapes, NEW t \in Threads, Begin(t) \/ Continue(t),
         NEW i \in Buckets, NEW s \in Slots, WritesSlot(t, i, s), NEW x,
         \A e : is_entry(buckets[i][s], i, e) + carries(t, e)
                  = is_entry(buckets'[i][s], i, e) + carries(t, e)' + has(e, x)
  PROVE  x \in DOMAIN Entries /\ Entries' = Entries (-) SetToBag({x})
<1>1. DifferAt(view, view', slot(i, s), hand(t)) /\ IsFiniteSet(DOMAIN view)
  BY StepDiffers, ViewFinite
<1>2. ASSUME NEW e
      PROVE  at(view, slot(i, s), e) + at(view, hand(t), e)
               = at(view', slot(i, s), e) + at(view', hand(t), e) + has(e, x)
  BY AtPlaces
<1>3. x \in DOMAIN bag_of(view) /\ bag_of(view') = bag_of(view) (-) SetToBag({x})
  BY <1>1, <1>2, BagTaken
<1>. QED
  BY <1>3, EntriesOf, EntriesOfNext

\* One entry for another.
LEMMA EntryReplaced ==
  ASSUME IsFiniteSet(Threads), Shapes, NEW t \in Threads, Begin(t) \/ Continue(t),
         NEW i \in Buckets, NEW s \in Slots, WritesSlot(t, i, s), NEW x, NEW y,
         \A e : is_entry(buckets[i][s], i, e) + carries(t, e) + has(e, y)
                  = is_entry(buckets'[i][s], i, e) + carries(t, e)' + has(e, x),
         is_entry(buckets[i][s], i, x) = 1
  PROVE  /\ x \in DOMAIN Entries
         /\ Entries' = (Entries (-) SetToBag({x})) (+) SetToBag({y})
<1>1. DifferAt(view, view', slot(i, s), hand(t)) /\ IsFiniteSet(DOMAIN view)
  BY StepDiffers, ViewFinite
<1>2. ASSUME NEW e
      PROVE  at(view, slot(i, s), e) + at(view, hand(t), e) + has(e, y)
               = at(view', slot(i, s), e) + at(view', hand(t), e) + has(e, x)
  BY AtPlaces
<1>3. at(view, slot(i, s), x) + at(view, hand(t), x) >= 1
  <2> DEFINE a == at(view, slot(i, s), x)
             b == at(view, hand(t), x)
  <2>1. a = 1 /\ b \in 0 .. 1
    BY AtPlaces DEF at
  <2> HIDE DEF a, b
  <2>2. a + b >= 1
    BY <2>1
  <2>. QED
    BY <2>2 DEF a, b
<1>4. Becomes(view, view', slot(i, s), hand(t), x, y)
  BY <1>2, <1>3 DEF Becomes
<1>5. /\ x \in DOMAIN bag_of(view)
      /\ bag_of(view') = (bag_of(view) (-) SetToBag({x})) (+) SetToBag({y})
  BY <1>1, <1>4, BagReplaced
<1>. QED
  BY <1>5, EntriesOf, EntriesOfNext

\* One entry for two.
LEMMA EntriesMerged ==
  ASSUME IsFiniteSet(Threads), Shapes, NEW t \in Threads, Begin(t) \/ Continue(t),
         NEW i \in Buckets, NEW s \in Slots, WritesSlot(t, i, s), NEW x, NEW y, NEW z,
         \A e : is_entry(buckets[i][s], i, e) + carries(t, e) = has(e, x) + has(e, y),
         \A e : is_entry(buckets'[i][s], i, e) + carries(t, e)' = has(e, z)
  PROVE  /\ x \in DOMAIN Entries /\ y \in DOMAIN Entries
         /\ both(x, y) \sqsubseteq Entries
         /\ Entries' = joined(Entries, x, y, z)
<1>1. DifferAt(view, view', slot(i, s), hand(t)) /\ IsFiniteSet(DOMAIN view)
  BY StepDiffers, ViewFinite
<1>2. ASSUME NEW e
      PROVE  at(view, slot(i, s), e) + at(view, hand(t), e) = has(e, x) + has(e, y)
  BY AtPlaces
<1>3. ASSUME NEW e
      PROVE  at(view', slot(i, s), e) + at(view', hand(t), e) = has(e, z)
  BY AtPlaces
<1>4. BecomeOne(view, view', slot(i, s), hand(t), x, y, z)
  BY <1>2, <1>3 DEF BecomeOne
<1>5. /\ x \in DOMAIN bag_of(view) /\ y \in DOMAIN bag_of(view)
      /\ both(x, y) \sqsubseteq bag_of(view)
      /\ bag_of(view') = joined(bag_of(view), x, y, z)
  BY <1>1, <1>4, BagMerged
<1>6. Entries = bag_of(view) /\ Entries' = bag_of(view')
  BY EntriesOf, EntriesOfNext
<1>. QED
  BY <1>5, <1>6

\* A hand has no entry unless it moves a block.
LEMMA NothingCarried ==
  ASSUME NEW t \in Threads, NEW e
  PROVE  /\ ~Displaced(t) => carries(t, e) = 0
         /\ pc[t] \notin {"kick", "place"} => carries(t, e) = 0
         /\ pc'[t] \notin {"kick", "place"} => carries(t, e)' = 0
BY DEF carries, Displaced

\* A step that changes no bucket leaves the entries as they are, if the hand of
\* its thread carries the same as before.
LEMMA EntriesUntouched ==
  ASSUME IsFiniteSet(Threads), Shapes, NEW t \in Threads, Begin(t) \/ Continue(t),
         UNCHANGED buckets, \A e : carries(t, e)' = carries(t, e)
  PROVE  Entries' = Entries
<1>1. {} \in Buckets /\ 0 \in Slots
  BY SlotNumbers DEF Buckets
<1>2. WritesSlot(t, {}, 0)
  BY DEF WritesSlot
<1>3. \A e : is_entry(buckets[{}][0], {}, e) + carries(t, e)
               = is_entry(buckets'[{}][0], {}, e) + carries(t, e)'
  BY DEF is_entry
<1>. QED
  BY <1>1, <1>2, <1>3, EntriesKept

-----------------------------------------------------------------------------
(* What the threads have reported as evicted. *)

reported(answer) ==
  IF answer \in [evicted : Fingerprint \ {0}] THEN answer.evicted ELSE None

\* Only the eviction of a fingerprint is reported.
LEMMA ReportedAnswers ==
  /\ reported(Pending) = None
  /\ \A x : reported(Present(x)) = None /\ reported(Data(x)) = None /\ reported(Count(x)) = None
  /\ reported(Evicted(None)) = None /\ reported(Evicted(0)) = None
  /\ \A fp \in Fingerprint \ {0} : reported(Evicted(fp)) = fp
<1>1. None \notin Fingerprint
  BY NoneIsNotANumber DEF Fingerprint
<1>. QED
  BY <1>1 DEF reported, Pending, Present, Data, Count, Evicted

\* What every thread reports.
LEMMA ReportsOf ==
  /\ Reports = [u \in Threads |-> reported(ret[u])]
  /\ Reports' = [u \in Threads |-> reported(ret'[u])]
BY DEF Reports, reported

\* An answer is the report of its thread.
LEMMA ReportOfAnswer ==
  ASSUME Shapes, NEW t \in Threads, NEW answer, ret' = [ret EXCEPT ![t] = answer]
  PROVE  /\ Reports' = [Reports EXCEPT ![t] = reported(answer)]
         /\ reported(ret[t]) = reported(answer) => Reports' = Reports
<1>1. \A u \in Threads : reported(ret'[u]) = IF u = t THEN reported(answer) ELSE reported(ret[u])
  BY DEF Shapes
<1>. QED
  BY <1>1, ReportsOf

\* A call that ends without an eviction reports nothing.
LEMMA QuietReturn ==
  ASSUME Shapes, NEW t \in Threads, ret[t] = Pending, NEW answer, reported(answer) = None,
         Return(t, answer)
  PROVE  Reports' = Reports
BY ReportOfAnswer, ReportedAnswers DEF Return

\* So does a step that answers no call.
LEMMA QuietReport == UNCHANGED ret => Reports' = Reports
BY ReportsOf

-----------------------------------------------------------------------------
(* What the threads still have to do. *)

\* It can be told from the section.
LEMMA CallForms ==
  ASSUME NEW f
  PROVE  LET item == token(f.fp, f.home)
         IN  /\ \A section \in {"look_i1", "look_i2"} :
                  call(section, f) = IF f.api = "insert_if_not_present"
                                     THEN Set!Ensuring(item, data_of(f.hand), use(f.update))
                                     ELSE Set!Looking(item, use(f.update))
             /\ \A section \in {"insert_i1", "insert_i2"} :
                  call(section, f) = Set!Inserting(item, data_of(f.hand))
             /\ call("kick", f) = IF f.kicks = 0 THEN Set!Inserting(item, data_of(f.hand))
                                                 ELSE Set!Settling
             /\ call("place", f) = Set!Settling
             /\ \A section \in {"remove_i1", "remove_i2"} :
                  call(section, f) = Set!Removing(item)
             /\ call("scan", f) = Set!Scanning(ages(f.api))
             /\ \A section \in {"idle", "count_add", "count_sub"} : call(section, f) = Set!Idle
BY DEF call, Set!Ensuring, Set!Looking, Set!Inserting, Set!Settling, Set!Removing,
       Set!Scanning, Set!Idle

\* What a call of CuckooSet has to do, and with what.
LEMMA CallParts ==
  /\ \A x, u : LET c == Set!Looking(x, u) IN c.op = "look" /\ c.item = x /\ c.use = u
  /\ \A x, d, u : LET c == Set!Ensuring(x, d, u)
                  IN  c.op = "ensure" /\ c.item = x /\ c.data = d /\ c.use = u
  /\ \A x, d : LET c == Set!Inserting(x, d) IN c.op = "insert" /\ c.item = x /\ c.data = d
  /\ Set!Settling.op = "settle"
  /\ \A x : LET c == Set!Removing(x) IN c.op = "remove" /\ c.item = x
  /\ \A s : LET c == Set!Scanning(s) IN c.op = "scan" /\ c.scan = s
BY DEF Set!Ensuring, Set!Looking, Set!Inserting, Set!Settling, Set!Removing, Set!Scanning

\* A step of a thread changes its own call at most.
LEMMA CallsOf ==
  ASSUME Shapes, NEW t \in Threads, Begin(t) \/ Continue(t)
  PROVE  /\ Calls[t] = call(pc[t], frame[t])
         /\ \A c : c = call(pc'[t], frame'[t]) =>
              Set!Becomes(t, c) /\ (c = Calls[t] => Calls' = Calls)
<1>1. Calls' = [u \in Threads |-> call(pc'[u], frame'[u])]
  BY DEF Calls
<1>2. \A u \in Threads \ {t} : pc'[u] = pc[u] /\ frame'[u] = frame[u]
  BY OthersUnchanged
<1>3. Calls' = [Calls EXCEPT ![t] = call(pc'[t], frame'[t])]
  BY <1>1, <1>2 DEF Calls
<1>. QED
  BY <1>3 DEF Calls, Set!Becomes

-----------------------------------------------------------------------------
(* What each section does to the bag of entries. *)

SetInv ==
  FindableInv /\ (\A t \in Threads : CountInv(t)) /\ (\A t \in Threads : CallInv(t))

\* An entry counts where its block is.
LEMMA IsEntry ==
  ASSUME NEW d, NEW i, NEW e
  PROVE  is_entry(d, i, e) = IF d.fp # 0 THEN has(e, entry(d, i)) ELSE 0
BY DEF is_entry, has

\* A new item in hand is the one the call was made for, at every index it is tried
\* at before its first kick.
LEMMA NewItemOfCall ==
  ASSUME SetInv, NEW t \in Threads, NEW i,
         \/ pc[t] \in {"insert_i1", "insert_i2"} /\ i \in {frame[t].home, second(t)}
         \/ pc[t] = "kick" /\ new_item(t) /\ i = frame[t].index
  PROVE  /\ frame[t].hand.fp # 0
         /\ token(frame[t].hand.fp, i) = token(frame[t].fp, frame[t].home)
<1>1. frame[t].hand.fp # 0
  BY DEF SetInv, CountInv
<1>2. frame[t].fp \in Fingerprint /\ frame[t].home \in Buckets
  BY LocalTypes DEF SetInv, FindableInv, StateOK
<1>3. CASE pc[t] = "kick"
  BY <1>1, <1>3 DEF SetInv, CallInv, KicksForKey
<1>4. CASE pc[t] \in {"insert_i1", "insert_i2"}
  <2>1. frame[t].hand.fp = frame[t].fp
    BY <1>1, <1>4 DEF SetInv, FindableInv, NewItemAtHome
  <2>. QED
    BY <1>1, <1>2, <1>4, <2>1, TokenOther DEF second
<1>. QED
  BY <1>1, <1>3, <1>4

\* Entries of a bag.
LEMMA EntryParts ==
  ASSUME NEW d, NEW i
  PROVE  /\ entry(d, i).item = token(d.fp, i) /\ entry(d, i).data = data_of(d)
         /\ entry(d, i).item[1] = d.fp
         /\ \A x, data : Set!Entry(x, data) = [item |-> x, data |-> data]
BY DEF entry, token, Set!Entry

\* The bags of CuckooSet are those of the filter.
LEMMA SetBags ==
  /\ \A A, B : Set!(+)(A, B) = A (+) B
  /\ \A A, B : Set!(-)(A, B) = A (-) B
  /\ \A A, B : Set!\sqsubseteq(A, B) <=> A \sqsubseteq B
  /\ \A e : Set!One(e) = SetToBag({e})
  /\ \A B : Set!BagToSet(B) = DOMAIN B
BY DEF Set!One, Set!BagToSet, Set!SetToBag, Set!(+), Set!(-), Set!\sqsubseteq, \sqsubseteq,
       SetToBag, (+), (-)

\* A lookup that hits uses one entry of its item (filter.rs, contains and
\* get_associated_data); for the fingerprint of an empty slot it misses all entries.
LEMMA HitLooksUp ==
  ASSUME IsFiniteSet(Threads), SetInv, NEW t \in Threads, Continue(t),
         pc[t] \in {"look_i1", "look_i2"}, NEW i \in {frame[t].home, second(t)}, Hit(t, i)
  PROVE  Set!Lookup(t) \/ Set!Miss(t)
<1> DEFINE f   == frame[t]
           b   == buckets[i]
           s   == first(holding(b, f.fp))
           new == touch(b[s], f.update)
<1>1. /\ Shapes /\ i \in Buckets /\ b \in BucketStates /\ f.update \in LookupValues
      /\ ret[t] = Pending /\ f.api \in LookupApis /\ contains(b, f.fp)
      /\ f.fp \in Fingerprint /\ f.home \in Buckets
  BY BucketOf, LocalTypes DEF SetInv, FindableInv, StateOK, LookupLocals, CallInv, Hit
<1>2. s \in Slots /\ b[s] \in DataBlocks /\ b[s].fp = f.fp
  <2>1. s \in holding(b, f.fp)
    BY <1>1, FirstSlot DEF contains, holding
  <2>. QED
    BY <1>1, <2>1, BlockOf DEF holding
<1>3. buckets' = [buckets EXCEPT ![i] = [b EXCEPT ![s] = new]]
  BY DEF Hit, look_up
<1>4. new.fp = b[s].fp /\ data_of(new) = Set!Used(data_of(b[s]), use(f.update))
  BY <1>1, <1>2, TouchType, TouchData
<1>5. Reports' = Reports /\ pc'[t] = "idle"
  <2>1. PICK d : Return(t, found(f.api, d))
    BY DEF Hit
  <2>2. reported(found(f.api, d)) = None
    BY <1>1, ReportedAnswers DEF found, LookupApis
  <2>. QED
    BY <1>1, <2>1, <2>2, QuietReturn DEF Return, Goto, Shapes
<1>6. \A e : carries(t, e) = 0 /\ carries(t, e)' = 0
  BY <1>5, NothingCarried
<1> HIDE DEF new, s
<1> DEFINE c == Calls[t]
<1>10. /\ c.item = token(f.fp, f.home) /\ c.use = use(f.update)
       /\ c.op = IF f.api = "insert_if_not_present" THEN "ensure" ELSE "look"
  <2> DEFINE x == token(f.fp, f.home)
             u == use(f.update)
             d == data_of(f.hand)
  <2>1. c = IF f.api = "insert_if_not_present" THEN Set!Ensuring(x, d, u) ELSE Set!Looking(x, u)
    BY <1>1, CallsOf, CallForms
  <2> HIDE DEF c, x, u, d
  <2>2. /\ c.item = x /\ c.use = u
        /\ c.op = IF f.api = "insert_if_not_present" THEN "ensure" ELSE "look"
    BY <2>1, CallParts
  <2>. QED
    BY <2>2 DEF x, u
<1>11. Set!Becomes(t, Set!Idle)
  BY <1>1, <1>5, CallsOf, CallForms
<1> HIDE DEF c
<1>7. buckets'[i][s] = new /\ WritesSlot(t, i, s)
  BY <1>1, <1>2, <1>3 DEF WritesSlot, Shapes, BucketStates
<1>8. CASE f.fp = 0
  <2>1. \A e : is_entry(b[s], i, e) = 0 /\ is_entry(buckets'[i][s], i, e) = 0
    BY <1>2, <1>4, <1>7, <1>8 DEF is_entry
  <2>2. \A e : is_entry(b[s], i, e) + carries(t, e)
                 = is_entry(buckets'[i][s], i, e) + carries(t, e)'
    BY <1>6, <2>1
  <2>3. Entries' = Entries
    BY <1>1, <1>2, <1>7, <2>2, EntriesKept
  <2>4. f.api # "insert_if_not_present"
    BY <1>8 DEF SetInv, FindableInv, NewItemAtHome, CountInv
  <2>. QED
    BY <1>5, <1>10, <1>11, <2>3, <2>4 DEF Set!Miss, c
<1>9. CASE f.fp # 0
  <2> DEFINE x == entry(b[s], i)
             y == entry(new, i)
  <2>1. \A e : is_entry(b[s], i, e) = has(e, x) /\ is_entry(buckets'[i][s], i, e) = has(e, y)
    BY <1>2, <1>4, <1>7, <1>9, IsEntry
  <2>2. \A e : has(e, x) \in Nat /\ has(e, y) \in Nat /\ has(x, x) = 1
    BY DEF has
  <2>3. y = [item |-> x.item, data |-> data_of(new)] /\ x.data = data_of(b[s])
    BY <1>4 DEF entry
  <2>6. x.item = token(f.fp, f.home)
    <3>1. token(f.fp, i) = token(f.fp, f.home)
      BY <1>1, TokenOther DEF second
    <3>. QED
      BY <1>2, <3>1, EntryParts
  <2> HIDE DEF x, y
  <2>4. /\ \A e : is_entry(b[s], i, e) + carries(t, e) + has(e, y)
                    = is_entry(buckets'[i][s], i, e) + carries(t, e)' + has(e, x)
        /\ is_entry(b[s], i, x) = 1
    BY <1>6, <2>1, <2>2
  <2>5. x \in DOMAIN Entries /\ Entries' = (Entries (-) SetToBag({x})) (+) SetToBag({y})
    BY <1>1, <1>2, <1>7, <2>4, EntryReplaced
  <2>7. y = Set!Entry(x.item, Set!Used(x.data, c.use))
    BY <1>4, <1>10, <2>3 DEF Set!Entry
  <2>8. x \in Set!BagToSet(Entries) /\ Set!Replace(x, y)
    BY <2>5, SetBags DEF Set!Replace
  <2>9. c.op \in {"look", "ensure"} /\ x.item = c.item
    BY <1>10, <2>6
  <2>. QED
    BY <1>5, <1>11, <2>7, <2>8, <2>9 DEF Set!Lookup, c
<1>. QED
  BY <1>8, <1>9

\* The slot in which bucket.insert leaves a block (bucket.rs, insert).
LEMMA LandsInSlot ==
  ASSUME NEW b \in BucketStates, NEW d \in DataBlocks, inserts(b, d)
  PROVE  \E s \in Slots :
           /\ b[s].fp \in {0, d.fp}
           /\ insert(b, d) = [b EXCEPT ![s] = IF b[s].fp = d.fp
                                              THEN merge_associated_from(b[s], d) ELSE d]
<1> DEFINE s == first(landing(b, d.fp))
<1>1. s \in landing(b, d.fp)
  BY FirstSlot DEF inserts, landing
<1>2. s \in Slots /\ b[s].fp \in {0, d.fp}
  BY <1>1 DEF landing, is_empty
<1>. QED
  BY <1>2 DEF insert

\* A block that lands fills a slot or becomes one with a block of its fingerprint:
\* a new item is inserted, one that is moved stays (filter.rs, insert).
LEMMA LandInserts ==
  ASSUME IsFiniteSet(Threads), SetInv, NEW t \in Threads, Continue(t), NEW i \in Buckets,
         Land(t, i),
         \/ pc[t] \in {"insert_i1", "insert_i2"} /\ i \in {frame[t].home, second(t)}
         \/ pc[t] = "place" /\ i = frame[t].index
  PROVE  Set!Insert(t) \/ Set!Settle(t)
<1> DEFINE b == buckets[i]
           d == frame[t].hand
<1>1. /\ Shapes /\ i \in Buckets /\ b \in BucketStates /\ d \in DataBlocks /\ inserts(b, d)
      /\ CountInv(t) /\ CallInv(t)
  BY BucketOf, LocalTypes DEF SetInv, FindableInv, StateOK, Land
<1>2. PICK s \in Slots :
        /\ b[s].fp \in {0, d.fp}
        /\ insert(b, d) = [b EXCEPT ![s] = IF b[s].fp = d.fp
                                           THEN merge_associated_from(b[s], d) ELSE d]
  BY <1>1, LandsInSlot
<1> DEFINE new == IF b[s].fp = d.fp THEN merge_associated_from(b[s], d) ELSE d
<1>3. buckets' = [buckets EXCEPT ![i] = [b EXCEPT ![s] = new]]
  BY <1>2 DEF Land
<1>4. new.fp = d.fp /\ b[s] \in DataBlocks
  BY <1>1, <1>2, BlockOf, MergeType
<1>5. Reports' = Reports /\ pc'[t] = "count_add"
  BY <1>1, QuietReport DEF Land, Goto, Shapes
<1>6. buckets'[i][s] = new /\ WritesSlot(t, i, s)
  <2> HIDE DEF new
  <2>. QED
    BY <1>1, <1>2, <1>3 DEF WritesSlot, Shapes, BucketStates
<1>7. \A e : carries(t, e)' = 0
  BY <1>5, NothingCarried
<1>8. \A e, z : has(e, z) \in Nat
  BY DEF has
<1> DEFINE x == entry(b[s], i)
           y == entry(d, i)
           z == entry(new, i)
<1> DEFINE c == Calls[t]
<1>14. Set!Becomes(t, Set!Idle)
  BY <1>1, <1>5, CallsOf, CallForms
<1>15. pc[t] = "place" => c.op = "settle"
  <2>1. pc[t] = "place" => c = Set!Settling
    BY <1>1, CallsOf, CallForms
  <2> HIDE DEF c
  <2>. QED
    BY <2>1, CallParts
<1> HIDE DEF c
<1>9. CASE d.fp = 0
  <2>1. \A e : is_entry(b[s], i, e) = 0 /\ is_entry(buckets'[i][s], i, e) = 0 /\ carries(t, e) = 0
    <3>1. b[s].fp = 0 /\ ~Displaced(t)
      BY <1>2, <1>9 DEF Displaced
    <3>. QED
      BY <1>4, <1>6, <1>9, <3>1, NothingCarried DEF is_entry
  <2>2. \A e : is_entry(b[s], i, e) + carries(t, e)
                 = is_entry(buckets'[i][s], i, e) + carries(t, e)'
    BY <1>7, <2>1
  <2>3. Entries' = Entries
    BY <1>1, <1>6, <2>2, EntriesKept
  <2>4. pc[t] = "place"
    BY <1>1, <1>9 DEF CountInv
  <2>. QED
    BY <1>5, <1>14, <1>15, <2>3, <2>4 DEF Set!Settle, c
<1>10. ASSUME d.fp # 0
       PROVE  \A e : /\ is_entry(b[s], i, e) = IF b[s].fp = 0 THEN 0 ELSE has(e, x)
                     /\ is_entry(buckets'[i][s], i, e) = has(e, z)
                     /\ pc[t] # "place" => carries(t, e) = 0
                     /\ pc[t] = "place" => i = frame[t].index /\ carries(t, e) = has(e, y)
  <2>1. ASSUME NEW e, pc[t] = "place" PROVE carries(t, e) = has(e, y) /\ i = frame[t].index
    BY <1>10, <2>1, IsEntry DEF carries, Displaced
  <2>2. ASSUME NEW e, pc[t] # "place" PROVE carries(t, e) = 0
    BY <2>2, NothingCarried
  <2> HIDE DEF new
  <2>3. ASSUME NEW e PROVE is_entry(buckets'[i][s], i, e) = has(e, z)
    BY <1>4, <1>6, <1>10, IsEntry
  <2>4. ASSUME NEW e PROVE is_entry(b[s], i, e) = IF b[s].fp = 0 THEN 0 ELSE has(e, x)
    BY IsEntry
  <2>. QED
    BY <2>1, <2>2, <2>3, <2>4
<1>11. CASE d.fp # 0 /\ b[s].fp = 0 /\ pc[t] = "place"
  <2>1. z = y
    BY <1>11
  <2> HIDE DEF x, y, z, new
  <2>2. \A e : is_entry(b[s], i, e) + carries(t, e)
                 = is_entry(buckets'[i][s], i, e) + carries(t, e)'
    BY <1>7, <1>8, <1>10, <1>11, <2>1
  <2>3. Entries' = Entries
    BY <1>1, <1>6, <2>2, EntriesKept
  <2>. QED
    BY <1>5, <1>11, <1>14, <1>15, <2>3 DEF Set!Settle, c
<1>12. CASE d.fp # 0 /\ b[s].fp # 0 /\ pc[t] = "place"
  <2>1. /\ x.item = y.item /\ z = [item |-> x.item, data |-> Set!Combined(x.data, y.data)]
    <3>1. data_of(new) = Set!Combined(data_of(b[s]), data_of(d))
      BY <1>1, <1>2, <1>4, <1>12, MergeData
    <3>2. b[s].fp = d.fp
      BY <1>2, <1>12
    <3>. QED
      BY <1>4, <3>1, <3>2 DEF entry
  <2> HIDE DEF x, y, z, new
  <2>2. \A e : is_entry(b[s], i, e) + carries(t, e) = has(e, x) + has(e, y)
    BY <1>10, <1>12
  <2>3. \A e : is_entry(buckets'[i][s], i, e) + carries(t, e)' = has(e, z)
    BY <1>7, <1>8, <1>10, <1>12
  <2>4. /\ x \in DOMAIN Entries /\ y \in DOMAIN Entries /\ both(x, y) \sqsubseteq Entries
        /\ Entries' = joined(Entries, x, y, z)
    BY <1>1, <1>6, <2>2, <2>3, EntriesMerged
  <2>5. Set!Settle(t)
    <3>1. Set!Entry(x.item, Set!Combined(x.data, y.data)) = z
      BY <2>1 DEF Set!Entry
    <3>2. /\ x \in Set!BagToSet(Entries) /\ y \in Set!BagToSet(Entries)
          /\ Set!\sqsubseteq(Set!(+)(Set!One(x), Set!One(y)), Entries)
          /\ Entries' = Set!(+)(Set!(-)(Entries, Set!(+)(Set!One(x), Set!One(y))), Set!One(z))
      BY <2>4, SetBags DEF both, joined
    <3>. QED
      BY <1>5, <1>12, <1>14, <1>15, <2>1, <3>1, <3>2 DEF Set!Settle, c
  <2>. QED
    BY <2>5
<1>13. CASE d.fp # 0 /\ pc[t] # "place"
  <2>1. /\ c.op = "insert" /\ c.item = y.item /\ c.data = y.data
        /\ y = [item |-> y.item, data |-> y.data]
    <3>1. token(d.fp, i) = token(frame[t].fp, frame[t].home)
      BY <1>13, NewItemOfCall
    <3>2. c = Set!Inserting(token(frame[t].fp, frame[t].home), data_of(d))
      BY <1>1, <1>13, CallsOf, CallForms DEF c
    <3> HIDE DEF d
    <3>3. c = Set!Inserting(y.item, y.data)
      BY <3>1, <3>2, EntryParts
    <3>4. y = [item |-> y.item, data |-> y.data]
      BY DEF entry
    <3> HIDE DEF y
    <3>. QED
      BY <3>3, <3>4, CallParts
  <2>2. CASE b[s].fp = 0
    <3>1. z = y
      BY <1>13, <2>2
    <3> HIDE DEF x, y, z, new
    <3>2. \A e : is_entry(buckets'[i][s], i, e) + carries(t, e)'
                   = is_entry(b[s], i, e) + carries(t, e) + has(e, y)
      BY <1>7, <1>8, <1>10, <1>13, <2>2, <3>1
    <3>3. Entries' = Entries (+) SetToBag({y})
      BY <1>1, <1>6, <3>2, EntryPut
    <3>. QED
      BY <1>5, <1>14, <2>1, <3>3, SetBags DEF Set!Insert, Set!Entry, c
  <2>3. CASE b[s].fp # 0
    <3>1. x.item = y.item /\ z = [item |-> x.item, data |-> Set!Combined(x.data, y.data)]
      <4>1. b[s].fp = d.fp
        BY <1>2, <2>3
      <4>2. data_of(new) = Set!Combined(data_of(b[s]), data_of(d))
        BY <1>1, <1>4, <4>1, MergeData
      <4>. QED
        BY <1>4, <4>1, <4>2 DEF entry
    <3> HIDE DEF x, y, z, new
    <3>2. /\ \A e : is_entry(b[s], i, e) + carries(t, e) + has(e, z)
                      = is_entry(buckets'[i][s], i, e) + carries(t, e)' + has(e, x)
      BY <1>7, <1>8, <1>10, <1>13, <2>3
    <3>3. is_entry(b[s], i, x) = 1
      BY <1>10, <1>13, <2>3 DEF has
    <3>4. x \in DOMAIN Entries /\ Entries' = (Entries (-) SetToBag({x})) (+) SetToBag({z})
      BY <1>1, <1>6, <3>2, <3>3, EntryReplaced
    <3>. QED
      BY <1>5, <1>14, <2>1, <3>1, <3>4, SetBags DEF Set!Insert, Set!Replace, Set!Entry, c
  <2>. QED
    BY <2>2, <2>3
<1>. QED
  BY <1>9, <1>11, <1>12, <1>13

\* A kick puts the block in hand in the place of the one it takes out: it inserts
\* a new item, and changes nothing for one that is on its way (filter.rs, insert).
LEMMA KickInserts ==
  ASSUME IsFiniteSet(Threads), SetInv, NEW t \in Threads, Continue(t), TakesOut(t)
  PROVE  Set!Insert(t) \/ UNCHANGED Set!set
<1> DEFINE i == frame[t].index
           b == buckets[i]
           d == frame[t].hand
<1>1. /\ Shapes /\ i \in Buckets /\ b \in BucketStates /\ d \in DataBlocks
      /\ CountInv(t) /\ CallInv(t) /\ pc[t] = "kick" /\ pc'[t] = "place"
  BY BucketOf, LocalTypes DEF SetInv, FindableInv, StateOK, TakesOut
<1>2. PICK s \in Slots :
        /\ frame'[t].hand = b[s] /\ frame'[t].index = alt_index(b[s].fp, i)
        /\ buckets' = [buckets EXCEPT ![i] = swap(b, s, d)]
  BY VictimTypes DEF TakesOut
<1>3. buckets'[i][s] = d /\ WritesSlot(t, i, s)
  BY <1>1, <1>2, SwapType DEF WritesSlot, Shapes
<1>4. Reports' = Reports
  BY <1>1, ContinueAnswer, QuietReport
<1>5. b[s].fp \in Fingerprint
  BY <1>1, BlockOf
<1>6. ASSUME NEW e PROVE carries(t, e)' = is_entry(b[s], i, e)
  <2>1. carries(t, e)' = is_entry(b[s], alt_index(b[s].fp, i), e)
    BY <1>1, <1>2 DEF carries, Displaced, is_entry, entry, token, Pair, data_of
  <2>2. token(b[s].fp, alt_index(b[s].fp, i)) = token(b[s].fp, i)
    BY <1>1, <1>5, TokenOther
  <2>. QED
    BY <2>1, <2>2 DEF is_entry, entry
<1>7. \A x, j, e : is_entry(x, j, e) \in Nat
  BY DEF is_entry
<1> DEFINE c == Calls[t]
<1>10. /\ Set!Becomes(t, Set!Settling) /\ (c = Set!Settling => Calls' = Calls)
       /\ c = IF new_item(t) THEN Set!Inserting(token(frame[t].fp, frame[t].home), data_of(d))
                             ELSE Set!Settling
  BY <1>1, CallsOf, CallForms DEF new_item
<1> HIDE DEF c
<1>8. CASE ~new_item(t)
  <2>1. \A e : carries(t, e) = is_entry(d, i, e)
    BY <1>1, <1>8 DEF carries, Displaced, is_entry
  <2>2. \A e : is_entry(b[s], i, e) + carries(t, e)
                 = is_entry(buckets'[i][s], i, e) + carries(t, e)'
    BY <1>3, <1>6, <1>7, <2>1
  <2>3. Entries' = Entries
    BY <1>1, <1>3, <2>2, EntriesKept
  <2>. QED
    BY <1>4, <1>8, <1>10, <2>3 DEF Set!set
<1>9. CASE new_item(t)
  <2> DEFINE x == entry(d, i)
  <2>1. d.fp # 0 /\ \A e : carries(t, e) = 0
    BY <1>1, <1>9, NothingCarried DEF Displaced, CountInv
  <2>2. /\ c.op = "insert" /\ c.item = x.item /\ c.data = x.data
        /\ x = [item |-> x.item, data |-> x.data]
    <3>1. token(d.fp, i) = token(frame[t].fp, frame[t].home)
      BY <1>1, <1>9, NewItemOfCall
    <3>2. c = Set!Inserting(token(frame[t].fp, frame[t].home), data_of(d))
      BY <1>9, <1>10
    <3> HIDE DEF d
    <3>3. c = Set!Inserting(x.item, x.data)
      BY <3>1, <3>2, EntryParts
    <3>4. x = [item |-> x.item, data |-> x.data]
      BY DEF entry
    <3> HIDE DEF x
    <3>. QED
      BY <3>3, <3>4, CallParts
  <2>3. \A e : is_entry(d, i, e) = has(e, x) /\ has(e, x) \in Nat
    BY <2>1, IsEntry DEF has
  <2> HIDE DEF x
  <2>4. \A e : is_entry(buckets'[i][s], i, e) + carries(t, e)'
                 = is_entry(b[s], i, e) + carries(t, e) + has(e, x)
    BY <1>3, <1>6, <1>7, <2>1, <2>3
  <2>5. Entries' = Entries (+) SetToBag({x})
    BY <1>1, <1>3, <2>4, EntryPut
  <2>. QED
    BY <1>4, <1>10, <2>2, <2>5, SetBags DEF Set!Insert, Set!Entry, c
<1>. QED
  BY <1>8, <1>9

\* An insertion that gives up reports the block in hand, which is an entry if it was
\* on its way and a new item otherwise (filter.rs, insert).
LEMMA GiveUpEvicts ==
  ASSUME IsFiniteSet(Threads), SetInv, NEW t \in Threads, Continue(t),
         pc[t] \in {"insert_i2", "kick", "place"}, UNCHANGED buckets,
         Return(t, Evicted(frame[t].hand.fp))
  PROVE  Set!Evict(t) \/ Set!Settle(t)
<1> DEFINE i == frame[t].index
           d == frame[t].hand
<1>1. /\ Shapes /\ i \in Buckets /\ d \in DataBlocks /\ d.fp \in Fingerprint
      /\ CountInv(t) /\ CallInv(t) /\ pc'[t] = "idle" /\ ret[t] = Pending
  BY LocalTypes DEF SetInv, FindableInv, StateOK, CallInv, Return, Goto, Shapes
<1>2. \A e : carries(t, e)' = 0
  BY <1>1, NothingCarried
<1> DEFINE c == Calls[t]
<1>5. Set!Becomes(t, Set!Idle)
  BY <1>1, CallsOf, CallForms
<1>6. \/ /\ pc[t] = "place" \/ (pc[t] = "kick" /\ ~new_item(t))
         /\ c = Set!Settling
      \/ /\ pc[t] = "insert_i2" \/ (pc[t] = "kick" /\ new_item(t))
         /\ c = Set!Inserting(token(frame[t].fp, frame[t].home), data_of(d))
  BY <1>1, CallsOf, CallForms DEF new_item
<1> HIDE DEF c
<1>3. CASE d.fp = 0
  <2>1. Reports' = Reports
    BY <1>1, <1>3, ReportedAnswers, QuietReturn
  <2>2. ~Displaced(t)
    BY <1>3 DEF Displaced
  <2>3. \A e : carries(t, e)' = carries(t, e)
    BY <1>2, <2>2, NothingCarried
  <2>4. Entries' = Entries
    BY <1>1, <2>3, EntriesUntouched
  <2>5. c.op = "settle"
    BY <1>1, <1>3, <1>6, CallParts DEF CountInv
  <2>. QED
    BY <1>5, <2>1, <2>4, <2>5 DEF Set!Settle, c
<1>4. CASE d.fp # 0
  <2>1. Reports' = [Reports EXCEPT ![t] = d.fp]
    <3>1. reported(Evicted(d.fp)) = d.fp
      BY <1>1, <1>4, ReportedAnswers
    <3>2. Reports' = [Reports EXCEPT ![t] = reported(Evicted(d.fp))]
      BY <1>1, ReportOfAnswer DEF Return
    <3>. QED
      BY <3>1, <3>2
  <2>2. CASE Displaced(t)
    <3> DEFINE x == entry(d, i)
    <3>1. {} \in Buckets /\ 0 \in Slots /\ WritesSlot(t, {}, 0)
      BY SlotNumbers DEF Buckets, WritesSlot
    <3>2. \A e : carries(t, e) = has(e, x) /\ has(e, x) \in Nat
      BY <1>4, <2>2, IsEntry DEF carries, has
    <3>3. x.item[1] = d.fp
      BY EntryParts
    <3> HIDE DEF x
    <3>4. \A e : is_entry(buckets[{}][0], {}, e) + carries(t, e)
                   = is_entry(buckets'[{}][0], {}, e) + carries(t, e)' + has(e, x)
      BY <1>2, <3>2 DEF is_entry
    <3>5. x \in DOMAIN Entries /\ Entries' = Entries (-) SetToBag({x})
      BY <1>1, <3>1, <3>4, EntryTaken
    <3>6. c.op = "settle"
      BY <1>6, <2>2, CallParts DEF Displaced
    <3>. QED
      BY <1>5, <2>1, <3>3, <3>5, <3>6, SetBags DEF Set!Evict, c
  <2>3. CASE ~Displaced(t)
    <3>1. Entries' = Entries
      BY <1>1, <1>2, <2>3, NothingCarried, EntriesUntouched
    <3>2. /\ pc[t] = "insert_i2" \/ (pc[t] = "kick" /\ new_item(t))
          /\ c = Set!Inserting(token(frame[t].fp, frame[t].home), data_of(d))
      BY <1>4, <1>6, <2>3 DEF Displaced
    <3>3. c.op = "insert" /\ c.item = token(frame[t].fp, frame[t].home)
      BY <3>2, CallParts
    <3>4. c.item[1] = d.fp
      <4>1. PICK j : token(d.fp, j) = token(frame[t].fp, frame[t].home)
        BY <3>2, NewItemOfCall
      <4>. QED
        BY <3>3, <4>1 DEF token
    <3>. QED
      BY <1>5, <2>1, <3>1, <3>3, <3>4 DEF Set!Evict, c
  <2>. QED
    BY <2>2, <2>3
<1>. QED
  BY <1>3, <1>4

\* A removal that finds its key takes one entry of it (filter.rs, remove).
LEMMA ClearRemoves ==
  ASSUME IsFiniteSet(Threads), SetInv, NEW t \in Threads, Continue(t),
         pc[t] \in {"remove_i1", "remove_i2"}, NEW i \in {frame[t].home, second(t)}, Clear(t, i)
  PROVE  Set!Remove(t)
<1> DEFINE b == buckets[i]
<1>1. /\ Shapes /\ i \in Buckets /\ b \in BucketStates /\ pc'[t] = "count_sub"
      /\ frame[t].fp \in Fingerprint \ {0} /\ frame[t].home \in Buckets
      /\ contains(b, frame[t].fp)
  BY BucketOf, LocalTypes DEF SetInv, FindableInv, StateOK, CountInv, Clear, Goto, Shapes
<1>2. PICK s \in Slots : /\ b[s].fp = frame[t].fp
                         /\ remove(b, frame[t].fp) = [b EXCEPT ![s] = ResetBlock]
  BY <1>1, RemoveType
<1>3. buckets' = [buckets EXCEPT ![i] = [b EXCEPT ![s] = ResetBlock]]
  BY <1>2 DEF Clear
<1>4. buckets'[i][s] = ResetBlock /\ WritesSlot(t, i, s)
  BY <1>1, <1>3 DEF WritesSlot, Shapes, BucketStates
<1> DEFINE x == entry(b[s], i)
<1>5. \A e : /\ is_entry(b[s], i, e) = has(e, x) /\ has(e, x) \in Nat
             /\ is_entry(buckets'[i][s], i, e) = 0
             /\ carries(t, e) = 0 /\ carries(t, e)' = 0
  BY <1>1, <1>2, <1>4, IsEntry, NothingCarried DEF has, ResetBlock
<1>9. x.item = token(frame[t].fp, frame[t].home)
  <2>1. token(frame[t].fp, i) = token(frame[t].fp, frame[t].home)
    BY <1>1, TokenOther DEF second
  <2>. QED
    BY <1>2, <2>1, EntryParts
<1> HIDE DEF x
<1>6. \A e : is_entry(b[s], i, e) + carries(t, e)
               = is_entry(buckets'[i][s], i, e) + carries(t, e)' + has(e, x)
  BY <1>5
<1>7. x \in DOMAIN Entries /\ Entries' = Entries (-) SetToBag({x})
  BY <1>1, <1>4, <1>6, EntryTaken
<1>8. Reports' = Reports
  BY QuietReport DEF Clear
<1> DEFINE c == Calls[t]
<1>10. Set!Becomes(t, Set!Idle) /\ c = Set!Removing(token(frame[t].fp, frame[t].home))
  BY <1>1, CallsOf, CallForms
<1> HIDE DEF c
<1>11. c.op = "remove" /\ x.item = c.item
  BY <1>9, <1>10, CallParts
<1>. QED
  BY <1>7, <1>8, <1>10, <1>11, SetBags DEF Set!Remove, c

\* A call that begins is one of CuckooSet (filter.rs, public methods).
LEMMA BeginRequests ==
  ASSUME Shapes, NEW t \in Threads, Begin(t)
  PROVE  call(pc'[t], frame'[t]) \in Set!Requests \cup {Set!Idle}
<1> DEFINE f == frame'[t]
           x == token(f.fp, f.home)
           c == call(pc'[t], f)
           Uses == {use(update) : update \in LookupArgs}
<1>1. ASSUME NEW api, NEW k \in Keys, CalledWith(f, api, k)
      PROVE  x \in KeyItems
  BY <1>1 DEF CalledWith, KeyItems
<1>2. pc'[t] = "look_i1" => use(f.update) \in Uses
  BY BeginUpdate
<1>3. CASE BeginsInsertion(t)
  <2>1. PICK k \in Keys, values \in InsertArgs :
          /\ \/ f.api = "insert" /\ pc'[t] = "insert_i1"
             \/ f.api = "insert_if_not_present" /\ pc'[t] = "look_i1"
          /\ CalledWith(f, f.api, k)
          /\ f.hand = new_data_block(get_fingerprint_and_index(k).fp, values)
    BY <1>3 DEF BeginsInsertion
  <2>2. data_of(f.hand) \in fresh /\ x \in KeyItems
    BY <1>1, <2>1, NewData, KeyTypes
  <2>3. \/ c = Set!Inserting(x, data_of(f.hand))
        \/ c = Set!Ensuring(x, data_of(f.hand), use(f.update)) /\ use(f.update) \in Uses
    BY <1>2, <2>1, CallForms
  <2> HIDE DEF c, x, f, Uses
  <2>. QED
    BY <2>2, <2>3 DEF Set!Requests, Uses, c, f
<1>4. CASE BeginsKeyed(t)
  <2>1. PICK k \in Keys :
          /\ \/ f.api \in {"contains", "get_associated_data"} /\ pc'[t] = "look_i1"
             \/ f.api = "remove" /\ pc'[t] = "remove_i1"
          /\ CalledWith(f, f.api, k)
    BY <1>4 DEF BeginsKeyed
  <2>2. x \in KeyItems
    BY <1>1, <2>1
  <2>3. \/ c = Set!Looking(x, use(f.update)) /\ use(f.update) \in Uses
        \/ c = Set!Removing(x)
    BY <1>2, <2>1, CallForms
  <2> HIDE DEF c, x, f, Uses
  <2>. QED
    BY <2>2, <2>3 DEF Set!Requests, Uses, c, f
<1>5. CASE BeginsUnkeyed(t)
  <2>1. \/ c = Set!Scanning(ages(f.api)) /\ f.api \in ScanApis
        \/ c = Set!Idle
    BY <1>5, CallForms DEF BeginsUnkeyed
  <2> HIDE DEF c, x, f, Uses
  <2>. QED
    BY <2>1 DEF Set!Requests, c, f
<1>. QED
  BY <1>3, <1>4, <1>5, BeginForms

\* A call forgets what the one before it has reported (filter.rs, public methods).
LEMMA BeginForgets ==
  ASSUME IsFiniteSet(Threads), SetInv, NEW t \in Threads, Begin(t)
  PROVE  Set!Begin(t)
<1>1. Shapes
  BY DEF SetInv, FindableInv, StateOK
<1>2. UNCHANGED buckets /\ pc[t] = "idle" /\ pc'[t] \notin {"kick", "place"}
  BY <1>1, BeginForms DEF BeginsInsertion, BeginsKeyed, BeginsUnkeyed
<1>3. Entries' = Entries
  BY <1>1, <1>2, NothingCarried, EntriesUntouched
<1>4. Reports' = [Reports EXCEPT ![t] = None]
  <2>1. PICK answer : reported(answer) = None /\ ret' = [ret EXCEPT ![t] = answer]
    BY <1>1, BeginAnswer, ReportedAnswers
  <2>. QED
    BY <1>1, <2>1, ReportOfAnswer
<1>5. Calls[t] = Set!Idle
  BY <1>1, <1>2, CallsOf, CallForms
<1>6. \E c \in Set!Requests \cup {Set!Idle} : Set!Becomes(t, c)
  BY <1>1, BeginRequests, CallsOf
<1>. QED
  BY <1>3, <1>4, <1>5, <1>6 DEF Set!Begin

\* A section that goes on without touching a bucket changes nothing, or its lookup
\* has missed and it is going to insert.
LEMMA GoingOnIsQuiet ==
  ASSUME IsFiniteSet(Threads), SetInv, NEW t \in Threads, Continue(t),
         GoesToNext(t) \/ StartsToKick(t) \/ KicksOn(t)
  PROVE  Set!Miss(t) \/ UNCHANGED Set!set
<1>1. Shapes /\ CallInv(t) /\ frame[t].kicks \in Nat
  BY LocalTypes, FilterConstants DEF SetInv, FindableInv, StateOK
<1>2. UNCHANGED buckets /\ pc'[t] # "idle"
  BY DEF GoesToNext, StartsToKick, KicksOn
<1>3. ASSUME NEW e PROVE carries(t, e)' = carries(t, e)
  <2>1. CASE GoesToNext(t)
    BY <2>1, NothingCarried DEF GoesToNext
  <2>2. CASE StartsToKick(t)
    <3>1. carries(t, e) = 0
      BY <2>2, NothingCarried DEF StartsToKick
    <3>2. ~Displaced(t)'
      BY <1>1, <2>2 DEF StartsToKick, Displaced, new_item, CallInv, KicksUncounted
    <3>. QED
      BY <3>1, <3>2 DEF carries
  <2>3. CASE KicksOn(t)
    <3>1. Displaced(t)' <=> Displaced(t)
      BY <1>1, <2>3 DEF KicksOn, Displaced, new_item
    <3>. QED
      BY <2>3, <3>1 DEF KicksOn, carries, is_entry, entry, token, Pair, data_of
  <2>. QED
    BY <2>1, <2>2, <2>3
<1>4. Reports' = Reports
  BY <1>1, <1>2, ContinueAnswer, QuietReport
<1>5. Entries' = Entries
  BY <1>1, <1>2, <1>3, EntriesUntouched
<1> DEFINE c == Calls[t]
           f == frame[t]
           x == token(f.fp, f.home)
           d == data_of(f.hand)
<1>6. CASE pc[t] = "look_i2" /\ pc'[t] = "insert_i1"
  <2>1. frame'[t] = f /\ f.api = "insert_if_not_present"
    BY <1>6 DEF GoesToNext, StartsToKick, KicksOn
  <2>2. c = Set!Ensuring(x, d, use(f.update)) /\ Set!Becomes(t, Set!Inserting(x, d))
    BY <1>1, <1>6, <2>1, CallsOf, CallForms
  <2> HIDE DEF c, x, d
  <2>3. c.op = "ensure" /\ c.item = x /\ c.data = d
    BY <2>2, CallParts
  <2>. QED
    BY <1>4, <1>5, <2>2, <2>3 DEF Set!Miss, c
<1>7. CASE ~(pc[t] = "look_i2" /\ pc'[t] = "insert_i1")
  <2>1. call(pc'[t], frame'[t]) = c
    <3>1. CASE GoesToNext(t)
      BY <1>1, <1>7, <3>1, CallsOf, CallForms DEF GoesToNext
    <3>2. CASE StartsToKick(t)
      BY <1>1, <3>2, CallsOf, CallForms DEF StartsToKick, SameKey, CallInv, KicksUncounted
    <3>3. CASE KicksOn(t)
      BY <1>1, <3>3, CallsOf, CallForms DEF KicksOn
    <3>. QED
      BY <3>1, <3>2, <3>3
  <2>2. Calls' = Calls
    BY <1>1, <2>1, CallsOf
  <2>. QED
    BY <1>4, <1>5, <2>2 DEF Set!set
<1>. QED
  BY <1>6, <1>7

\* A call misses in its second bucket, or has updated the counter.
Leaves(t) ==
  \/ pc[t] = "look_i2" /\ frame[t].api # "insert_if_not_present"
  \/ pc[t] \in {"remove_i2", "count_add", "count_sub"}

\* Nor does a call that ends so.
LEMMA QuietEnd ==
  ASSUME IsFiniteSet(Threads), SetInv, NEW t \in Threads, Continue(t), UNCHANGED buckets,
         Leaves(t), NEW answer, reported(answer) = None, Return(t, answer)
  PROVE  Set!Miss(t) \/ UNCHANGED Set!set
<1>1. Shapes /\ ret[t] = Pending
  BY DEF SetInv, FindableInv, StateOK, CallInv, Leaves
<1>2. pc'[t] = "idle"
  BY <1>1 DEF Return, Goto, Shapes
<1>3. Entries' = Entries /\ Reports' = Reports
  BY <1>1, <1>2, NothingCarried, EntriesUntouched, QuietReturn DEF Leaves
<1> DEFINE c == Calls[t]
           x == token(frame[t].fp, frame[t].home)
<1>4. Set!Becomes(t, Set!Idle) /\ (c = Set!Idle => Calls' = Calls)
  BY <1>1, <1>2, CallsOf, CallForms
<1>5. c = Set!Looking(x, use(frame[t].update)) \/ c = Set!Removing(x) \/ c = Set!Idle
  BY <1>1, CallsOf, CallForms DEF Leaves
<1> HIDE DEF c, x
<1>6. CASE c = Set!Idle
  BY <1>3, <1>4, <1>6 DEF Set!set
<1>7. CASE c # Set!Idle
  <2>1. c.op \in {"look", "remove"}
    BY <1>5, <1>7, CallParts
  <2>. QED
    BY <1>3, <1>4, <2>1 DEF Set!Miss, c
<1>. QED
  BY <1>6, <1>7

\* Every section of a method ends in one of these ways (filter.rs, all methods).
LEMMA ContinueEffects ==
  ASSUME StateOK, NEW t \in Threads, Continue(t)
  PROVE  \/ pc[t] \in {"look_i1", "look_i2"} /\ \E i \in {frame[t].home, second(t)} : Hit(t, i)
         \/ \E i \in Buckets :
              /\ Land(t, i)
              /\ \/ pc[t] \in {"insert_i1", "insert_i2"} /\ i \in {frame[t].home, second(t)}
                 \/ pc[t] = "place" /\ i = frame[t].index
         \/ TakesOut(t)
         \/ /\ pc[t] \in {"insert_i2", "kick", "place"} /\ UNCHANGED buckets
            /\ Return(t, Evicted(frame[t].hand.fp))
         \/ /\ pc[t] \in {"remove_i1", "remove_i2"}
            /\ \E i \in {frame[t].home, second(t)} : Clear(t, i)
         \/ Scan(t)
         \/ GoesToNext(t) \/ StartsToKick(t) \/ KicksOn(t)
         \/ /\ Leaves(t) /\ UNCHANGED buckets
            /\ \E answer : reported(answer) = None /\ Return(t, answer)
<1>1. /\ Shapes /\ frame[t].home \in Buckets /\ second(t) \in Buckets /\ frame[t].index \in Buckets
  BY LocalTypes DEF StateOK
<1> DEFINE Goal ==
         \/ pc[t] \in {"look_i1", "look_i2"} /\ \E i \in {frame[t].home, second(t)} : Hit(t, i)
         \/ \E i \in Buckets :
              /\ Land(t, i)
              /\ \/ pc[t] \in {"insert_i1", "insert_i2"} /\ i \in {frame[t].home, second(t)}
                 \/ pc[t] = "place" /\ i = frame[t].index
         \/ TakesOut(t)
         \/ /\ pc[t] \in {"insert_i2", "kick", "place"} /\ UNCHANGED buckets
            /\ Return(t, Evicted(frame[t].hand.fp))
         \/ /\ pc[t] \in {"remove_i1", "remove_i2"}
            /\ \E i \in {frame[t].home, second(t)} : Clear(t, i)
         \/ Scan(t)
         \/ GoesToNext(t) \/ StartsToKick(t) \/ KicksOn(t)
         \/ /\ Leaves(t) /\ UNCHANGED buckets
            /\ \E answer : reported(answer) = None /\ Return(t, answer)
<1>2. ASSUME pc'[t] \notin {"idle", "count_add", "count_sub", "scan"} PROVE Goal
  BY <1>1, <1>2, ContinueForms
<1>3. ASSUME NEW section, Goto(t, section) PROVE pc'[t] = section
  BY <1>1, <1>3 DEF Goto, Shapes
<1>4. ASSUME NEW answer, reported(answer) = None, Return(t, answer), UNCHANGED buckets,
             Leaves(t)
      PROVE  Goal
  BY <1>4
<1>5. CASE LookFirst(t)
  BY <1>1, <1>2, <1>3, <1>5 DEF LookFirst
<1>6. CASE LookSecond(t)
  BY <1>1, <1>2, <1>3, <1>4, <1>6, ReportedAnswers DEF LookSecond, Leaves
<1>7. CASE InsertFirst(t)
  BY <1>1, <1>2, <1>3, <1>7 DEF InsertFirst
<1>8. CASE InsertSecond(t)
  BY <1>1, <1>2, <1>3, <1>8 DEF InsertSecond, Full
<1>9. CASE Kick(t)
  BY <1>1, <1>2, <1>3, <1>9 DEF Kick
<1>10. CASE Place(t)
  BY <1>1, <1>2, <1>3, <1>10 DEF Place, Full
<1>11. CASE CountAdd(t)
  BY <1>4, <1>11, ReportedAnswers DEF CountAdd, Leaves
<1>12. CASE RemoveFirst(t)
  BY <1>1, <1>2, <1>3, <1>12 DEF RemoveFirst
<1>13. CASE RemoveSecond(t)
  BY <1>1, <1>4, <1>13, ReportedAnswers DEF RemoveSecond, Leaves
<1>14. CASE CountSub(t)
  BY <1>4, <1>14, ReportedAnswers DEF CountSub, Leaves
<1>. QED
  BY <1>5, <1>6, <1>7, <1>8, <1>9, <1>10, <1>11, <1>12, <1>13, <1>14 DEF Continue

-----------------------------------------------------------------------------
(* Aging.  The places that are scanned are told apart as the copies of      *)
(* their entries: those of one entry are numbered in any order.             *)

copies_of(B) == UNION {{e} \X (1 .. B[e]) : e \in DOMAIN B}

\* The copies that are left by a scan of some, which removes the entries in spent.
left_of(B, some, gone) == {c \in copies_of(B) : c \in some => c[1] \notin gone}

aged_copy(c, some, older) == IF c \in some THEN older[c[1]] ELSE c[1]

aged_bag(B, some, gone, older) ==
  [e \in {aged_copy(c, some, older) : c \in left_of(B, some, gone)} |->
     Cardinality({c \in left_of(B, some, gone) : aged_copy(c, some, older) = e})]

\* Every place has a copy of its entry, a different one from all other places, and
\* every copy is that of a place.
Numbering(number, f) ==
  /\ number \in [DOMAIN f -> copies_of(bag_of(f))]
  /\ \A p \in DOMAIN f : number[p][1] = f[p]
  /\ \A p, q \in DOMAIN f : number[p] = number[q] => p = q
  /\ \A c \in copies_of(bag_of(f)) : \E p \in DOMAIN f : number[p] = c

\* The places of each entry can be numbered.
LEMMA Numbered ==
  ASSUME NEW f, IsFiniteSet(DOMAIN f)
  PROVE  \E number : Numbering(number, f)
<1> DEFINE B == bag_of(f)
<1>1. /\ DOMAIN B = {f[p] : p \in DOMAIN f}
      /\ \A e \in DOMAIN B : B[e] = Cardinality(fiber(f, e))
  BY DEF bag_of
<1>2. ASSUME NEW e \in DOMAIN B
      PROVE  \E h \in [fiber(f, e) -> 1 .. B[e]] :
               /\ \A p, q \in fiber(f, e) : h[p] = h[q] => p = q
               /\ \A k \in 1 .. B[e] : \E p \in fiber(f, e) : h[p] = k
  <2>1. IsFiniteSet(fiber(f, e)) /\ B[e] = Cardinality(fiber(f, e)) /\ B[e] \in Nat
    BY <1>1, BagOf
  <2>2. IsFiniteSet(1 .. B[e]) /\ Cardinality(1 .. B[e]) = B[e]
    BY <2>1, FS_Interval
  <2>3. ExistsBijection(fiber(f, e), 1 .. B[e])
    BY <2>1, <2>2, FS_SameCardinalityBij
  <2>. QED
    BY <2>3 DEF ExistsBijection, Bijection, Injection, Surjection, IsInjective
<1> HIDE DEF B
<1> DEFINE Good(e, h) == /\ h \in [fiber(f, e) -> 1 .. B[e]]
                         /\ \A p, q \in fiber(f, e) : h[p] = h[q] => p = q
                         /\ \A k \in 1 .. B[e] : \E p \in fiber(f, e) : h[p] = k
           order == [x \in DOMAIN B |-> CHOOSE h : Good(x, h)]
           number == [p \in DOMAIN f |-> <<f[p], order[f[p]][p]>>]
<1>3. ASSUME NEW e \in DOMAIN B PROVE Good(e, order[e])
  <2>1. \E h : Good(e, h)
    BY <1>2
  <2> HIDE DEF Good
  <2>. QED
    BY <2>1
<1>4. ASSUME NEW p \in DOMAIN f
      PROVE  f[p] \in DOMAIN B /\ p \in fiber(f, f[p]) /\ order[f[p]][p] \in 1 .. B[f[p]]
  <2>1. f[p] \in DOMAIN B /\ p \in fiber(f, f[p])
    BY <1>1 DEF fiber
  <2> HIDE DEF order
  <2>. QED
    BY <1>3, <2>1
<1> HIDE DEF order
<1>5. number \in [DOMAIN f -> copies_of(B)]
  <2>1. ASSUME NEW p \in DOMAIN f PROVE <<f[p], order[f[p]][p]>> \in copies_of(B)
    BY <1>4 DEF copies_of
  <2>. QED
    BY <2>1
<1>6. ASSUME NEW p \in DOMAIN f, NEW q \in DOMAIN f, number[p] = number[q]
      PROVE  p = q
  <2>1. f[p] = f[q] /\ order[f[p]][p] = order[f[p]][q]
    BY <1>6
  <2>2. p \in fiber(f, f[p]) /\ q \in fiber(f, f[p]) /\ f[p] \in DOMAIN B
    BY <1>4, <2>1
  <2>3. Good(f[p], order[f[p]])
    BY <1>3, <2>2
  <2>. QED
    BY <2>1, <2>2, <2>3
<1>7. ASSUME NEW c \in copies_of(B) PROVE \E p \in DOMAIN f : number[p] = c
  <2>1. PICK e \in DOMAIN B : \E k \in 1 .. B[e] : c = <<e, k>>
    BY DEF copies_of
  <2> DEFINE k == c[2]
  <2>2. PICK p \in fiber(f, e) : order[e][p] = k
    BY <1>3, <2>1
  <2>3. p \in DOMAIN f /\ f[p] = e
    BY DEF fiber
  <2>. QED
    BY <2>1, <2>2, <2>3
<1>8. \A p \in DOMAIN f : number[p][1] = f[p]
  OBVIOUS
<1> HIDE DEF number
<1>. QED
  BY <1>5, <1>6, <1>7, <1>8 DEF B, Numbering

\* g is f after a scan of the places in seen: those whose entry is gone are empty.
AgedAt(f, g, seen, gone, older) ==
  /\ IsFiniteSet(DOMAIN f)
  /\ DOMAIN g = {p \in DOMAIN f : p \in seen => f[p] \notin gone}
  /\ \A p \in DOMAIN g : g[p] = IF p \in seen THEN older[f[p]] ELSE f[p]

\* Some of the copies in the bag of f are aged in that of g, and no other.
BagAges(f, g, gone, older) ==
  \E some \in SUBSET copies_of(bag_of(f)) :
    bag_of(g) = aged_bag(bag_of(f), some, gone, older)

\* What a scan of places does to the bag.
LEMMA BagAged ==
  ASSUME NEW f, NEW g, NEW seen, NEW gone, NEW older, AgedAt(f, g, seen, gone, older)
  PROVE  BagAges(f, g, gone, older)
<1> IsFiniteSet(DOMAIN f)
  BY DEF AgedAt
<1> DEFINE B == bag_of(f)
<1> PICK number : Numbering(number, f)
  BY Numbered
<1>1. /\ number \in [DOMAIN f -> copies_of(B)]
      /\ \A p \in DOMAIN f : number[p][1] = f[p]
      /\ \A p, q \in DOMAIN f : number[p] = number[q] => p = q
      /\ \A c \in copies_of(B) : \E p \in DOMAIN f : number[p] = c
  BY DEF Numbering
<1> HIDE DEF B
<1> DEFINE some == {number[p] : p \in DOMAIN f \cap seen}
           left == left_of(B, some, gone)
           aged(c) == aged_copy(c, some, older)
<1>2. some \in SUBSET copies_of(B)
  BY <1>1
<1>3. \A p \in DOMAIN f : number[p] \in some <=> p \in seen
  BY <1>1
<1> HIDE DEF some
<1>4. \A p \in DOMAIN f : number[p] \in left <=> p \in DOMAIN g
  BY <1>1, <1>3 DEF left_of, AgedAt
<1>5. \A p \in DOMAIN g : p \in DOMAIN f /\ aged(number[p]) = g[p]
  BY <1>1, <1>3 DEF aged_copy, AgedAt
<1>6. \A c \in left : \E p \in DOMAIN g : number[p] = c
  <2>1. \A c \in left : c \in copies_of(B)
    BY DEF left_of
  <2> HIDE DEF left
  <2>. QED
    BY <1>1, <1>4, <2>1
<1> HIDE DEF left, aged
<1>7. {aged(c) : c \in left} = {g[p] : p \in DOMAIN g}
  BY <1>4, <1>5, <1>6
<1>8. ASSUME NEW e PROVE Cardinality({c \in left : aged(c) = e}) = Cardinality(fiber(g, e))
  <2> DEFINE From == fiber(g, e)
             To   == {c \in left : aged(c) = e}
             map  == [p \in From |-> number[p]]
  <2>1. \A p \in From : p \in DOMAIN g /\ g[p] = e
    BY DEF fiber
  <2>2. \A p \in From : map[p] = number[p] /\ number[p] \in To
    BY <1>4, <1>5, <2>1
  <2>3. \A p, q \in From : map[p] = map[q] => p = q
    BY <1>1, <1>5, <2>1, <2>2
  <2>4. \A c \in To : \E p \in From : map[p] = c
    <3>1. ASSUME NEW c \in To PROVE \E p \in From : map[p] = c
      <4>1. PICK p \in DOMAIN g : number[p] = c
        BY <1>6
      <4>2. p \in From
        BY <1>5, <4>1 DEF fiber
      <4>. QED
        BY <2>2, <4>1, <4>2
    <3>. QED
      BY <3>1
  <2>5. IsFiniteSet(From)
    BY <1>5, FS_Subset DEF fiber
  <2> HIDE DEF From, To
  <2>6. map \in Bijection(From, To)
    BY <2>2, <2>3, <2>4 DEF Bijection, Injection, Surjection, IsInjective
  <2> HIDE DEF map
  <2>. QED
    BY <2>5, <2>6, FS_Bijection DEF ExistsBijection, From, To
<1>9. bag_of(g) = [e \in {aged(c) : c \in left} |-> Cardinality({c \in left : aged(c) = e})]
  BY <1>7, <1>8 DEF bag_of
<1>10. bag_of(g) = aged_bag(B, some, gone, older)
  BY <1>9 DEF aged_bag, aged, left
<1>. QED
  BY <1>2, <1>10 DEF B, BagAges

\* CuckooSet counts as the filter does.
LEMMA SetCardinality == \A S : Set!Cardinality(S) = Cardinality(S)
BY DEF Set!Cardinality, Cardinality

\* What a scan leaves of the blocks of a bucket (bucket.rs).
LEMMA ScannedBlocks ==
  ASSUME Shapes, NEW t \in Threads, Scan(t)
  PROVE  LET i == position(frame[t].pos)
         IN  /\ i \in Buckets
             /\ \A j \in Buckets, s \in Slots :
                  buckets'[j][s] = IF j = i /\ buckets[j][s].fp # 0
                                   THEN aged_block(frame[t].api, buckets[j][s]) ELSE buckets[j][s]
<1> DEFINE f    == frame[t]
           i    == position(f.pos)
           b    == buckets[i]
           used == IF ages_lru(f.api) THEN age_lru_counters(b) ELSE b
           left == IF ages_ttl(f.api) THEN age_ttl_counters(used) ELSE used
<1>1. i \in Buckets /\ b \in BucketStates
  BY IndexTypes, BucketOf
<1>2. buckets' = [buckets EXCEPT ![i] = left]
  BY DEF Scan
<1>3. \A s \in Slots : used[s] = IF b[s].fp # 0 /\ ages_lru(f.api)
                                 THEN age_lru_counter(b[s]) ELSE b[s]
  BY DEF age_lru_counters, occupied, is_empty
<1> HIDE DEF used
<1>4. \A s \in Slots : left[s] = IF used[s].fp # 0 /\ ages_ttl(f.api)
                                 THEN age_ttl_counter(used[s]) ELSE used[s]
  BY DEF age_ttl_counters, occupied, is_empty
<1> HIDE DEF left
<1>5. \A s \in Slots : left[s] = IF b[s].fp # 0 THEN aged_block(f.api, b[s]) ELSE b[s]
  BY <1>3, <1>4 DEF aged_block, occupied, is_empty
<1>6. \A j \in Buckets : buckets'[j] = IF j = i THEN left ELSE buckets[j]
  BY <1>1, <1>2 DEF Shapes
<1>. QED
  BY <1>1, <1>5, <1>6

\* A scan goes on to the next bucket with the same to age, or ends.
LEMMA ScanGoesOn ==
  ASSUME Shapes, NEW t \in Threads, Scan(t)
  PROVE  \/ pc'[t] = "scan" /\ frame'[t].api = frame[t].api
         \/ pc'[t] \in {"idle", "count_sub"}
<1>1. ASSUME UNCHANGED pc, NEW n, NEW gone,
             frame' = [frame EXCEPT ![t].pos = n, ![t].removed = gone]
      PROVE  pc'[t] = "scan" /\ frame'[t].api = frame[t].api
  <2>1. frame[t] \in Frames /\ frame'[t] = [frame[t] EXCEPT !.pos = n, !.removed = gone]
    BY <1>1, LocalTypes DEF Shapes
  <2>2. frame'[t].api = frame[t].api
    BY <2>1 DEF Frames
  <2>3. pc'[t] = "scan"
    BY <1>1 DEF Scan
  <2>. QED
    BY <2>2, <2>3
<1>2. \A section : Goto(t, section) => pc'[t] = section
  BY DEF Goto, Shapes
<1>3. \A answer : Return(t, answer) => pc'[t] = "idle"
  BY <1>2 DEF Return
<1>. QED
  BY <1>1, <1>2, <1>3 DEF Scan

\* A scan ages the entries of one bucket (filter.rs, scan_and_update_full).
LEMMA ScanAges ==
  ASSUME IsFiniteSet(Threads), SetInv, NEW t \in Threads, Continue(t), Scan(t)
  PROVE  Set!Age(t)
<1> DEFINE api  == frame[t].api
           i    == position(frame[t].pos)
           Seen == {slot(i, s) : s \in Slots}
           All  == {view[p] : p \in DOMAIN view}
           scan == ages(api)
           gone == {e \in All : Set!Spent(scan, e.data)}
           older == [e \in All |-> Set!Entry(e.item, Set!Aged(scan, e.data))]
<1>1. /\ Shapes /\ CallInv(t) /\ pc[t] = "scan" /\ ret[t] = Pending
  BY DEF SetInv, FindableInv, StateOK, CallInv, Scan
<1>2. /\ i \in Buckets
      /\ \A j \in Buckets, s \in Slots :
           buckets'[j][s] = IF j = i /\ buckets[j][s].fp # 0
                            THEN aged_block(api, buckets[j][s]) ELSE buckets[j][s]
  BY <1>1, ScannedBlocks
<1>3. Reports' = Reports
  <2>1. CASE \E answer : reported(answer) = None /\ Return(t, answer)
    BY <1>1, <2>1, QuietReturn
  <2>. QED
    BY <2>1, ReportedAnswers, QuietReport DEF Scan
<1> DEFINE new(p) == IF p \in Seen THEN older[view[p]] ELSE view[p]
<1>4. ASSUME NEW j \in Buckets, NEW s \in Slots, NEW p, p = slot(j, s)
      PROVE  /\ p \in DOMAIN view' <=> p \in DOMAIN view /\ (p \in Seen => view[p] \notin gone)
             /\ p \in DOMAIN view' => view'[p] = new(p)
  <2> DEFINE d == buckets[j][s]
             e == buckets'[j][s]
  <2>1. p \in Seen <=> j = i
    BY <1>4, PlacesApart
  <2>2. /\ p \in DOMAIN view <=> d.fp # 0
        /\ p \in DOMAIN view => view[p] = entry(d, j)
        /\ p \in DOMAIN view' <=> e.fp # 0
        /\ p \in DOMAIN view' => view'[p] = entry(e, j)
    BY <1>4, SlotInView, SlotInViewNext
  <2>3. CASE j # i \/ d.fp = 0
    <3>1. e = d
      BY <1>2, <2>3
    <3>2. p \in DOMAIN view => p \notin Seen
      BY <2>1, <2>2, <2>3
    <3>3. p \in DOMAIN view' => view'[p] = view[p] /\ p \in DOMAIN view
      BY <2>2, <3>1
    <3>4. p \in DOMAIN view => p \in DOMAIN view'
      BY <2>2, <3>1
    <3> HIDE DEF d, e, Seen, gone, older
    <3>. QED
      BY <3>2, <3>3, <3>4
  <2>4. CASE j = i /\ d.fp # 0
    <3>1. e = aged_block(api, d) /\ d \in DataBlocks
      BY <1>1, <1>2, <2>4, BucketOf, BlockOf
    <3>2. /\ e.fp # 0 <=> ~Set!Spent(scan, data_of(d))
          /\ e.fp # 0 => e.fp = d.fp /\ data_of(e) = Set!Aged(scan, data_of(d))
      BY <2>4, <3>1, AgedData
    <3>3. /\ view[p] \in All /\ view[p].data = data_of(d) /\ view[p].item = token(d.fp, j)
          /\ view[p] \in gone <=> Set!Spent(scan, data_of(d))
      <4>1. view[p] \in All /\ view[p].data = data_of(d) /\ view[p].item = token(d.fp, j)
        BY <2>2, <2>4, EntryParts
      <4> HIDE DEF All, d
      <4>. QED
        BY <4>1
    <3>4. e.fp # 0 => entry(e, j) = older[view[p]]
      <4> HIDE DEF All, d, e
      <4>1. older[view[p]] = Set!Entry(token(d.fp, j), Set!Aged(scan, data_of(d)))
        BY <3>3
      <4>. QED
        BY <3>2, <4>1 DEF entry, Set!Entry
    <3>5. p \in Seen /\ p \in DOMAIN view
      BY <2>1, <2>2, <2>4
    <3>6. p \in DOMAIN view' => view'[p] = older[view[p]]
      BY <2>2, <3>4
    <3>7. p \in DOMAIN view' <=> view[p] \notin gone
      BY <2>2, <3>2, <3>3
    <3> HIDE DEF d, e, All, gone, older, Seen
    <3>. QED
      BY <3>5, <3>6, <3>7
  <2>. QED
    BY <2>3, <2>4
<1>5. ASSUME NEW u \in Threads
      PROVE  LET p == hand(u)
             IN  /\ p \notin Seen
                 /\ p \in DOMAIN view' <=> p \in DOMAIN view
                 /\ p \in DOMAIN view' => view'[p] = view[p]
  <2>1. hand(u) \notin Seen
    BY PlacesApart
  <2>2. CASE u = t
    <3>1. ~Displaced(t)
      BY <1>1 DEF Displaced
    <3>2. pc'[t] \notin {"kick", "place"}
      BY <1>1 DEF Scan, Goto, Return, Shapes
    <3>3. ~Displaced(t)'
      BY <3>2 DEF Displaced
    <3>. QED
      BY <2>1, <2>2, <3>1, <3>3, HandInView, HandInViewNext
  <2>3. CASE u # t
    <3>1. pc'[u] = pc[u] /\ frame'[u] = frame[u]
      BY <1>1, <2>3, OthersUnchanged
    <3>2. Displaced(u)' <=> Displaced(u)
      BY <3>1 DEF Displaced, new_item
    <3>. QED
      BY <2>1, <3>1, <3>2, HandInView, HandInViewNext
  <2>. QED
    BY <2>2, <2>3
<1> HIDE DEF gone, older
<1>6. AgedAt(view, view', Seen, gone, older)
  <2>1. ASSUME NEW p
        PROVE  p \in DOMAIN view' <=> p \in DOMAIN view /\ (p \in Seen => view[p] \notin gone)
    <3>1. CASE p \in DOMAIN view
      BY <1>4, <1>5, <3>1, InView
    <3>2. CASE p \in DOMAIN view'
      BY <1>4, <1>5, <3>2, InViewNext
    <3>. QED
      BY <3>1, <3>2
  <2>2. ASSUME NEW p \in DOMAIN view' PROVE view'[p] = new(p)
    BY <1>4, <1>5, <2>2, InViewNext
  <2>3. DOMAIN view' = {p \in DOMAIN view : p \in Seen => view[p] \notin gone}
    BY <2>1
  <2>4. \A p \in DOMAIN view' : view'[p] = IF p \in Seen THEN older[view[p]] ELSE view[p]
    BY <2>2
  <2>5. IsFiniteSet(DOMAIN view)
    BY ViewFinite
  <2> HIDE DEF Seen
  <2>. QED
    BY <2>3, <2>4, <2>5 DEF AgedAt
<1>7. PICK some \in SUBSET copies_of(bag_of(view)) :
        bag_of(view') = aged_bag(bag_of(view), some, gone, older)
  <2>1. BagAges(view, view', gone, older)
    BY <1>6, BagAged
  <2>. QED
    BY <2>1 DEF BagAges
<1>8. Set!Copies = copies_of(Entries)
  BY SetBags DEF Set!Copies, copies_of
<1>9. Entries' = aged_bag(Entries, some, gone, older) /\ some \in SUBSET Set!Copies
  BY <1>7, <1>8, EntriesOf, EntriesOfNext
<1> DEFINE left    == {c \in Set!Copies : c \in some => ~Set!Spent(scan, c[1].data)}
           aged(c) == IF c \in some THEN Set!Entry(c[1].item, Set!Aged(scan, c[1].data)) ELSE c[1]
<1>10. \A c \in Set!Copies : c[1] \in All
  BY <1>8, EntriesOf DEF copies_of, bag_of
<1>11. left = left_of(Entries, some, gone)
  BY <1>8, <1>10 DEF left_of, gone
<1>12. \A c \in left : aged(c) = aged_copy(c, some, older)
  BY <1>10 DEF aged_copy, older
<1> HIDE DEF left, aged
<1>13. Entries' = [e \in {aged(c) : c \in left} |-> Cardinality({c \in left : aged(c) = e})]
  <2>1. {aged(c) : c \in left} = {aged_copy(c, some, older) : c \in left}
    BY <1>12
  <2>2. \A e : {c \in left : aged(c) = e} = {c \in left : aged_copy(c, some, older) = e}
    BY <1>12
  <2>. QED
    BY <1>9, <1>11, <2>1, <2>2 DEF aged_bag
<1> DEFINE c == Calls[t]
<1>14. c = Set!Scanning(scan) /\ (UNCHANGED Calls \/ Set!Becomes(t, Set!Idle))
  <2>1. c = Set!Scanning(scan)
    BY <1>1, CallsOf, CallForms
  <2>2. CASE pc'[t] = "scan" /\ frame'[t].api = frame[t].api
    BY <1>1, <2>1, <2>2, CallsOf, CallForms
  <2>3. CASE pc'[t] \in {"idle", "count_sub"}
    BY <1>1, <2>3, CallsOf, CallForms
  <2>. QED
    BY <1>1, <2>2, <2>3, ScanGoesOn
<1> HIDE DEF c, scan
<1>15. c.op = "scan" /\ c.scan = scan
  BY <1>14, CallParts
<1>16. \E those \in SUBSET Set!Copies :
         LET s      == Calls[t].scan
             rest   == {p \in Set!Copies : p \in those => ~Set!Spent(s, p[1].data)}
             old(p) == IF p \in those THEN Set!Entry(p[1].item, Set!Aged(s, p[1].data))
                       ELSE p[1]
         IN  Entries' = [e \in {old(p) : p \in rest} |->
                           Set!Cardinality({p \in rest : old(p) = e})]
  <2>1. Calls[t].scan = scan
    BY <1>15 DEF c
  <2> USE <1>9
  <2> WITNESS some \in SUBSET Set!Copies
  <2>. QED
    BY <1>13, <2>1, SetCardinality DEF left, aged
<1>17. Calls[t].op = "scan"
  BY <1>15 DEF c
<1>18. UNCHANGED Calls \/ Set!Becomes(t, Set!Idle)
  BY <1>14
<1>. QED
  BY <1>3, <1>16, <1>17, <1>18, ZenonT(30) DEF Set!Age

-----------------------------------------------------------------------------
(* Every step of the filter is one of CuckooSet, or changes nothing there. *)

\* A section of a method (filter.rs).
LEMMA ContinueImplements ==
  ASSUME IsFiniteSet(Threads), SetInv, NEW t \in Threads, Continue(t)
  PROVE  \/ Set!Miss(t) \/ Set!Lookup(t) \/ Set!Insert(t) \/ Set!Settle(t)
         \/ Set!Evict(t) \/ Set!Remove(t) \/ Set!Age(t) \/ UNCHANGED Set!set
<1> DEFINE Goal == \/ Set!Miss(t) \/ Set!Lookup(t) \/ Set!Insert(t) \/ Set!Settle(t)
                   \/ Set!Evict(t) \/ Set!Remove(t) \/ Set!Age(t) \/ UNCHANGED Set!set
<1>1. ASSUME pc[t] \in {"look_i1", "look_i2"}, NEW i \in {frame[t].home, second(t)}, Hit(t, i)
      PROVE  Goal
  BY <1>1, HitLooksUp
<1>2. ASSUME NEW i \in Buckets, Land(t, i),
             \/ pc[t] \in {"insert_i1", "insert_i2"} /\ i \in {frame[t].home, second(t)}
             \/ pc[t] = "place" /\ i = frame[t].index
      PROVE  Goal
  BY <1>2, LandInserts
<1>3. TakesOut(t) => Goal
  BY KickInserts
<1>4. ASSUME pc[t] \in {"insert_i2", "kick", "place"}, UNCHANGED buckets,
             Return(t, Evicted(frame[t].hand.fp))
      PROVE  Goal
  BY <1>4, GiveUpEvicts
<1>5. ASSUME pc[t] \in {"remove_i1", "remove_i2"}, NEW i \in {frame[t].home, second(t)},
             Clear(t, i)
      PROVE  Goal
  BY <1>5, ClearRemoves
<1>6. Scan(t) => Goal
  BY ScanAges
<1>7. GoesToNext(t) \/ StartsToKick(t) \/ KicksOn(t) => Goal
  BY GoingOnIsQuiet
<1>8. ASSUME Leaves(t), UNCHANGED buckets,
             NEW answer, reported(answer) = None, Return(t, answer)
      PROVE  Goal
  BY <1>8, QuietEnd
<1> HIDE DEF Goal
<1>9. Goal
  <2>1. StateOK
    BY DEF SetInv, FindableInv
  <2>. QED
    BY <1>1, <1>2, <1>3, <1>4, <1>5, <1>6, <1>7, <1>8, <2>1, ContinueEffects
<1>. QED
  BY <1>9 DEF Goal

\* A step of any thread.
LEMMA NextImplements ==
  ASSUME IsFiniteSet(Threads), SetInv, [Next]_vars
  PROVE  [Set!Next]_(Set!set)
<1>1. CASE UNCHANGED vars
  BY <1>1, QuietReport
     DEF vars, Set!set, Entries, Places, Occupied, entry_at, Displaced, new_item, occupied, Calls
<1>2. ASSUME NEW t \in Threads, Begin(t) PROVE Set!Next
  BY <1>2, BeginForgets DEF Set!Next
<1>3. ASSUME NEW t \in Threads, Continue(t) PROVE Set!Next \/ UNCHANGED Set!set
  BY <1>3, ContinueImplements DEF Set!Next
<1>. QED
  BY <1>1, <1>2, <1>3 DEF Next

\* Nothing is stored and nothing reported at first (filter.rs, new).
LEMMA InitImplements == Init => Set!Init
<1> SUFFICES ASSUME Init PROVE Set!Init
  OBVIOUS
<1>1. Places = {}
  <2>1. \A i \in Buckets, s \in Slots : ~occupied(buckets[i][s])
    BY DEF Init, EmptyBucket, ResetBlock, occupied, is_empty
  <2>2. \A t \in Threads : ~Displaced(t)
    BY DEF Init, Displaced
  <2>. QED
    BY <2>1, <2>2 DEF Places, Occupied
<1>2. Entries = Set!EmptyBag
  BY <1>1 DEF Entries, Set!EmptyBag, Set!SetToBag
<1>3. Reports = [t \in Threads |-> None]
  BY ReportsOf, ReportedAnswers DEF Init
<1>4. Calls = [t \in Threads |-> Set!Idle]
  BY CallForms DEF Init, Calls
<1>. QED
  BY <1>2, <1>3, <1>4 DEF Set!Init

\* The filter implements CuckooSet: kicks and the locking of one bucket at a time
\* are invisible but for the misses of the lookups. Every section of every thread
\* inserts, combines, touches, removes, reports as evicted or ages entries as its
\* call was asked to, one of these at a time, or changes nothing; no entry and no
\* data is lost on the way (filter.rs:447, 454; data_block.rs:374, 268).
THEOREM FilterImplementsSet ==
  ASSUME IsFiniteSet(Threads)
  PROVE  Spec => ImplementsSet
<1> DEFINE Inv == FindableInv /\ AllCountInv /\ AllCallInv
<1>1. Init => Inv
  BY FindableInvInit, CallInvInit, InitShapes
     DEF Init, AllCountInv, StateOK, LookupLocals, CountInv, NoFrame
<1>2. Inv /\ [Next]_vars => Inv'
  BY FindableInvStep, CountInvStep, CallInvStep
<1>3. Inv /\ [Next]_vars => [Set!Next]_(Set!set)
  BY NextImplements DEF SetInv, AllCountInv, AllCallInv
<1> HIDE DEF Inv
<1>. QED
  BY <1>1, <1>2, <1>3, InitImplements, PTL DEF Spec, ImplementsSet, Set!Spec
=============================================================================
