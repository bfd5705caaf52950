---------------------------- MODULE IteratorsProofs ----------------------------
(***************************************************************************)
(* The iterators of PebbleDB and of MockStore implement Cursor, for all    *)
(* names of families without a NUL byte, all keys, contents and targets.   *)
(***************************************************************************)
EXTENDS Iterators, KeySpaceProofs, WellFoundedInduction, FiniteSetTheorems

\* The invariant: the state that NewIterator fixes, and where the engine's iterator
\* may stand.
IInv ==
    /\ raw \subseteq RawKey /\ cf \in Family
    /\ rawAt \in inRange \cup {Before, After}

LEMMA Names == Family \subseteq Bytes /\ \A f \in Family : NulFree(f)
BY IteratorsAssumption DEF NulFree

\* The range of the iterator holds the storage keys of the family's keys.
LEMMA RangeIsFamily ==
    ASSUME IInv
    PROVE  inRange = {prefixedKey(cf, k) : k \in familyKeys}
<1>1. ASSUME NEW r \in inRange PROVE r \in {prefixedKey(cf, k) : k \in familyKeys}
  <2>1. PICK f \in Family, k \in Key : r = prefixedKey(f, k)
    BY <1>1 DEF IInv, inRange, RawKey
  <2>2. Within(cf, prefixedKey(f, k))
    BY <1>1, <2>1 DEF inRange
  <2>3. cf = f
    BY <2>2, Names, RangesAreFamilies, IteratorsAssumption DEF IInv
  <2>4. k \in familyKeys
    BY <1>1, <2>1, <2>3 DEF inRange, familyKeys
  <2>. QED  BY <2>1, <2>3, <2>4
<1>2. ASSUME NEW k \in familyKeys PROVE prefixedKey(cf, k) \in inRange
  <2>1. k \in Key /\ prefixedKey(cf, k) \in raw
    BY <1>2 DEF familyKeys
  <2>2. Within(cf, prefixedKey(cf, k))
    BY <2>1, Names, RangesAreFamilies, IteratorsAssumption DEF IInv
  <2>. QED  BY <2>1, <2>2 DEF inRange
<1>. QED  BY <1>1, <1>2

\* What the caller of a pebbleIterator sees of a place of the engine's iterator.
seen(f, r) == IF r \in {Before, After} THEN r ELSE stripped(f, r)

LEMMA SeenIsKey ==
    ASSUME NEW f \in Bytes, NEW k \in Bytes
    PROVE  /\ prefixedKey(f, k) \notin {Before, After}
           /\ k \notin {Before, After}
           /\ seen(f, prefixedKey(f, k)) = k
<1>1. prefixedKey(f, k) \in Bytes
  BY Layout
<1>. QED  BY <1>1, StrippedIsKey, IteratorsAssumption DEF seen

\* The instances compare keys as KeySpace does.
LEMMA OneOrder ==
    ASSUME NEW k, NEW l
    PROVE  /\ Engine!Precedes(k, l) <=> Precedes(k, l)
           /\ Pebble!Precedes(k, l) <=> Precedes(k, l)
           /\ Mock!Precedes(k, l) <=> Precedes(k, l)
BY DEF Precedes, Engine!Precedes, Pebble!Precedes, Mock!Precedes

\* The first of some storage keys is that of the first of the keys, and the last that
\* of the last.
LEMMA EndsAreKept ==
    ASSUME NEW f \in Bytes, NEW S \in SUBSET Bytes, NEW r
    PROVE  /\ r \in Engine!first({prefixedKey(f, k) : k \in S}) => seen(f, r) \in Pebble!first(S)
           /\ r \in Engine!last({prefixedKey(f, k) : k \in S}) => seen(f, r) \in Pebble!last(S)
<1>. DEFINE T == {prefixedKey(f, k) : k \in S}
<1>1. \A k, l \in S : Precedes(prefixedKey(f, k), prefixedKey(f, l)) <=> Precedes(k, l)
  BY OrderIsKept
<1>2. \A k \in S : seen(f, prefixedKey(f, k)) = k
  BY SeenIsKey
<1>3. \A k \in S : \A l \in S \ {k} : prefixedKey(f, l) \in T \ {prefixedKey(f, k)}
  BY <1>2
<1>4. S = {} <=> T = {}
  OBVIOUS
<1>5. ASSUME r \in Engine!first(T) PROVE seen(f, r) \in Pebble!first(S)
  <2>1. CASE S = {}
    BY <1>4, <1>5, <2>1 DEF Engine!first, Pebble!first, seen
  <2>2. CASE S # {}
    <3>1. r \in T /\ \A q \in T \ {r} : Precedes(r, q)
      BY <1>4, <1>5, <2>2, OneOrder DEF Engine!first
    <3>2. PICK k \in S : r = prefixedKey(f, k)
      BY <3>1
    <3>3. \A l \in S \ {k} : Precedes(k, l)
      BY <1>1, <1>3, <3>1, <3>2
    <3>. QED  BY <1>2, <2>2, <3>2, <3>3, OneOrder DEF Pebble!first
  <2>. QED  BY <2>1, <2>2
<1>6. ASSUME r \in Engine!last(T) PROVE seen(f, r) \in Pebble!last(S)
  <2>1. CASE S = {}
    BY <1>4, <1>6, <2>1 DEF Engine!last, Pebble!last, seen
  <2>2. CASE S # {}
    <3>1. r \in T /\ \A q \in T \ {r} : Precedes(q, r)
      BY <1>4, <1>6, <2>2, OneOrder DEF Engine!last
    <3>2. PICK k \in S : r = prefixedKey(f, k)
      BY <3>1
    <3>3. \A l \in S \ {k} : Precedes(l, k)
      BY <1>1, <1>3, <3>1, <3>2
    <3>. QED  BY <1>2, <2>2, <3>2, <3>3, OneOrder DEF Pebble!last
  <2>. QED  BY <2>1, <2>2
<1>. QED  BY <1>5, <1>6

\* The first or last of some storage keys is one of them, or an end.
LEMMA EndsAreInside ==
    ASSUME NEW S, NEW r
    PROVE  /\ r \in Engine!first(S) => r \in S \cup {Before, After}
           /\ r \in Engine!last(S) => r \in S \cup {Before, After}
BY DEF Engine!first, Engine!last

\* Where the engine's iterator stands, as seen by the caller.
LEMMA PlaceIsKey ==
    ASSUME IInv
    PROVE  \/ rawAt \in {Before, After} /\ seen(cf, rawAt) = rawAt
           \/ /\ rawAt \notin {Before, After} /\ seen(cf, rawAt) \notin {Before, After}
              /\ seen(cf, rawAt) \in familyKeys
              /\ rawAt = prefixedKey(cf, seen(cf, rawAt))
<1>1. CASE rawAt \in {Before, After}
  BY <1>1 DEF seen
<1>2. CASE rawAt \in inRange
  <2>1. PICK k \in familyKeys : rawAt = prefixedKey(cf, k)
    BY <1>2, RangeIsFamily
  <2>2. cf \in Bytes /\ k \in Bytes
    BY IteratorsAssumption DEF IInv, familyKeys
  <2>. QED  BY <2>1, <2>2, SeenIsKey
<1>. QED  BY <1>1, <1>2 DEF IInv

\* A method of the pebbleIterator takes the caller from key to key as the cursor does.
LEMMA MethodsRefine ==
    ASSUME IInv
    PROVE  /\ \A target \in Target : pebbleSeek(target) =>
                  seen(cf, rawAt') \in Pebble!atOrAfter(target)
           /\ pebbleSeekToFirst => seen(cf, rawAt') \in Pebble!first(familyKeys)
           /\ pebbleSeekToLast => seen(cf, rawAt') \in Pebble!last(familyKeys)
           /\ pebbleNext => seen(cf, rawAt') \in Pebble!following
           /\ pebblePrev => seen(cf, rawAt') \in Pebble!preceding
<1>1. cf \in Bytes /\ familyKeys \subseteq Bytes /\ Before # After
  BY IteratorsAssumption DEF IInv, familyKeys
<1>2. inRange = {prefixedKey(cf, k) : k \in familyKeys}
  BY RangeIsFamily
<1>3. \A k \in familyKeys, l \in Bytes :
        /\ Precedes(prefixedKey(cf, k), prefixedKey(cf, l)) <=> Precedes(k, l)
        /\ Precedes(prefixedKey(cf, l), prefixedKey(cf, k)) <=> Precedes(l, k)
  BY <1>1, OrderIsKept
<1>4. ASSUME NEW target \in Target, pebbleSeek(target)
      PROVE  seen(cf, rawAt') \in Pebble!atOrAfter(target)
  <2>. DEFINE S == {k \in familyKeys : ~Precedes(k, target)}
  <2>1. target \in Bytes
    BY IteratorsAssumption
  <2>2. {r \in inRange : ~Precedes(r, prefixedKey(cf, target))} = {prefixedKey(cf, k) : k \in S}
    BY <1>2, <1>3, <2>1
  <2>3. rawAt' \in Engine!first({prefixedKey(cf, k) : k \in S})
    BY <1>4, <2>2, OneOrder DEF pebbleSeek, Engine!atOrAfter
  <2>4. S \in SUBSET Bytes
    BY <1>1
  <2>5. seen(cf, rawAt') \in Pebble!first(S)
    BY <1>1, <2>3, <2>4, EndsAreKept
  <2>. QED  BY <2>5, OneOrder DEF Pebble!atOrAfter
<1>5. ASSUME pebbleSeekToFirst PROVE seen(cf, rawAt') \in Pebble!first(familyKeys)
  BY <1>1, <1>2, <1>5, EndsAreKept DEF pebbleSeekToFirst
<1>6. ASSUME pebbleSeekToLast PROVE seen(cf, rawAt') \in Pebble!last(familyKeys)
  BY <1>1, <1>2, <1>6, EndsAreKept DEF pebbleSeekToLast
<1>. DEFINE here == seen(cf, rawAt)
<1>7. Pebble!following = CASE here = Before -> Pebble!first(familyKeys)
                           [] here = After  -> {After}
                           [] OTHER -> Pebble!first({k \in familyKeys : Precedes(here, k)})
  BY OneOrder DEF Pebble!following, seen, pebblePlace
<1>8. Pebble!preceding = CASE here = After  -> Pebble!last(familyKeys)
                           [] here = Before -> {Before}
                           [] OTHER -> Pebble!last({k \in familyKeys : Precedes(k, here)})
  BY OneOrder DEF Pebble!preceding, seen, pebblePlace
<1>9. ASSUME pebbleNext PROVE seen(cf, rawAt') \in Pebble!following
  <2>. DEFINE S == {k \in familyKeys : Precedes(here, k)}
  <2>1. CASE rawAt = Before
    <3>1. here = Before /\ rawAt' \in Engine!first(inRange)
      BY <1>1, <1>9, <2>1 DEF pebbleNext, Engine!following, seen
    <3>. QED  BY <1>1, <1>2, <1>7, <3>1, EndsAreKept
  <2>2. CASE rawAt = After
    <3>1. here = After /\ rawAt' = After
      BY <1>1, <1>9, <2>2 DEF pebbleNext, Engine!following, seen
    <3>. QED  BY <1>1, <1>7, <3>1 DEF seen
  <2>3. CASE rawAt \notin {Before, After}
    <3>1. here \in familyKeys /\ rawAt = prefixedKey(cf, here) /\ here \notin {Before, After}
      BY <2>3, PlaceIsKey
    <3>2. {r \in inRange : Precedes(rawAt, r)} = {prefixedKey(cf, k) : k \in S}
      <4>. HIDE DEF here
      <4>. QED  BY <1>1, <1>2, <1>3, <3>1
    <3>3. rawAt' \in Engine!first({r \in inRange : Precedes(rawAt, r)})
      BY <1>9, <2>3, OneOrder DEF pebbleNext, Engine!following
    <3>4. seen(cf, rawAt') \in Pebble!first(S)
      BY <1>1, <3>2, <3>3, EndsAreKept
    <3>. QED  BY <1>7, <3>1, <3>4
  <2>. QED  BY <2>1, <2>2, <2>3
<1>10. ASSUME pebblePrev PROVE seen(cf, rawAt') \in Pebble!preceding
  <2>. DEFINE S == {k \in familyKeys : Precedes(k, here)}
  <2>1. CASE rawAt = After
    <3>1. here = After /\ rawAt' \in Engine!last(inRange)
      BY <1>1, <1>10, <2>1 DEF pebblePrev, Engine!preceding, seen
    <3>. QED  BY <1>1, <1>2, <1>8, <3>1, EndsAreKept
  <2>2. CASE rawAt = Before
    <3>1. here = Before /\ rawAt' = Before
      BY <1>1, <1>10, <2>2 DEF pebblePrev, Engine!preceding, seen
    <3>. QED  BY <1>1, <1>8, <3>1 DEF seen
  <2>3. CASE rawAt \notin {Before, After}
    <3>1. here \in familyKeys /\ rawAt = prefixedKey(cf, here) /\ here \notin {Before, After}
      BY <2>3, PlaceIsKey
    <3>2. {r \in inRange : Precedes(r, rawAt)} = {prefixedKey(cf, k) : k \in S}
      <4>. HIDE DEF here
      <4>. QED  BY <1>1, <1>2, <1>3, <3>1
    <3>3. rawAt' \in Engine!last({r \in inRange : Precedes(r, rawAt)})
      BY <1>10, <2>3, OneOrder DEF pebblePrev, Engine!preceding
    <3>4. seen(cf, rawAt') \in Pebble!last(S)
      BY <1>1, <3>2, <3>3, EndsAreKept
    <3>. QED  BY <1>8, <3>1, <3>4
  <2>. QED  BY <2>1, <2>2, <2>3
<1>. QED  BY <1>4, <1>5, <1>6, <1>9, <1>10

-----------------------------------------------------------------------------

LEMMA Initially == Init => IInv
BY DEF Init, IInv, Engine!CursorInit

\* Every step keeps the invariant, and is a step of the cursor or a stutter.
LEMMA Step ==
    ASSUME IInv, [Moves \/ Close \/ UseClosed]_vars
    PROVE  IInv' /\ [Pebble!CursorNext]_(Pebble!cursorState)
<1>. USE DEF contents
<1>1. ASSUME UNCHANGED <<raw, cf, rawAt, call>>
      PROVE  IInv' /\ UNCHANGED Pebble!cursorState
  <2>1. inRange' = inRange /\ familyKeys' = familyKeys
    BY <1>1 DEF inRange, familyKeys
  <2>. QED  BY <1>1, <2>1 DEF IInv, Pebble!cursorState, pebblePlace
<1>2. ASSUME UNCHANGED <<raw, cf>>, rawAt' \in inRange \cup {Before, After}
      PROVE  IInv' /\ familyKeys' = familyKeys
  BY <1>2 DEF IInv, inRange, familyKeys
<1>3. ASSUME UNCHANGED <<raw, cf>>
      PROVE  pebblePlace' = seen(cf, rawAt')
  BY <1>3 DEF seen, pebblePlace
<1>4. ASSUME NEW target \in Target, Seek(target) PROVE IInv' /\ Pebble!Seek(target)
  <2>1. UNCHANGED <<raw, cf>> /\ pebbleSeek(target)
    BY <1>4 DEF Seek
  <2>2. rawAt' \in {r \in inRange : ~Precedes(r, prefixedKey(cf, target))} \cup {Before, After}
    BY <2>1, EndsAreInside, OneOrder DEF pebbleSeek, Engine!atOrAfter
  <2>3. seen(cf, rawAt') \in Pebble!atOrAfter(target)
    BY <2>1, MethodsRefine
  <2>. QED  BY <1>2, <1>3, <1>4, <2>1, <2>2, <2>3 DEF Seek, Pebble!Seek
<1>5. ASSUME SeekToFirst PROVE IInv' /\ Pebble!SeekToFirst
  <2>1. UNCHANGED <<raw, cf>> /\ pebbleSeekToFirst
    BY <1>5 DEF SeekToFirst, made
  <2>2. rawAt' \in inRange \cup {Before, After}
    BY <2>1, EndsAreInside DEF pebbleSeekToFirst
  <2>3. seen(cf, rawAt') \in Pebble!first(familyKeys)
    BY <2>1, MethodsRefine
  <2>. QED  BY <1>2, <1>3, <1>5, <2>1, <2>2, <2>3 DEF SeekToFirst, made, Pebble!SeekToFirst, Pebble!made
<1>6. ASSUME SeekToLast PROVE IInv' /\ Pebble!SeekToLast
  <2>1. UNCHANGED <<raw, cf>> /\ pebbleSeekToLast
    BY <1>6 DEF SeekToLast, made
  <2>2. rawAt' \in inRange \cup {Before, After}
    BY <2>1, EndsAreInside DEF pebbleSeekToLast
  <2>3. seen(cf, rawAt') \in Pebble!last(familyKeys)
    BY <2>1, MethodsRefine
  <2>. QED  BY <1>2, <1>3, <1>6, <2>1, <2>2, <2>3 DEF SeekToLast, made, Pebble!SeekToLast, Pebble!made
<1>7. ASSUME Next PROVE IInv' /\ Pebble!Next
  <2>1. UNCHANGED <<raw, cf>> /\ pebbleNext
    BY <1>7 DEF Next, made
  <2>2. rawAt' \in inRange \cup {Before, After}
    BY <2>1, EndsAreInside DEF pebbleNext, Engine!following
  <2>3. seen(cf, rawAt') \in Pebble!following
    BY <2>1, MethodsRefine
  <2>. QED  BY <1>2, <1>3, <1>7, <2>1, <2>2, <2>3 DEF Next, made, Pebble!Next, Pebble!made
<1>8. ASSUME Prev PROVE IInv' /\ Pebble!Prev
  <2>1. UNCHANGED <<raw, cf>> /\ pebblePrev
    BY <1>8 DEF Prev, made
  <2>2. rawAt' \in inRange \cup {Before, After}
    BY <2>1, EndsAreInside DEF pebblePrev, Engine!preceding
  <2>3. seen(cf, rawAt') \in Pebble!preceding
    BY <2>1, MethodsRefine
  <2>. QED  BY <1>2, <1>3, <1>8, <2>1, <2>2, <2>3 DEF Prev, made, Pebble!Prev, Pebble!made
<1>9. CASE Moves
  BY <1>9, <1>4, <1>5, <1>6, <1>7, <1>8 DEF Moves, Pebble!CursorNext
<1>10. CASE Close \/ UseClosed \/ UNCHANGED vars
  BY <1>10, <1>1 DEF Close, UseClosed, vars
<1>. QED  BY <1>9, <1>10

\* The invariant holds in every state.
THEOREM IteratorInvariant == Spec => []IInv
<1>1. IInv /\ [Moves \/ Close \/ UseClosed]_vars => IInv'
  BY Step
<1>. QED  BY <1>1, Initially, PTL DEF Spec

\* The iterator of PebbleDB is a cursor over the keys of its family, in their order,
\* whatever the names, the keys, the contents and the targets (pebble.go:219-245 and
\* 362-400).
THEOREM PebbleIteratorIsCursor == Spec => PebbleIsCursor
<1>1. Init => Pebble!CursorInit
  BY DEF Init, Engine!CursorInit, Pebble!CursorInit, Engine!New, Pebble!New, pebblePlace
<1>2. IInv /\ [Moves \/ Close \/ UseClosed]_vars
        => [Pebble!CursorNext]_(Pebble!cursorState)
  BY Step
<1>. QED  BY <1>1, <1>2, IteratorInvariant, PTL DEF Spec, PebbleIsCursor, Pebble!CursorSpec

-----------------------------------------------------------------------------
(* The order of the engine, and the sorted copy of the mock. *)

\* Sets of natural numbers have a least element.
LEMMA LeastNatural ==
    ASSUME NEW T, T \subseteq Nat, T # {}
    PROVE  \E x \in T : \A y \in T : x <= y
<1>. DEFINE R == OpToRel(<, Nat)
<1>1. IsWellFoundedOn(R, Nat)
  BY NatLessThanWellFounded
<1>2. R = {ss \in Nat \X Nat : ss[1] < ss[2]}
  BY DEF OpToRel
<1>. HIDE DEF R
<1>3. \E x \in T : \A y \in T : <<y, x>> \notin R
  BY <1>1, WFMin, Zenon
<1>4. \A x, y \in Nat : <<y, x>> \notin R => x <= y
  BY <1>2
<1>. QED  BY <1>3, <1>4

\* A key that comes before another one does not come after it; none before itself.
LEMMA Asymmetric ==
    ASSUME NEW a \in Bytes, NEW b \in Bytes, Precedes(a, b), Precedes(b, a)
    PROVE  FALSE
<1>1. Len(a) \in Nat /\ Len(b) \in Nat
  BY DEF Bytes
<1>2. PICK i \in 1..Len(b) :
          /\ \A m \in 1..(i - 1) : m <= Len(a) /\ a[m] = b[m]
          /\ i = Len(a) + 1 \/ (i <= Len(a) /\ a[i] < b[i])
  BY DEF Precedes
<1>3. PICK j \in 1..Len(a) :
          /\ \A m \in 1..(j - 1) : m <= Len(b) /\ b[m] = a[m]
          /\ j = Len(b) + 1 \/ (j <= Len(b) /\ b[j] < a[j])
  BY DEF Precedes
<1>4. \A m \in 1..Len(a) : a[m] \in Nat
  BY BytesAreNumbers
<1>5. \A m \in 1..Len(b) : b[m] \in Nat
  BY BytesAreNumbers
<1>6. CASE i < j
  <2>1. i \in 1..(j - 1) /\ i \in 1..Len(a)
    BY <1>1, <1>6
  <2>2. b[i] = a[i] /\ a[i] < b[i]
    BY <1>1, <1>2, <1>3, <2>1
  <2>. QED  BY <1>4, <2>1, <2>2
<1>7. CASE j < i
  <2>1. j \in 1..(i - 1) /\ j \in 1..Len(b)
    BY <1>1, <1>7
  <2>2. a[j] = b[j] /\ b[j] < a[j]
    BY <1>1, <1>2, <1>3, <2>1
  <2>. QED  BY <1>5, <2>1, <2>2
<1>8. CASE i = j
  <2>1. i \in 1..Len(a) /\ i \in 1..Len(b)
    BY <1>8
  <2>2. a[i] < b[i] /\ b[i] < a[i]
    BY <1>1, <1>2, <1>3, <1>8, <2>1
  <2>. QED  BY <1>4, <1>5, <2>1, <2>2
<1>. QED  BY <1>6, <1>7, <1>8

\* ... and the order is transitive.
LEMMA Transitive ==
    ASSUME NEW a \in Bytes, NEW b \in Bytes, NEW c \in Bytes, Precedes(a, b), Precedes(b, c)
    PROVE  Precedes(a, c)
<1>1. Len(a) \in Nat /\ Len(b) \in Nat /\ Len(c) \in Nat
  BY DEF Bytes
<1>2. PICK i \in 1..Len(b) :
          /\ \A m \in 1..(i - 1) : m <= Len(a) /\ a[m] = b[m]
          /\ i = Len(a) + 1 \/ (i <= Len(a) /\ a[i] < b[i])
  BY DEF Precedes
<1>3. PICK j \in 1..Len(c) :
          /\ \A m \in 1..(j - 1) : m <= Len(b) /\ b[m] = c[m]
          /\ j = Len(b) + 1 \/ (j <= Len(b) /\ b[j] < c[j])
  BY DEF Precedes
<1>4. /\ \A m \in 1..Len(a) : a[m] \in Nat
      /\ \A m \in 1..Len(b) : b[m] \in Nat
      /\ \A m \in 1..Len(c) : c[m] \in Nat
  BY BytesAreNumbers
<1>5. ASSUME NEW d \in 1..Len(c), d <= i, d <= j, d = Len(a) + 1 \/ (d <= Len(a) /\ a[d] < c[d])
      PROVE  Precedes(a, c)
  <2>1. ASSUME NEW m \in 1..(d - 1) PROVE m <= Len(a) /\ a[m] = c[m]
    <3>1. m \in 1..(i - 1) /\ m \in 1..(j - 1)
      BY <1>1, <1>5
    <3>. QED  BY <1>2, <1>3, <3>1
  <2>. QED  BY <1>5, <2>1 DEF Precedes
<1>6. CASE i < j
  <2>1. i \in 1..(j - 1) /\ i \in 1..Len(c)
    BY <1>1, <1>6
  <2>2. b[i] = c[i]
    BY <1>3, <2>1
  <2>. QED  BY <1>2, <1>5, <1>6, <2>1, <2>2
<1>7. CASE j < i
  <2>1. j \in 1..(i - 1) /\ j \in 1..Len(b)
    BY <1>1, <1>7
  <2>2. j <= Len(a) /\ a[j] = b[j]
    BY <1>2, <2>1
  <2>3. b[j] < c[j]
    BY <1>1, <1>3, <2>1
  <2>. QED  BY <1>5, <1>7, <2>2, <2>3
<1>8. CASE i = j
  <2>1. b[i] < c[i] /\ i \in 1..Len(c)
    BY <1>1, <1>3, <1>8
  <2>2. i <= Len(a) /\ a[i] < b[i] => a[i] < c[i]
    <3>1. i \in 1..Len(b) /\ (i <= Len(a) => i \in 1..Len(a))
      BY <1>1
    <3>. QED  BY <1>4, <2>1, <3>1
  <2>. QED  BY <1>2, <1>5, <1>8, <2>1, <2>2
<1>. QED  BY <1>1, <1>6, <1>7, <1>8

\* Of two keys one comes first.
LEMMA Total ==
    ASSUME NEW a \in Bytes, NEW b \in Bytes, a # b
    PROVE  Precedes(a, b) \/ Precedes(b, a)
<1>1. Len(a) \in Nat /\ Len(b) \in Nat
  BY DEF Bytes
<1>2. /\ \A m \in 1..Len(a) : a[m] \in Nat
      /\ \A m \in 1..Len(b) : b[m] \in Nat
  BY BytesAreNumbers
<1>. DEFINE D == {i \in 1..Len(a) : i <= Len(b) /\ a[i] # b[i]}
<1>3. CASE D = {}
  <2>1. \A i \in 1..Len(a) : i <= Len(b) => a[i] = b[i]
    BY <1>3
  <2>2. CASE Len(a) = Len(b)
    BY <1>1, <2>1, <2>2 DEF Bytes
  <2>3. CASE Len(a) < Len(b)
    <3>1. Len(a) + 1 \in 1..Len(b) /\ (Len(a) + 1) - 1 = Len(a)
      BY <1>1, <2>3
    <3>2. \A m \in 1..Len(a) : m <= Len(a) /\ a[m] = b[m]
      BY <1>1, <2>1, <2>3
    <3>. QED  BY <3>1, <3>2 DEF Precedes
  <2>4. CASE Len(b) < Len(a)
    <3>1. Len(b) + 1 \in 1..Len(a) /\ (Len(b) + 1) - 1 = Len(b)
      BY <1>1, <2>4
    <3>2. \A m \in 1..Len(b) : m <= Len(b) /\ b[m] = a[m]
      BY <1>1, <2>1, <2>4
    <3>. QED  BY <3>1, <3>2 DEF Precedes
  <2>. QED  BY <1>1, <2>2, <2>3, <2>4
<1>4. CASE D # {}
  <2>1. PICK i \in D : \A j \in D : i <= j
    <3>1. D \subseteq Nat
      OBVIOUS
    <3>. HIDE DEF D
    <3>. QED  BY <1>4, <3>1, LeastNatural
  <2>2. i \in 1..Len(a) /\ i \in 1..Len(b) /\ a[i] # b[i]
    BY <1>1
  <2>3. ASSUME NEW m \in 1..(i - 1) PROVE m <= Len(a) /\ m <= Len(b) /\ a[m] = b[m]
    <3>1. m \in 1..Len(a) /\ m <= Len(b) /\ m < i
      BY <1>1, <2>2
    <3>2. m \notin D
      BY <2>1, <3>1
    <3>. QED  BY <3>1, <3>2
  <2>4. a[i] < b[i] \/ b[i] < a[i]
    BY <1>2, <2>2
  <2>. QED  BY <2>2, <2>3, <2>4 DEF Precedes
<1>. QED  BY <1>3, <1>4

\* Every finite set of keys has a sorted list, so that NewIterator has one to copy: a
\* key stands in it after as many others as come before it.
LEMMA SortedExists ==
    ASSUME NEW S \in SUBSET Bytes, IsFiniteSet(S)
    PROVE  sorted(S) # {}
<1>. DEFINE n == Cardinality(S)
            below(k) == {l \in S : Precedes(l, k)}
            rank == [k \in S |-> Cardinality(below(k)) + 1]
<1>1. n \in Nat
  BY FS_CardinalityType
<1>2. ASSUME NEW k \in S
      PROVE  /\ IsFiniteSet(below(k)) /\ Cardinality(below(k)) \in Nat
             /\ Cardinality(below(k)) < n
  <2>1. below(k) \in SUBSET S /\ k \notin below(k)
    BY Asymmetric
  <2>. HIDE DEF below
  <2>2. /\ IsFiniteSet(below(k)) /\ Cardinality(below(k)) <= n
        /\ n = Cardinality(below(k)) => S = below(k)
    BY <2>1, FS_Subset
  <2>3. Cardinality(below(k)) \in Nat
    BY <2>2, FS_CardinalityType
  <2>. QED  BY <1>1, <2>1, <2>2, <2>3
<1>3. ASSUME NEW k \in S, NEW l \in S, Precedes(k, l)
      PROVE  Cardinality(below(k)) < Cardinality(below(l))
  <2>1. below(k) \in SUBSET below(l)
    BY <1>3, Transitive
  <2>2. k \in below(l) /\ k \notin below(k)
    BY <1>3, Asymmetric
  <2>3. IsFiniteSet(below(l)) /\ Cardinality(below(l)) \in Nat /\ Cardinality(below(k)) \in Nat
    BY <1>2
  <2>. HIDE DEF below
  <2>4. /\ Cardinality(below(k)) <= Cardinality(below(l))
        /\ Cardinality(below(l)) = Cardinality(below(k)) => below(l) = below(k)
    BY <2>1, <2>3, FS_Subset
  <2>. QED  BY <2>2, <2>3, <2>4
<1>4. /\ rank \in [S -> 1..n]
      /\ \A k, l \in S : Precedes(k, l) => rank[k] < rank[l]
  <2>. HIDE DEF below
  <2>. QED  BY <1>1, <1>2, <1>3
<1>. HIDE DEF rank
<1>5. \A k, l \in S : rank[k] = rank[l] => k = l
  <2>1. SUFFICES ASSUME NEW k \in S, NEW l \in S, rank[k] = rank[l], k # l PROVE FALSE
    OBVIOUS
  <2>2. Precedes(k, l) \/ Precedes(l, k)
    BY <2>1, Total
  <2>3. rank[k] \in 1..n
    BY <1>4
  <2>. QED  BY <1>4, <2>1, <2>2, <2>3
<1>6. rank \in Surjection(S, 1..n)
  <2>1. IsFiniteSet(1..n) /\ Cardinality(1..n) = n
    BY <1>1, FS_Interval
  <2>2. rank \in Injection(S, 1..n)
    BY <1>4, <1>5 DEF Injection, IsInjective
  <2>. QED  BY <2>1, <2>2, FS_Injection
<1>7. \A i \in 1..n : \E k \in S : rank[k] = i
  BY <1>6 DEF Surjection
<1>. DEFINE list == [i \in 1..n |-> CHOOSE k \in S : rank[k] = i]
<1>8. \A i \in 1..n : list[i] \in S /\ rank[list[i]] = i
  BY <1>7
<1>9. list \in [1..n -> S] /\ DOMAIN list = 1..n
  BY <1>8
<1>. HIDE DEF list
<1>10. Range(list) = S
  <2>1. ASSUME NEW k \in S PROVE \E i \in 1..n : list[i] = k
    <3>1. rank[k] \in 1..n
      BY <1>4
    <3>2. list[rank[k]] = k
      BY <1>5, <1>8, <3>1
    <3>. QED  BY <3>1, <3>2
  <2>. QED  BY <1>9, <2>1 DEF Range
<1>11. ASSUME NEW i \in 1..n, NEW j \in 1..n, i < j PROVE Precedes(list[i], list[j])
  <2>1. list[i] \in Bytes /\ list[j] \in Bytes /\ list[i] # list[j]
    BY <1>1, <1>8, <1>11
  <2>2. ~Precedes(list[j], list[i])
    <3>1. Precedes(list[j], list[i]) => j < i
      BY <1>4, <1>8
    <3>. QED  BY <1>1, <1>11, <3>1
  <2>. QED  BY <2>1, <2>2, Total
<1>12. list \in sorted(S)
  BY <1>9, <1>10, <1>11 DEF sorted
<1>. QED  BY <1>12

\* A snapshot is a sorted copy of the keys of the family.
Snapshot == IsFiniteSet(familyKeys) /\ entries \in sorted(familyKeys)

\* What sorted says, without sets of functions.
LEMMA Listed ==
    ASSUME IInv, Snapshot
    PROVE  /\ entries \in Seq(Key) /\ Len(entries) \in Nat
           /\ \A i \in 1..Len(entries) : entries[i] \in familyKeys /\ entries[i] \in Bytes
           /\ \A k \in familyKeys : \E i \in 1..Len(entries) : entries[i] = k
           /\ \A i, j \in 1..Len(entries) : i < j => Precedes(entries[i], entries[j])
           /\ \A i, j \in 1..Len(entries) : Precedes(entries[i], entries[j]) => i < j
<1>. DEFINE n == Cardinality(familyKeys)
<1>1. n \in Nat
  BY FS_CardinalityType DEF Snapshot
<1>2. familyKeys \subseteq Key /\ Key \subseteq Bytes
  BY IteratorsAssumption DEF familyKeys
<1>3. /\ entries \in [1..n -> familyKeys] /\ Range(entries) = familyKeys
      /\ \A i, j \in DOMAIN entries : i < j => Precedes(entries[i], entries[j])
  BY DEF Snapshot, sorted
<1>. HIDE DEF n
<1>4. entries \in Seq(Key) /\ Len(entries) = n /\ DOMAIN entries = 1..n
  BY <1>1, <1>2, <1>3
<1>5. \A k \in familyKeys : \E i \in 1..n : entries[i] = k
  BY <1>3, <1>4 DEF Range
<1>6. \A i \in 1..n : entries[i] \in familyKeys /\ entries[i] \in Bytes
  BY <1>2, <1>3
<1>7. ASSUME NEW i \in 1..n, NEW j \in 1..n, Precedes(entries[i], entries[j]), ~(i < j)
      PROVE  FALSE
  <2>1. CASE i = j
    BY <1>6, <1>7, <2>1, Asymmetric
  <2>2. CASE j < i
    BY <1>3, <1>4, <1>6, <1>7, <2>2, Asymmetric
  <2>. QED  BY <1>1, <1>7, <2>1, <2>2
<1>. QED  BY <1>1, <1>3, <1>4, <1>5, <1>6, <1>7

\* The place of an index into the list.
placeAt(p) ==
    CASE p < 0             -> Before
      [] p >= Len(entries) -> After
      [] OTHER             -> entries[p + 1]

\* If the keys of a set are in the list from an index on, the first is there ...
LEMMA FirstIs ==
    ASSUME IInv, Snapshot, NEW S \in SUBSET familyKeys, NEW m \in 0..Len(entries),
           \A i \in 1..Len(entries) : entries[i] \in S => i > m,
           m < Len(entries) => entries[m + 1] \in S
    PROVE  placeAt(m) \in Mock!first(S)
<1>1. /\ Len(entries) \in Nat
      /\ \A k \in familyKeys : \E i \in 1..Len(entries) : entries[i] = k
      /\ \A i, j \in 1..Len(entries) : i < j => Precedes(entries[i], entries[j])
  BY Listed
<1>2. CASE m = Len(entries)
  <2>1. S = {}
    BY <1>1, <1>2
  <2>2. placeAt(m) = After
    BY <1>1, <1>2 DEF placeAt
  <2>. QED  BY <2>1, <2>2 DEF Mock!first
<1>3. CASE m < Len(entries)
  <2>1. m + 1 \in 1..Len(entries) /\ m + 1 > m
    BY <1>1, <1>3
  <2>2. placeAt(m) = entries[m + 1]
    BY <1>1, <1>3 DEF placeAt
  <2>3. entries[m + 1] \in S
    BY <1>3
  <2>4. ASSUME NEW l \in S \ {entries[m + 1]} PROVE Precedes(entries[m + 1], l)
    <3>1. PICK i \in 1..Len(entries) : entries[i] = l
      BY <1>1
    <3>2. i > m /\ i # m + 1
      BY <3>1
    <3>3. m + 1 < i
      BY <1>1, <3>2
    <3>. QED  BY <1>1, <2>1, <3>1, <3>3
  <2>. QED  BY <2>2, <2>3, <2>4, OneOrder DEF Mock!first
<1>. QED  BY <1>1, <1>2, <1>3

\* ... and if they are up to an index, the last is there.
LEMMA LastIs ==
    ASSUME IInv, Snapshot, NEW S \in SUBSET familyKeys, NEW m \in 0..Len(entries),
           \A i \in 1..Len(entries) : entries[i] \in S => i <= m,
           m > 0 => entries[m] \in S
    PROVE  placeAt(m - 1) \in Mock!last(S)
<1>1. /\ Len(entries) \in Nat
      /\ \A k \in familyKeys : \E i \in 1..Len(entries) : entries[i] = k
      /\ \A i, j \in 1..Len(entries) : i < j => Precedes(entries[i], entries[j])
  BY Listed
<1>2. CASE m = 0
  <2>1. S = {}
    BY <1>1, <1>2
  <2>2. placeAt(m - 1) = Before
    BY <1>2 DEF placeAt
  <2>. QED  BY <2>1, <2>2 DEF Mock!last
<1>3. CASE m > 0
  <2>1. m \in 1..Len(entries) /\ m <= m /\ ~(m - 1 < 0) /\ ~(m - 1 >= Len(entries))
        /\ (m - 1) + 1 = m
    BY <1>1, <1>3
  <2>2. placeAt(m - 1) = entries[m]
    BY <2>1 DEF placeAt
  <2>3. entries[m] \in S
    BY <1>3
  <2>4. ASSUME NEW l \in S \ {entries[m]} PROVE Precedes(l, entries[m])
    <3>1. PICK i \in 1..Len(entries) : entries[i] = l
      BY <1>1
    <3>2. i <= m /\ i # m
      BY <3>1
    <3>3. i < m
      BY <1>1, <3>2
    <3>. QED  BY <1>1, <2>1, <3>1, <3>3
  <2>. QED  BY <2>2, <2>3, <2>4, OneOrder DEF Mock!last
<1>. QED  BY <1>1, <1>2, <1>3

\* Where sort.Search ends: the keys before the target are those before the index.
LEMMA SearchEnds ==
    ASSUME IInv, Snapshot, NEW target, mockSeek(target)
    PROVE  /\ pos' \in 0..Len(entries)
           /\ pos' < Len(entries) => ~Precedes(entries[pos' + 1], target)
           /\ \A i \in 1..Len(entries) : ~Precedes(entries[i], target) => i > pos'
<1>. DEFINE T == {i \in 0..Len(entries) :
                     i = Len(entries) \/ ~Precedes(entries[i + 1], target)}
<1>1. Len(entries) \in Nat
  BY Listed
<1>2. T \subseteq Nat /\ Len(entries) \in T
  BY <1>1
<1>3. pos' = CHOOSE x \in T : \A y \in T : x <= y
  BY DEF mockSeek, Min
<1>4. \A i \in T : i \in 0..Len(entries) /\ (i = Len(entries) \/ ~Precedes(entries[i + 1], target))
  OBVIOUS
<1>5. \A i \in 1..Len(entries) : ~Precedes(entries[i], target) => i - 1 \in T
  <2>1. SUFFICES ASSUME NEW i \in 1..Len(entries), ~Precedes(entries[i], target)
                 PROVE  i - 1 \in T
    OBVIOUS
  <2>2. i - 1 \in 0..Len(entries) /\ (i - 1) + 1 = i
    BY <1>1
  <2>. QED  BY <2>1, <2>2
<1>. HIDE DEF T
<1>6. \E x \in T : \A y \in T : x <= y
  BY <1>2, LeastNatural
<1>7. pos' \in T /\ \A y \in T : pos' <= y
  BY <1>3, <1>6
<1>8. ASSUME NEW i \in 1..Len(entries), ~Precedes(entries[i], target) PROVE i > pos'
  <2>1. pos' <= i - 1 /\ pos' \in Nat
    BY <1>2, <1>5, <1>7, <1>8
  <2>. QED  BY <2>1
<1>. QED  BY <1>1, <1>4, <1>7, <1>8

-----------------------------------------------------------------------------
(* The methods of the mockIterator. *)

\* The type of what changes, and the snapshot; with MaxPast = 0 the index is at most
\* one past an end.
MInv ==
    /\ IInv /\ Snapshot
    /\ closed \in BOOLEAN /\ reached \in BOOLEAN
    /\ call \in Calls
    /\ pos \in (0 - 1 - MaxPast)..(Len(entries) + MaxPast)

\* The storage keys are finitely many, and no two keys of a family have the same.
LEMMA FamilyIsFinite ==
    ASSUME IInv, IsFiniteSet(raw)
    PROVE  IsFiniteSet(familyKeys)
<1>. DEFINE f == [r \in inRange |-> stripped(cf, r)]
<1>1. IsFiniteSet(inRange)
  BY FS_Subset DEF inRange
<1>2. inRange = {prefixedKey(cf, k) : k \in familyKeys}
  BY RangeIsFamily
<1>3. \A k \in familyKeys : stripped(cf, prefixedKey(cf, k)) = k
  BY StrippedIsKey, IteratorsAssumption DEF IInv, familyKeys
<1>4. f \in [inRange -> familyKeys]
  BY <1>2, <1>3
<1>5. \A k \in familyKeys : \E r \in inRange : f[r] = k
  <2>1. SUFFICES ASSUME NEW k \in familyKeys PROVE \E r \in inRange : f[r] = k
    OBVIOUS
  <2>2. prefixedKey(cf, k) \in inRange
    BY <1>2
  <2>. QED  BY <1>3, <2>2
<1>. HIDE DEF f
<1>6. f \in Surjection(inRange, familyKeys)
  BY <1>4, <1>5 DEF Surjection
<1>. QED  BY <1>1, <1>6, FS_Surjection

LEMMA MockFirst == Init => MInv
<1>. SUFFICES ASSUME Init PROVE MInv
  OBVIOUS
<1>1. IInv /\ IsFiniteSet(raw)
  BY Initially DEF Init
<1>2. Snapshot
  BY <1>1, FamilyIsFinite DEF Snapshot, Init
<1>3. Len(entries) \in Nat
  BY <1>1, <1>2, Listed
<1>4. call \in Calls
  BY DEF Init, Calls, Engine!CursorInit
<1>5. pos \in (0 - 1 - MaxPast)..(Len(entries) + MaxPast)
  <2>1. pos = 0 - 1 /\ MaxPast \in Nat
    BY IteratorsAssumption DEF Init
  <2>. QED  BY <1>3, <2>1
<1>. QED  BY <1>1, <1>2, <1>4, <1>5 DEF Init, MInv

\* Every call flips the bit.
LEMMA CallsAreCalls ==
    ASSUME call \in Calls
    PROVE  /\ \A op \in Methods : [op |-> op, turn |-> 1 - call.turn] \in Calls
           /\ \A target \in Target :
                  [op |-> "Seek", target |-> target, turn |-> 1 - call.turn] \in Calls
<1>1. call.turn \in 0..1
  BY DEF Calls, Engine!New
<1>2. 1 - call.turn \in 0..1
  BY <1>1
<1>. QED  BY <1>2 DEF Calls

LEMMA MockStep ==
    ASSUME MInv, [Moves \/ Close \/ UseClosed]_vars
    PROVE  MInv'
<1>. USE DEF contents
<1>. DEFINE bounds == (0 - 1 - MaxPast)..(Len(entries) + MaxPast)
<1>1. IInv /\ Snapshot /\ call \in Calls /\ pos \in bounds /\ IInv'
  BY Step DEF MInv
<1>2. Len(entries) \in Nat /\ MaxPast \in Nat
  BY <1>1, Listed, IteratorsAssumption
<1>3. UNCHANGED <<raw, cf, entries>>
  BY DEF Moves, Seek, SeekToFirst, SeekToLast, Next, Prev, made, Close, UseClosed, vars
<1>4. Snapshot'
  BY <1>1, <1>3 DEF Snapshot, familyKeys
<1>5. call' \in Calls /\ closed' \in BOOLEAN /\ reached' \in BOOLEAN
  <2>1. CASE \E target \in Target : Seek(target)
    BY <1>1, <2>1, CallsAreCalls DEF Seek, MInv
  <2>2. CASE SeekToFirst \/ SeekToLast \/ Next \/ Prev
    BY <1>1, <2>2, CallsAreCalls DEF SeekToFirst, SeekToLast, Next, Prev, made, MInv, Methods
  <2>3. CASE Close \/ UseClosed \/ UNCHANGED vars
    BY <1>1, <2>3 DEF Close, UseClosed, vars, MInv
  <2>. QED  BY <2>1, <2>2, <2>3 DEF Moves
<1>6. pos' \in bounds
  <2>1. CASE \E target \in Target : Seek(target)
    <3>1. pos' \in 0..Len(entries)
      BY <1>1, <2>1, SearchEnds DEF Seek
    <3>. QED  BY <1>2, <3>1
  <2>2. CASE SeekToFirst \/ SeekToLast
    BY <1>2, <2>2 DEF SeekToFirst, SeekToLast, mockSeekToFirst, mockSeekToLast
  <2>3. CASE Next \/ Prev
    BY <1>1, <1>2, <2>3 DEF Next, Prev, mockNext, mockPrev
  <2>4. CASE Close \/ UseClosed \/ UNCHANGED vars
    BY <1>1, <2>4 DEF Close, UseClosed, vars
  <2>. QED  BY <2>1, <2>2, <2>3, <2>4 DEF Moves
<1>. QED  BY <1>1, <1>3, <1>4, <1>5, <1>6 DEF MInv

\* A method of the mockIterator takes the caller from key to key as the cursor does,
\* if the caller makes no move beyond an end.
LEMMA MockMethods ==
    ASSUME MInv, MaxPast = 0
    PROVE  /\ \A target \in Target : mockSeek(target) =>
                  placeAt(pos') \in Mock!atOrAfter(target)
           /\ mockSeekToFirst => placeAt(pos') \in Mock!first(familyKeys)
           /\ mockSeekToLast => placeAt(pos') \in Mock!last(familyKeys)
           /\ pos < Len(entries) /\ mockNext => placeAt(pos') \in Mock!following
           /\ pos > 0 - 1 /\ mockPrev => placeAt(pos') \in Mock!preceding
<1>1. IInv /\ Snapshot /\ pos \in (0 - 1)..Len(entries) /\ Before # After
  BY IteratorsAssumption DEF MInv
<1>. DEFINE n == Len(entries)
<1>2. /\ n \in Nat
      /\ \A i \in 1..n : entries[i] \in familyKeys /\ entries[i] \in Bytes
      /\ \A i, j \in 1..n : i < j => Precedes(entries[i], entries[j])
      /\ \A i, j \in 1..n : Precedes(entries[i], entries[j]) => i < j
  BY <1>1, Listed
<1>3. \A i \in 1..n : entries[i] \notin {Before, After}
  BY <1>2, IteratorsAssumption
<1>4. mockPlace = placeAt(pos)
  BY DEF mockPlace, placeAt
<1>. DEFINE here == placeAt(pos)
<1>5. Mock!following = CASE here = Before -> Mock!first(familyKeys)
                          [] here = After  -> {After}
                          [] OTHER -> Mock!first({k \in familyKeys : Precedes(here, k)})
  BY <1>4, OneOrder DEF Mock!following
<1>6. Mock!preceding = CASE here = After  -> Mock!last(familyKeys)
                          [] here = Before -> {Before}
                          [] OTHER -> Mock!last({k \in familyKeys : Precedes(k, here)})
  BY <1>4, OneOrder DEF Mock!preceding
<1>7. ASSUME NEW target \in Target, mockSeek(target)
      PROVE  placeAt(pos') \in Mock!atOrAfter(target)
  <2>. DEFINE S == {k \in familyKeys : ~Precedes(k, target)}
  <2>1. PICK m \in 0..n :
            /\ m = pos'
            /\ m < n => ~Precedes(entries[m + 1], target)
            /\ \A i \in 1..n : ~Precedes(entries[i], target) => i > m
    BY <1>1, <1>7, SearchEnds
  <2>2. m < n => m + 1 \in 1..n
    BY <1>2
  <2>3. /\ S \in SUBSET familyKeys
        /\ m < n => entries[m + 1] \in S
        /\ \A i \in 1..n : entries[i] \in S => i > m
    BY <1>2, <2>1, <2>2
  <2>4. Mock!atOrAfter(target) = Mock!first(S)
    BY OneOrder DEF Mock!atOrAfter
  <2>. HIDE DEF S
  <2>5. placeAt(m) \in Mock!first(S)
    BY <1>1, <2>3, FirstIs
  <2>. QED  BY <2>1, <2>4, <2>5
<1>8. placeAt(0) \in Mock!first(familyKeys)
  BY <1>1, <1>2, FirstIs
<1>9. placeAt(n - 1) \in Mock!last(familyKeys)
  BY <1>1, <1>2, LastIs
<1>10. ASSUME pos < n, mockNext PROVE placeAt(pos') \in Mock!following
  <2>1. pos' = pos + 1 /\ pos + 1 \in 0..n
    BY <1>1, <1>2, <1>10 DEF mockNext
  <2>2. CASE pos < 0
    <3>1. here = Before
      BY <1>1, <1>2, <2>2 DEF placeAt
    <3>2. pos' = 0
      BY <1>1, <2>1, <2>2
    <3>3. placeAt(pos') \in Mock!first(familyKeys)
      BY <1>8, <3>2
    <3>. QED  BY <1>1, <1>5, <3>1, <3>3
  <2>3. CASE ~(pos < 0)
    <3>1. pos + 1 \in 1..n /\ here = entries[pos + 1]
      BY <1>1, <1>2, <1>10, <2>3 DEF placeAt
    <3>. DEFINE S == {k \in familyKeys : Precedes(here, k)}
    <3>2. \A i \in 1..n : entries[i] \in S => i > pos + 1
      BY <1>2, <3>1
    <3>3. pos + 1 < n => entries[(pos + 1) + 1] \in S
      BY <1>2, <3>1
    <3>4. placeAt(pos + 1) \in Mock!first(S)
      BY <1>1, <2>1, <3>2, <3>3, FirstIs
    <3>5. here # Before /\ here # After
      BY <1>3, <3>1
    <3>. QED  BY <1>5, <2>1, <3>4, <3>5
  <2>. QED  BY <2>2, <2>3
<1>11. ASSUME pos > 0 - 1, mockPrev PROVE placeAt(pos') \in Mock!preceding
  <2>1. pos' = pos - 1 /\ pos \in 0..n
    BY <1>1, <1>2, <1>11 DEF mockPrev
  <2>2. CASE pos = n
    <3>1. here = After
      BY <1>2, <2>2 DEF placeAt
    <3>2. placeAt(pos') \in Mock!last(familyKeys)
      BY <1>9, <2>1, <2>2
    <3>. QED  BY <1>1, <1>6, <3>1, <3>2
  <2>3. CASE pos # n
    <3>1. pos + 1 \in 1..n /\ here = entries[pos + 1]
      BY <1>2, <2>1, <2>3 DEF placeAt
    <3>. DEFINE S == {k \in familyKeys : Precedes(k, here)}
    <3>2. \A i \in 1..n : entries[i] \in S => i <= pos
      BY <1>2, <2>1, <3>1
    <3>3. pos > 0 => entries[pos] \in S
      BY <1>2, <2>1, <3>1
    <3>4. placeAt(pos - 1) \in Mock!last(S)
      BY <1>1, <2>1, <3>2, <3>3, LastIs
    <3>5. here # Before /\ here # After
      BY <1>3, <3>1
    <3>. QED  BY <1>1, <1>6, <2>1, <3>4, <3>5
  <2>. QED  BY <2>2, <2>3
<1>. QED  BY <1>7, <1>8, <1>9, <1>10, <1>11 DEF mockSeekToFirst, mockSeekToLast

LEMMA MockRefines ==
    ASSUME MInv, MaxPast = 0, [Moves \/ Close \/ UseClosed]_vars
    PROVE  [Mock!CursorNext]_(Mock!cursorState)
<1>. USE DEF contents
<1>1. UNCHANGED <<raw, cf, entries>> /\ familyKeys' = familyKeys
  BY DEF Moves, Seek, SeekToFirst, SeekToLast, Next, Prev, made, Close, UseClosed, vars, familyKeys
<1>2. mockPlace' = placeAt(pos')
  BY <1>1 DEF mockPlace, placeAt
<1>3. ASSUME NEW target \in Target, Seek(target) PROVE Mock!Seek(target)
  BY <1>1, <1>2, <1>3, MockMethods DEF Seek, Mock!Seek
<1>4. ASSUME SeekToFirst PROVE Mock!SeekToFirst
  BY <1>1, <1>2, <1>4, MockMethods DEF SeekToFirst, made, Mock!SeekToFirst, Mock!made
<1>5. ASSUME SeekToLast PROVE Mock!SeekToLast
  BY <1>1, <1>2, <1>5, MockMethods DEF SeekToLast, made, Mock!SeekToLast, Mock!made
<1>6. ASSUME Next PROVE Mock!Next
  <2>1. pos < Len(entries)
    <3>1. IInv /\ Snapshot /\ pos \in (0 - 1 - MaxPast)..(Len(entries) + MaxPast)
      BY DEF MInv
    <3>2. Len(entries) \in Nat
      BY <3>1, Listed
    <3>. QED  BY <1>6, <3>2 DEF Next
  <2>2. placeAt(pos') \in Mock!following
    BY <1>6, <2>1, MockMethods DEF Next
  <2>. QED  BY <1>1, <1>2, <1>6, <2>2 DEF Next, made, Mock!Next, Mock!made
<1>7. ASSUME Prev PROVE Mock!Prev
  <2>1. pos > 0 - 1
    BY <1>7 DEF Prev
  <2>2. placeAt(pos') \in Mock!preceding
    BY <1>7, <2>1, MockMethods DEF Prev
  <2>. QED  BY <1>1, <1>2, <1>7, <2>2 DEF Prev, made, Mock!Prev, Mock!made
<1>8. CASE Moves
  BY <1>3, <1>4, <1>5, <1>6, <1>7, <1>8 DEF Moves, Mock!CursorNext
<1>9. CASE Close \/ UseClosed \/ UNCHANGED vars
  BY <1>1, <1>9 DEF Close, UseClosed, vars, Mock!cursorState, mockPlace
<1>. QED  BY <1>8, <1>9

\* The type of the state for all names without a NUL byte, keys and contents: the
\* pebbleIterator stands on keys of its family only, and the index of the mockIterator
\* is no further from its entries than the caller has moved (mock.go:309-322).
THEOREM TypeCorrect == Spec => []TypeOK
<1>1. MInv => TypeOK
  <2>. SUFFICES ASSUME MInv PROVE TypeOK
    OBVIOUS
  <2>1. IInv /\ Snapshot
    BY DEF MInv
  <2>2. entries \in Seq(Key)
    BY <2>1, Listed
  <2>3. rawAt \in {prefixedKey(cf, k) : k \in familyKeys} \cup {Before, After}
    BY <2>1, RangeIsFamily DEF IInv
  <2>. QED  BY <2>1, <2>2, <2>3 DEF MInv, IInv, TypeOK
<1>2. MInv /\ [Moves \/ Close \/ UseClosed]_vars => MInv'
  BY MockStep
<1>. QED  BY <1>1, <1>2, MockFirst, PTL DEF Spec

\* The iterator of MockStore is the same cursor, whatever the keys, the contents and the
\* targets, for a caller that makes no move beyond an end (mock.go:137-164, 309-335).
THEOREM MockIteratorIsCursor ==
    ASSUME MaxPast = 0
    PROVE  Spec => MockIsCursor
<1>1. Init => Mock!CursorInit
  <2>. SUFFICES ASSUME Init PROVE Mock!CursorInit
    OBVIOUS
  <2>1. mockPlace = Before
    BY DEF Init, mockPlace
  <2>. QED  BY <2>1 DEF Init, Engine!CursorInit, Mock!CursorInit, Engine!New, Mock!New
<1>2. MInv /\ [Moves \/ Close \/ UseClosed]_vars => MInv'
  BY MockStep
<1>3. MInv /\ [Moves \/ Close \/ UseClosed]_vars
        => [Mock!CursorNext]_(Mock!cursorState)
  BY MockRefines
<1>. QED  BY <1>1, <1>2, <1>3, MockFirst, PTL DEF Spec, MockIsCursor, Mock!CursorSpec

=============================================================================
