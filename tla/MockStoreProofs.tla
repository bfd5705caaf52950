---------------------------- MODULE MockStoreProofs ----------------------------
(***************************************************************************)
(* MockStore implements Store, for any number of goroutines, any families, *)
(* keys and batches.                                                       *)
(***************************************************************************)
EXTENDS MockStore, WellFoundedInduction, SequenceTheorems, FiniteSetTheorems, TLAPS

-----------------------------------------------------------------------------
(* What a batch makes of the contents. *)

Data == [Family -> Contents]
Update == Family \X Key \X (Value \cup {Absent})

\* Sets of natural numbers have a least element: induction for what follows.
LEMMA LeastNatural ==
    ASSUME NEW T, T \subseteq Nat, T # {}
    PROVE  \E x \in T : \A y \in T : x <= y
<1>. DEFINE R == OpToRel(<, Nat)
<1>1. IsWellFoundedOn(R, Nat)
  BY NatLessThanWellFounded
<1>2. R = {ss \in Nat \X Nat : ss[1] < ss[2]}
  BY DEF OpToRel
<1>. HIDE DEF R
<1>3. \E x \in T : \A y \in T : <<y, x>> \notin R
  BY <1>1, WFMin, Zenon
<1>4. \A x, y \in Nat : <<y, x>> \notin R => x <= y
  BY <1>2
<1>. QED  BY <1>3, <1>4

\* A key that is written is written last by one of the updates, and by one only.
LEMMA LatestIsOne ==
    ASSUME NEW updates \in Seq(Update), NEW cf, NEW k
    PROVE  /\ \A i, j \in latest(updates, cf, k) : i = j
           /\ \A i \in DOMAIN updates : updates[i][1] = cf /\ updates[i][2] = k
                                           => latest(updates, cf, k) # {}
<1>1. Len(updates) \in Nat /\ DOMAIN updates = 1..Len(updates)
  BY LenProperties
<1>2. \A i, j \in latest(updates, cf, k) : i = j
  BY <1>1 DEF latest
<1>3. ASSUME NEW i \in DOMAIN updates, updates[i][1] = cf, updates[i][2] = k
      PROVE  latest(updates, cf, k) # {}
  <2>. DEFINE W == {j \in DOMAIN updates : updates[j][1] = cf /\ updates[j][2] = k}
              T == {Len(updates) - j : j \in W}
  <2>1. T \subseteq Nat /\ T # {}
    BY <1>1, <1>3
  <2>. HIDE DEF T
  <2>2. PICK x \in T : \A y \in T : x <= y
    BY <2>1, LeastNatural
  <2>3. PICK j \in W : x = Len(updates) - j
    BY <2>2 DEF T
  <2>4. \A l \in W : Len(updates) - j <= Len(updates) - l
    BY <2>2, <2>3 DEF T
  <2>5. \A l \in W : l <= j
    BY <1>1, <2>4
  <2>6. j \in latest(updates, cf, k)
    BY <1>1, <2>5 DEF latest
  <2>. QED  BY <2>6
<1>. QED  BY <1>2, <1>3

\* The contents of a key after some updates.
LEMMA AfterAt ==
    ASSUME NEW updates \in Seq(Update), NEW contents,
           NEW cf \in DOMAIN contents, NEW k \in DOMAIN contents[cf]
    PROVE  /\ \A i \in latest(updates, cf, k) : after(contents, updates)[cf][k] = updates[i][3]
           /\ latest(updates, cf, k) = {} => after(contents, updates)[cf][k] = contents[cf][k]
<1>1. \A i \in latest(updates, cf, k) :
          i = CHOOSE j \in latest(updates, cf, k) : TRUE
  BY LatestIsOne
<1>. QED  BY <1>1 DEF after

LEMMA SameData ==
    ASSUME NEW x \in Data, NEW y \in Data,
           \A cf \in Family, k \in Key : x[cf][k] = y[cf][k]
    PROVE  x = y
<1>1. ASSUME NEW cf \in Family PROVE x[cf] = y[cf]
  BY DEF Data, Contents
<1>. QED  BY <1>1 DEF Data

LEMMA PutAt ==
    ASSUME NEW contents \in Data, NEW u \in Update
    PROVE  /\ put(contents, u) \in Data
           /\ \A cf \in Family, k \in Key :
                put(contents, u)[cf][k] =
                    IF u[1] = cf /\ u[2] = k THEN u[3] ELSE contents[cf][k]
<1>1. u[1] \in Family /\ u[2] \in Key /\ u[3] \in Value \cup {Absent}
  BY DEF Update
<1>2. \A cf \in Family : contents[cf] \in Contents
  BY DEF Data
<1>3. [contents[u[1]] EXCEPT ![u[2]] = u[3]] \in Contents
  BY <1>1, <1>2 DEF Contents
<1>. QED  BY <1>1, <1>2, <1>3 DEF put, Data, Contents

LEMMA AfterType ==
    ASSUME NEW contents \in Data, NEW updates \in Seq(Update)
    PROVE  after(contents, updates) \in Data
<1>1. ASSUME NEW cf \in Family, NEW k \in Key
      PROVE  after(contents, updates)[cf][k] \in Value \cup {Absent}
  <2>1. /\ cf \in DOMAIN contents /\ k \in DOMAIN contents[cf]
        /\ contents[cf][k] \in Value \cup {Absent}
    BY DEF Data, Contents
  <2>2. CASE latest(updates, cf, k) = {}
    BY <2>1, <2>2, AfterAt
  <2>3. ASSUME NEW i \in latest(updates, cf, k)
        PROVE  after(contents, updates)[cf][k] \in Value \cup {Absent}
    <3>1. after(contents, updates)[cf][k] = updates[i][3]
      BY <2>1, AfterAt
    <3>2. updates[i] \in Update
      BY DEF latest
    <3>. QED  BY <3>1, <3>2 DEF Update
  <2>. QED  BY <2>2, <2>3
<1>2. /\ DOMAIN contents = Family
      /\ \A cf \in Family : DOMAIN contents[cf] = Key
  BY DEF Data, Contents
<1>3. ASSUME NEW cf \in Family PROVE after(contents, updates)[cf] \in Contents
  <2>1. after(contents, updates)[cf] = [k \in Key |-> after(contents, updates)[cf][k]]
    BY <1>2 DEF after
  <2>. QED  BY <1>1, <2>1 DEF Contents
<1>4. after(contents, updates) = [cf \in Family |-> after(contents, updates)[cf]]
  BY <1>2 DEF after
<1>. QED  BY <1>3, <1>4 DEF Data

LEMMA AfterNone ==
    ASSUME NEW contents \in Data
    PROVE  after(contents, <<>>) = contents
<1>1. <<>> \in Seq(Update) /\ \A cf, k : latest(<<>>, cf, k) = {}
  BY DEF latest
<1>2. after(contents, <<>>) \in Data
  BY <1>1, AfterType
<1>3. ASSUME NEW cf \in Family, NEW k \in Key
      PROVE  after(contents, <<>>)[cf][k] = contents[cf][k]
  <2>1. cf \in DOMAIN contents /\ k \in DOMAIN contents[cf]
    BY DEF Data, Contents
  <2>2. latest(<<>>, cf, k) = {}
    BY <1>1
  <2>. QED  BY <2>1, <2>2 DEF after
<1>. QED  BY <1>2, <1>3, SameData

\* A batch is its first operation and then the others.
LEMMA AfterTail ==
    ASSUME NEW contents \in Data, NEW updates \in Seq(Update), updates # <<>>
    PROVE  after(put(contents, Head(updates)), Tail(updates)) = after(contents, updates)
<1>. DEFINE u == Head(updates)
            more == Tail(updates)
            next == put(contents, u)
<1>1. /\ u \in Update /\ more \in Seq(Update) /\ u = updates[1]
      /\ Len(updates) \in Nat /\ Len(updates) >= 1 /\ Len(more) = Len(updates) - 1
      /\ DOMAIN updates = 1..Len(updates) /\ DOMAIN more = 1..Len(more)
      /\ \A i \in 1..Len(more) : more[i] = updates[i + 1]
  OBVIOUS
<1>. HIDE DEF u, more
<1>2. next \in Data
  BY <1>1, PutAt
<1>3. after(next, more) \in Data /\ after(contents, updates) \in Data
  BY <1>1, <1>2, AfterType
<1>4. ASSUME NEW cf \in Family, NEW k \in Key
      PROVE  after(next, more)[cf][k] = after(contents, updates)[cf][k]
  <2>1. /\ cf \in DOMAIN contents /\ k \in DOMAIN contents[cf]
        /\ cf \in DOMAIN next /\ k \in DOMAIN next[cf]
    BY <1>2 DEF Data, Contents
  <2>2. next[cf][k] = IF u[1] = cf /\ u[2] = k THEN u[3] ELSE contents[cf][k]
    BY <1>1, PutAt
  <2>. HIDE DEF next
  <2>3. ASSUME NEW i \in latest(more, cf, k)
        PROVE  after(next, more)[cf][k] = after(contents, updates)[cf][k]
    <3>1. i \in 1..Len(more) /\ i + 1 \in 1..Len(updates) /\ more[i] = updates[i + 1]
      BY <1>1 DEF latest
    <3>2. ASSUME NEW j \in DOMAIN updates, j > i + 1
          PROVE  ~(updates[j][1] = cf /\ updates[j][2] = k)
      <4>1. j - 1 \in DOMAIN more /\ j - 1 > i /\ more[j - 1] = updates[(j - 1) + 1]
        BY <1>1, <3>1, <3>2
      <4>2. (j - 1) + 1 = j
        BY <1>1
      <4>. QED  BY <4>1, <4>2 DEF latest
    <3>3. i + 1 \in latest(updates, cf, k)
      BY <1>1, <3>1, <3>2 DEF latest
    <3>4. after(contents, updates)[cf][k] = updates[i + 1][3]
      BY <2>1, <3>3, AfterAt
    <3>5. after(next, more)[cf][k] = more[i][3]
      BY <1>1, <2>1, AfterAt
    <3>. QED  BY <3>1, <3>4, <3>5
  <2>4. ASSUME latest(more, cf, k) = {}
        PROVE  after(next, more)[cf][k] = after(contents, updates)[cf][k]
    <3>1. \A i \in DOMAIN more : ~(more[i][1] = cf /\ more[i][2] = k)
      <4>1. more \in Seq(Update)
        BY <1>1
      <4>. QED  BY <2>4, <4>1, LatestIsOne, Zenon
    <3>2. ASSUME NEW j \in DOMAIN updates, j > 1
          PROVE  ~(updates[j][1] = cf /\ updates[j][2] = k)
      <4>1. j - 1 \in DOMAIN more /\ more[j - 1] = updates[(j - 1) + 1] /\ (j - 1) + 1 = j
        BY <1>1, <3>2
      <4>. QED  BY <3>1, <4>1
    <3>3. after(next, more)[cf][k] = next[cf][k]
      BY <1>1, <2>1, <2>4, AfterAt
    <3>4. CASE u[1] = cf /\ u[2] = k
      <4>1. 1 \in latest(updates, cf, k)
        BY <1>1, <3>2, <3>4 DEF latest
      <4>2. after(contents, updates)[cf][k] = updates[1][3]
        BY <2>1, <4>1, AfterAt
      <4>. QED  BY <1>1, <2>2, <3>3, <3>4, <4>2
    <3>5. CASE ~(u[1] = cf /\ u[2] = k)
      <4>1. \A j \in DOMAIN updates : j = 1 \/ j > 1
        BY <1>1
      <4>2. latest(updates, cf, k) = {}
        BY <1>1, <3>2, <3>5, <4>1 DEF latest
      <4>3. after(contents, updates)[cf][k] = contents[cf][k]
        BY <2>1, <4>2, AfterAt
      <4>. QED  BY <2>2, <3>3, <3>5, <4>3
    <3>. QED  BY <3>4, <3>5
  <2>. QED  BY <2>3, <2>4
<1>. QED  BY <1>3, <1>4, SameData DEF u, more

LEMMA AfterOne ==
    ASSUME NEW contents \in Data, NEW u \in Update
    PROVE  after(contents, <<u>>) = put(contents, u)
<1>1. <<u>> \in Seq(Update) /\ <<u>> # <<>> /\ Head(<<u>>) = u /\ Tail(<<u>>) = <<>>
  OBVIOUS
<1>2. after(put(contents, u), <<>>) = put(contents, u)
  BY PutAt, AfterNone
<1>. QED  BY <1>1, <1>2, AfterTail

\* wipe deletes every key ...
LEMMA WipeIsAll ==
    ASSUME IsFiniteSet(Family), IsFiniteSet(Key)
    PROVE  /\ wipe \in Seq(Update)
           /\ \A cf \in Family, k \in Key : \E i \in DOMAIN wipe : wipe[i] = <<cf, k, Absent>>
           /\ \A i \in DOMAIN wipe : wipe[i][3] = Absent
<1>. DEFINE S == {<<cf, k, Absent>> : cf \in Family, k \in Key}
            f == [p \in Family \X Key |-> <<p[1], p[2], Absent>>]
            n == Cardinality(S)
<1>1. IsFiniteSet(Family \X Key)
  BY FS_Product
<1>2. \E g : g \in Surjection(Family \X Key, S)
  <2>1. f \in [Family \X Key -> S]
    OBVIOUS
  <2>2. ASSUME NEW u \in S PROVE \E p \in Family \X Key : f[p] = u
    <3>1. PICK cf \in Family, k \in Key : u = <<cf, k, Absent>>
      OBVIOUS
    <3>2. <<cf, k>> \in Family \X Key /\ f[<<cf, k>>] = u
      BY <3>1
    <3>. QED  BY <3>2
  <2>. HIDE DEF f, S
  <2>3. f \in Surjection(Family \X Key, S)
    BY <2>1, <2>2 DEF Surjection
  <2>. QED  BY <2>3
<1>3. IsFiniteSet(S)
  BY <1>1, <1>2, FS_Surjection
<1>4. S \subseteq Update /\ \A u \in S : u[3] = Absent
  BY DEF Update
<1>5. \A cf \in Family, k \in Key : <<cf, k, Absent>> \in S
  OBVIOUS
<1>6. wipe = SetToSeq(S)
  BY DEF wipe
<1>. HIDE DEF S
<1>7. n \in Nat /\ ExistsBijection(1..n, S)
  BY <1>3, FS_CardinalityType
<1>8. \E g \in [1..n -> S] : IsInjective(g)
  BY <1>7 DEF ExistsBijection, Bijection, Injection
<1>9. wipe \in [1..n -> S] /\ IsInjective(wipe)
  BY <1>6, <1>8 DEF SetToSeq
<1>10. wipe \in Injection(1..n, S)
  BY <1>9 DEF Injection
<1>11. IsFiniteSet(1..n) /\ Cardinality(1..n) = n
  BY <1>7, FS_Interval
<1>12. wipe \in Surjection(1..n, S)
  BY <1>3, <1>10, <1>11, FS_Injection
<1>13. wipe \in Seq(Update)
  BY <1>4, <1>7, <1>9
<1>14. DOMAIN wipe = 1..n
  BY <1>9
<1>15. \A u \in S : \E i \in 1..n : wipe[i] = u
  BY <1>12 DEF Surjection
<1>16. \A i \in 1..n : wipe[i] \in S
  BY <1>9
<1>. QED  BY <1>4, <1>5, <1>13, <1>14, <1>15, <1>16

\* ... and leaves nothing.
LEMMA AfterWipe ==
    ASSUME NEW contents \in Data, IsFiniteSet(Family), IsFiniteSet(Key)
    PROVE  after(contents, wipe) = [cf \in Family |-> NoKeys]
<1>1. wipe \in Seq(Update) /\ after(contents, wipe) \in Data
  BY WipeIsAll, AfterType
<1>2. [cf \in Family |-> NoKeys] \in Data
  BY DEF Data, Contents, NoKeys
<1>3. ASSUME NEW cf \in Family, NEW k \in Key
      PROVE  after(contents, wipe)[cf][k] = [c \in Family |-> NoKeys][cf][k]
  <2>1. PICK i \in DOMAIN wipe : wipe[i] = <<cf, k, Absent>>
    BY WipeIsAll
  <2>2. latest(wipe, cf, k) # {}
    BY <1>1, <2>1, LatestIsOne
  <2>3. PICK j \in latest(wipe, cf, k) : TRUE
    BY <2>2
  <2>4. cf \in DOMAIN contents /\ k \in DOMAIN contents[cf]
    BY DEF Data, Contents
  <2>5. after(contents, wipe)[cf][k] = wipe[j][3]
    BY <1>1, <2>3, <2>4, AfterAt
  <2>6. wipe[j][3] = Absent
    BY WipeIsAll DEF latest
  <2>. QED  BY <2>5, <2>6 DEF NoKeys
<1>. QED  BY <1>1, <1>2, <1>3, SameData

-----------------------------------------------------------------------------
(* The inductive invariant. *)

Types ==
    /\ closed \in BOOLEAN /\ faulted \in BOOLEAN
    /\ data \in [IF closed THEN {} ELSE Family -> Contents]
    /\ at \in [Thread -> Calls]
    /\ batch \in [Thread -> [open : BOOLEAN, staged : beginnings]]

\* Who holds the lock is in the middle of a call, and who is in one holds it.
Locked ==
    /\ readers = {t \in Thread : at[t].call = "read"}
    /\ writer = writing
    /\ \A s, t \in writing : s = t
    /\ writer # {} => readers = {}

\* What a call found out at its start is still true in the middle of it.
AtWork == \A t \in Thread :
    /\ closed => at[t].call \notin {"read", "commit"}
    /\ at[t].call = "reset" => at[t].left \subseteq DOMAIN data
    /\ at[t].call = "stage" =>
         batch[t].open /\ Append(batch[t].staged, at[t].update) \in beginnings
    /\ at[t].call = "read" =>
         \A seen \in at[t].copied : seen[2] = data[at[t].cf][seen[1]]

IInv == Types /\ Locked /\ AtWork

\* The calls, one by one.
ReadCall   == [call : {"read"}, cf : Family, left : SUBSET Key,
                copied : SUBSET (Key \X (Value \cup {Absent}))]
CommitCall == [call : {"commit"}, left : UNION {Suffixes(b) : b \in Batches}]
ResetCall  == [call : {"reset"}, left : SUBSET Family]
StageCall  == [call : {"stage"}, update : UNION {Range(b) : b \in Batches}, known : BOOLEAN]

LEMMA CallsAre ==
    /\ Calls = {Idle} \cup ReadCall \cup CommitCall \cup ResetCall \cup StageCall
    /\ \A c \in Calls :
        /\ c.call \in {"none", "read", "commit", "reset", "stage"}
        /\ c.call = "none" => c = Idle
        /\ c.call = "read" => c \in ReadCall
        /\ c.call = "commit" => c \in CommitCall
        /\ c.call = "reset" => c \in ResetCall
        /\ c.call = "stage" => c \in StageCall
    /\ Idle.call = "none"
    /\ \A c \in ReadCall : c.call = "read"
    /\ \A c \in CommitCall : c.call = "commit"
    /\ \A c \in ResetCall : c.call = "reset"
    /\ \A c \in StageCall : c.call = "stage"
BY DEF Calls, Idle, ReadCall, CommitCall, ResetCall, StageCall

\* A commit works through its batch from the front.
LEMMA SuffixesAre ==
    /\ \A b \in Batches : b \in Seq(Update) /\ b \in UNION {Suffixes(c) : c \in Batches}
    /\ \A s \in UNION {Suffixes(b) : b \in Batches} :
        /\ s \in Seq(Update)
        /\ s # <<>> => Head(s) \in Update /\ Tail(s) \in UNION {Suffixes(b) : b \in Batches}
<1>1. \A b \in Batches : b \in Seq(Update)
  BY MockAssumption DEF Update
<1>2. ASSUME NEW b \in Batches PROVE b \in Suffixes(b)
  <2>1. b \in Seq(Update) /\ Len(b) \in Nat
    BY <1>1
  <2>2. CASE Len(b) = 0
    BY <2>1, <2>2 DEF Suffixes
  <2>3. CASE Len(b) # 0
    <3>1. SubSeq(b, 1, Len(b)) = b
      BY <2>1
    <3>. QED  BY <2>1, <2>3, <3>1 DEF Suffixes
  <2>. QED  BY <2>2, <2>3
<1>3. ASSUME NEW b \in Batches, NEW s \in Suffixes(b)
      PROVE  /\ s \in Seq(Update)
             /\ s # <<>> => Head(s) \in Update /\ Tail(s) \in Suffixes(b)
  <2>1. b \in Seq(Update) /\ Len(b) \in Nat
    BY <1>1
  <2>2. CASE s = <<>>
    BY <2>2
  <2>3. CASE s # <<>>
    <3>1. PICK l \in 1..Len(b) : s = SubSeq(b, l, Len(b))
      BY <2>3 DEF Suffixes
    <3>2. s \in Seq(Update)
      BY <2>1, <3>1
    <3>3. /\ Tail(s) = IF l = Len(b) THEN <<>> ELSE SubSeq(b, l + 1, Len(b))
          /\ Head(s) = b[l]
      BY <2>1, <3>1, HeadTailOfSubSeq
    <3>4. Tail(s) \in Suffixes(b)
      <4>1. CASE l = Len(b)
        BY <3>3, <4>1 DEF Suffixes
      <4>2. CASE l # Len(b)
        <5>1. l + 1 \in 1..Len(b)
          BY <2>1, <4>2
        <5>. QED  BY <3>3, <4>2, <5>1 DEF Suffixes
      <4>. QED  BY <4>1, <4>2
    <3>5. Head(s) \in Update
      BY <2>1, <3>3
    <3>. QED  BY <3>2, <3>4, <3>5
  <2>. QED  BY <2>2, <2>3
<1>. QED  BY <1>1, <1>2, <1>3

LEMMA Initially == Init => IInv
<1>. SUFFICES ASSUME Init PROVE IInv
  OBVIOUS
<1>1. NoBatch \in [open : BOOLEAN, staged : beginnings]
  BY DEF NoBatch, beginnings
<1>2. data \in [Family -> Contents]
  BY DEF Init, NoKeys, Contents
<1>3. Idle \in Calls
  BY CallsAre
<1>4. \A t \in Thread : at[t] = Idle
  BY DEF Init
<1>5. Types
  BY <1>1, <1>2, <1>3 DEF Init, Types
<1>6. writing = {} /\ {t \in Thread : at[t].call = "read"} = {}
  BY <1>4, CallsAre DEF writing
<1>7. Locked
  BY <1>6 DEF Init, Locked
<1>8. AtWork
  BY <1>4, CallsAre DEF AtWork
<1>. QED  BY <1>5, <1>7, <1>8 DEF IInv

\* A goroutine goes on to another call, the others stay in theirs.
LEMMA GoAt ==
    ASSUME IInv, NEW t \in Thread, NEW c \in Calls, go(t, c)
    PROVE  /\ at' \in [Thread -> Calls]
           /\ at'[t] = c
           /\ \A s \in Thread : s # t => at'[s] = at[s]
           /\ writing' = (writing \ {t}) \cup
                          (IF c.call \in {"commit", "reset"} THEN {t} ELSE {})
           /\ {s \in Thread : at'[s].call = "read"} =
                ({s \in Thread : at[s].call = "read"} \ {t}) \cup
                (IF c.call = "read" THEN {t} ELSE {})
<1>1. at \in [Thread -> Calls]
  BY DEF IInv, Types
<1>2. /\ at' \in [Thread -> Calls] /\ at'[t] = c
      /\ \A s \in Thread : s # t => at'[s] = at[s]
  BY <1>1 DEF go
<1>. QED  BY <1>2, Zenon DEF writing

LEMMA ReadStep ==
    ASSUME IInv, NEW t \in Thread, NEW cf \in Family, NEW keys \in SUBSET Key, Read(t, cf, keys)
    PROVE  IInv'
<1>. DEFINE c == [call |-> "read", cf |-> cf, left |-> keys, copied |-> {}]
<1>1. c \in ReadCall /\ c \in Calls /\ c.call = "read" /\ c.copied = {}
  BY CallsAre DEF ReadCall
<1>2. go(t, c) /\ UNCHANGED <<writer, data, closed, batch, faulted>>
  BY DEF Read
<1>. HIDE DEF c
<1>3. Types'
  BY <1>1, <1>2, GoAt DEF IInv, Types
<1>4. writing = {}
  BY DEF Read, mayRead, IInv, Locked
<1>5. writing' = {} /\ {s \in Thread : at'[s].call = "read"} = readers \cup {t}
  BY <1>1, <1>2, <1>4, GoAt DEF IInv, Locked
<1>6. Locked'
  BY <1>4, <1>5 DEF Read, mayRead, Locked
<1>7. AtWork'
  BY <1>1, <1>2, GoAt DEF Read, IInv, AtWork
<1>. QED  BY <1>3, <1>6, <1>7 DEF IInv

copying(r, k, seen) == [r EXCEPT !.left = @ \ {k}, !.copied = @ \cup {seen}]

LEMMA CopiedTyped ==
    ASSUME NEW r \in ReadCall, NEW k, NEW seen \in Key \X (Value \cup {Absent})
    PROVE  /\ copying(r, k, seen) \in ReadCall
           /\ copying(r, k, seen).cf = r.cf
           /\ copying(r, k, seen).copied = r.copied \cup {seen}
BY DEF ReadCall, copying

LEMMA CopyStep ==
    ASSUME IInv, NEW t \in Thread, Copy(t)
    PROVE  IInv'
<1>1. at[t] \in ReadCall /\ ~closed /\ data \in [Family -> Contents] /\ at[t].call = "read"
  BY CallsAre DEF Copy, IInv, Types, AtWork
<1>2. PICK k \in at[t].left : go(t, copying(at[t], k, <<k, data[at[t].cf][k]>>))
  BY DEF Copy, copying
<1>3. at[t].cf \in Family /\ k \in Key
  BY <1>1 DEF ReadCall
<1>4. data[at[t].cf][k] \in Value \cup {Absent}
  BY <1>1, <1>3 DEF Contents
<1>5. <<k, data[at[t].cf][k]>> \in Key \X (Value \cup {Absent})
  BY <1>3, <1>4
<1>6. PICK c \in ReadCall :
        /\ go(t, c)
        /\ c.cf = at[t].cf /\ c.copied = at[t].copied \cup {<<k, data[at[t].cf][k]>>}
  BY <1>1, <1>2, <1>5, CopiedTyped
<1>7. c \in Calls /\ c.call = "read"
  BY CallsAre
<1>8. UNCHANGED <<readers, writer, data, closed, batch, faulted>>
  BY DEF Copy
<1>9. Types'
  BY <1>6, <1>7, <1>8, GoAt DEF IInv, Types
<1>10. t \in readers /\ writing = {}
  BY <1>1 DEF IInv, Locked
<1>11. writing' = {} /\ {s \in Thread : at'[s].call = "read"} = readers
  BY <1>6, <1>7, <1>10, GoAt DEF IInv, Locked
<1>12. Locked'
  BY <1>8, <1>10, <1>11 DEF IInv, Locked
<1>13. \A seen \in c.copied : seen[2] = data[c.cf][seen[1]]
  BY <1>1, <1>6 DEF IInv, AtWork
<1>14. AtWork'
  BY <1>1, <1>6, <1>7, <1>8, <1>13, GoAt DEF IInv, AtWork
<1>. QED  BY <1>9, <1>12, <1>14 DEF IInv

LEMMA ReturnStep ==
    ASSUME IInv, NEW t \in Thread, ReadReturns(t) \/ WriteReturns(t)
    PROVE  IInv'
<1>1. go(t, Idle) /\ Idle \in Calls /\ Idle.call = "none"
  BY CallsAre DEF ReadReturns, WriteReturns
<1>2. UNCHANGED <<data, closed, batch, faulted>>
  BY DEF ReadReturns, WriteReturns
<1>3. Types'
  BY <1>1, <1>2, GoAt DEF IInv, Types
<1>4. /\ writing' = writing \ {t}
      /\ {s \in Thread : at'[s].call = "read"} = readers \ {t}
  BY <1>1, GoAt DEF IInv, Locked
<1>5. writer' = writer \ {t} /\ readers' = readers \ {t}
  <2>1. CASE ReadReturns(t)
    BY <2>1 DEF ReadReturns, IInv, Locked, writing
  <2>2. CASE WriteReturns(t)
    BY <2>2 DEF WriteReturns, IInv, Locked
  <2>. QED  BY <2>1, <2>2
<1>6. Locked'
  BY <1>4, <1>5 DEF IInv, Locked
<1>7. AtWork'
  BY <1>1, <1>2, GoAt DEF IInv, AtWork
<1>. QED  BY <1>3, <1>6, <1>7 DEF IInv

\* What a batch may hold is an update of the contents.
LEMMA UpdatesTyped ==
    /\ \A u \in Updates : u \in Update
    /\ \A u \in UNION {Range(b) : b \in Batches} : u \in Update
BY SuffixesAre, MockAssumption DEF Range, Update

LEMMA WriteStep ==
    ASSUME IInv, NEW t \in Thread, NEW u \in Updates, Write(t, u)
    PROVE  IInv'
<1>1. data \in Data /\ u \in Update /\ ~closed
  BY UpdatesTyped DEF Write, IInv, Types, Data
<1>2. data' \in Data /\ UNCHANGED <<readers, writer, closed, at, batch, faulted>>
  BY <1>1, PutAt DEF Write
<1>3. Types'
  BY <1>1, <1>2 DEF IInv, Types, Data
<1>4. writing' = writing
  BY <1>2 DEF writing
<1>5. Locked'
  BY <1>2, <1>4 DEF IInv, Locked
<1>6. \A s \in Thread : at[s].call # "read"
  BY DEF Write, mayWrite, IInv, Locked
<1>7. DOMAIN data' = DOMAIN data
  BY <1>1, <1>2 DEF Data
<1>8. AtWork'
  BY <1>1, <1>2, <1>6, <1>7 DEF IInv, AtWork
<1>. QED  BY <1>3, <1>5, <1>8 DEF IInv

\* Commit and Reset take the lock.
LEMMA BeginStep ==
    ASSUME IInv, NEW t \in Thread, Commit(t) \/ Reset(t)
    PROVE  IInv'
<1>1. at[t] = Idle /\ mayWrite /\ writer' = {t} /\ UNCHANGED <<readers, data, closed, batch, faulted>>
  BY DEF Commit, Reset
<1>2. PICK c \in Calls :
        /\ go(t, c)
        /\ c.call \in {"commit", "reset"}
        /\ closed => c.call # "commit"
        /\ c.call = "reset" => c.left \subseteq DOMAIN data
  <2>1. CASE Commit(t)
    <3>. DEFINE c == [call |-> "commit", left |-> batch[t].staged]
    <3>1. c \in CommitCall /\ go(t, c) /\ ~closed
      BY <2>1, SuffixesAre DEF Commit, CommitCall
    <3>. QED  BY <3>1, CallsAre
  <2>2. CASE Reset(t)
    <3>. DEFINE c == [call |-> "reset", left |-> DOMAIN data]
    <3>1. DOMAIN data \subseteq Family
      BY DEF IInv, Types
    <3>2. c \in ResetCall /\ c.left \subseteq DOMAIN data /\ go(t, c)
      BY <2>2, <3>1 DEF Reset, ResetCall
    <3>. QED  BY <3>2, CallsAre
  <2>. QED  BY <1>1, <2>1, <2>2
<1>3. Types'
  BY <1>1, <1>2, GoAt DEF IInv, Types
<1>4. writing = {} /\ readers = {}
  BY <1>1 DEF mayWrite, IInv, Locked
<1>5. writing' = {t} /\ {s \in Thread : at'[s].call = "read"} = {}
  BY <1>2, <1>4, GoAt DEF IInv, Locked
<1>6. Locked'
  BY <1>1, <1>4, <1>5 DEF Locked
<1>7. AtWork'
  BY <1>1, <1>2, GoAt DEF IInv, AtWork
<1>. QED  BY <1>3, <1>6, <1>7 DEF IInv

\* A writer that takes its next step finds the lock with it, and nobody reading.
LEMMA WorkStep ==
    ASSUME IInv, NEW t \in Thread, at[t].call \in {"commit", "reset"},
           NEW c \in Calls, go(t, c), c.call = at[t].call,
           c.call = "reset" => c.left \subseteq at[t].left,
           data' \in [DOMAIN data -> Contents],
           UNCHANGED <<readers, writer, closed, batch, faulted>>
    PROVE  IInv'
<1>1. t \in writing /\ writer # {} /\ readers = {}
  BY DEF IInv, Locked, writing
<1>2. DOMAIN data' = DOMAIN data
  OBVIOUS
<1>3. DOMAIN data = IF closed THEN {} ELSE Family
  BY DEF IInv, Types
<1>4. Types'
  BY <1>2, <1>3, GoAt DEF IInv, Types
<1>5. writing' = writing
  <2>1. writing' = (writing \ {t}) \cup {t}
    BY GoAt
  <2>. QED  BY <1>1, <2>1
<1>9. {s \in Thread : at'[s].call = "read"} = {}
  <2>1. {s \in Thread : at[s].call = "read"} = {} /\ c.call # "read"
    BY <1>1 DEF IInv, Locked
  <2>2. {s \in Thread : at'[s].call = "read"} = ({s \in Thread : at[s].call = "read"} \ {t}) \cup {}
    BY <2>1, GoAt
  <2>. QED  BY <2>1, <2>2
<1>6. Locked'
  BY <1>1, <1>5, <1>9 DEF IInv, Locked
<1>7. \A s \in Thread : at[s].call # "read"
  BY <1>1 DEF IInv, Locked
<1>8. AtWork'
  BY <1>2, <1>7, GoAt DEF IInv, AtWork
<1>. QED  BY <1>4, <1>6, <1>8 DEF IInv

LEMMA CommitNextStep ==
    ASSUME IInv, NEW t \in Thread, CommitNext(t)
    PROVE  /\ IInv'
           /\ ~closed /\ data \in Data
           /\ at[t].left \in Seq(Update) /\ at[t].left # <<>>
           /\ at'[t].call = "commit" /\ at'[t].left = Tail(at[t].left)
<1>. DEFINE c == [at[t] EXCEPT !.left = Tail(@)]
<1>1. /\ at[t] \in CommitCall /\ ~closed /\ data \in Data /\ at[t].left # <<>>
      /\ at[t].call = "commit" /\ go(t, c)
      /\ UNCHANGED <<readers, writer, closed, batch, faulted>>
  BY CallsAre DEF CommitNext, IInv, Types, AtWork, Data
<1>2. at[t].left \in UNION {Suffixes(b) : b \in Batches}
  BY <1>1 DEF CommitCall
<1>3. /\ at[t].left \in Seq(Update) /\ Head(at[t].left) \in Update
      /\ Tail(at[t].left) \in UNION {Suffixes(b) : b \in Batches}
  BY <1>1, <1>2, SuffixesAre
<1>4. c \in CommitCall /\ c.left = Tail(at[t].left)
  BY <1>1, <1>3 DEF CommitCall
<1>. HIDE DEF c
<1>5. c \in Calls /\ c.call = "commit"
  BY <1>4, CallsAre
<1>6. data' \in [DOMAIN data -> Contents]
  BY <1>1, <1>3, PutAt DEF CommitNext, Data
<1>7. IInv'
  BY <1>1, <1>5, <1>6, WorkStep
<1>. QED  BY <1>1, <1>3, <1>4, <1>5, <1>7, GoAt

LEMMA ResetNextStep ==
    ASSUME IInv, NEW t \in Thread, ResetNext(t)
    PROVE  /\ IInv'
           /\ ~closed /\ data \in Data /\ at[t].left \subseteq Family
           /\ at'[t].call = "reset"
           /\ \E cf \in at[t].left : /\ data' = [data EXCEPT ![cf] = NoKeys]
                                     /\ at'[t].left = at[t].left \ {cf}
<1>1. PICK cf \in at[t].left :
        /\ data' = [data EXCEPT ![cf] = NoKeys]
        /\ go(t, [at[t] EXCEPT !.left = @ \ {cf}])
  BY DEF ResetNext
<1>. DEFINE c == [at[t] EXCEPT !.left = @ \ {cf}]
<1>2. /\ at[t] \in ResetCall /\ at[t].call = "reset" /\ cf \in DOMAIN data /\ go(t, c)
      /\ UNCHANGED <<readers, writer, closed, batch, faulted>>
  BY <1>1, CallsAre DEF ResetNext, IInv, Types, AtWork
<1>3. ~closed /\ data \in Data
  BY <1>2 DEF IInv, Types, Data
<1>4. c \in ResetCall /\ c.left = at[t].left \ {cf} /\ at[t].left \subseteq Family
  BY <1>2 DEF ResetCall
<1>. HIDE DEF c
<1>5. c \in Calls /\ c.call = "reset"
  BY <1>4, CallsAre
<1>6. NoKeys \in Contents
  BY DEF NoKeys, Contents
<1>7. data' \in [DOMAIN data -> Contents]
  BY <1>1, <1>3, <1>6 DEF Data
<1>8. IInv'
  BY <1>2, <1>4, <1>5, <1>7, WorkStep
<1>. QED  BY <1>1, <1>2, <1>3, <1>4, <1>5, <1>8, GoAt

LEMMA CloseStep ==
    ASSUME IInv, NEW t \in Thread, Close(t)
    PROVE  IInv'
<1>1. /\ mayWrite /\ closed' = TRUE /\ data' = <<>>
      /\ UNCHANGED <<readers, writer, at, batch, faulted>>
  BY DEF Close
<1>2. data' \in [{} -> Contents]
  BY <1>1
<1>3. Types'
  BY <1>1, <1>2 DEF IInv, Types
<1>4. readers = {} /\ writing = {} /\ writing' = writing
  BY <1>1 DEF mayWrite, IInv, Locked, writing
<1>5. Locked'
  BY <1>1, <1>4 DEF IInv, Locked
<1>6. \A s \in Thread : at[s].call \notin {"read", "commit", "reset"}
  BY <1>4 DEF IInv, Locked, writing
<1>7. AtWork'
  BY <1>1, <1>6 DEF IInv, AtWork
<1>. QED  BY <1>3, <1>5, <1>7 DEF IInv

\* A batch belongs to one goroutine, which does nothing else with it meanwhile.
LEMMA BatchStep ==
    ASSUME IInv, NEW t \in Thread, OpenBatch(t) \/ CloseBatch(t)
    PROVE  IInv'
<1>1. at[t] = Idle /\ UNCHANGED <<readers, writer, data, closed, at, faulted>>
  BY DEF OpenBatch, CloseBatch
<1>2. <<>> \in beginnings
  BY DEF beginnings
<1>3. /\ batch' \in [Thread -> [open : BOOLEAN, staged : beginnings]]
      /\ \A s \in Thread : s # t => batch'[s] = batch[s]
  <2>1. batch[t].staged \in beginnings /\ batch \in [Thread -> [open : BOOLEAN, staged : beginnings]]
    BY DEF IInv, Types
  <2>2. CASE OpenBatch(t)
    BY <2>1, <2>2 DEF OpenBatch
  <2>3. CASE CloseBatch(t)
    BY <1>2, <2>1, <2>3 DEF CloseBatch, NoBatch
  <2>. QED  BY <2>2, <2>3
<1>4. Types'
  BY <1>1, <1>3 DEF IInv, Types
<1>5. writing' = writing
  BY <1>1 DEF writing
<1>6. Locked'
  BY <1>1, <1>5 DEF IInv, Locked
<1>7. AtWork'
  BY <1>1, <1>3, CallsAre DEF IInv, AtWork
<1>. QED  BY <1>4, <1>6, <1>7 DEF IInv

LEMMA StageStep ==
    ASSUME IInv, NEW t \in Thread, NEW u \in UNION {Range(b) : b \in Batches}, Stage(t, u)
    PROVE  IInv'
<1>. DEFINE c == [call |-> "stage", update |-> u, known |-> u[1] \in DOMAIN data]
<1>1. c \in StageCall /\ c.update = u
  BY DEF StageCall
<1>2. /\ at[t] = Idle /\ batch[t].open /\ Append(batch[t].staged, u) \in beginnings
      /\ go(t, c) /\ UNCHANGED <<readers, writer, data, closed, batch, faulted>>
  BY DEF Stage
<1>. HIDE DEF c
<1>3. c \in Calls /\ c.call = "stage" /\ t \notin writing
  BY <1>1, <1>2, CallsAre DEF writing
<1>4. Types'
  BY <1>2, <1>3, GoAt DEF IInv, Types
<1>5. writing' = writing /\ {s \in Thread : at'[s].call = "read"} = readers
  <2>1. t \notin readers
    BY <1>2, CallsAre DEF IInv, Locked
  <2>2. writing' = writing
    <3>1. writing' = (writing \ {t}) \cup {}
      BY <1>2, <1>3, GoAt
    <3>. QED  BY <1>3, <3>1
  <2>3. {s \in Thread : at'[s].call = "read"} = ({s \in Thread : at[s].call = "read"} \ {t}) \cup {}
    <3>1. c.call # "read"
      BY <1>3
    <3>. QED  BY <1>2, <1>3, <3>1, GoAt
  <2>. QED  BY <2>1, <2>2, <2>3 DEF IInv, Locked
<1>6. Locked'
  BY <1>2, <1>5 DEF IInv, Locked
<1>7. AtWork'
  BY <1>1, <1>2, <1>3, GoAt DEF IInv, AtWork
<1>. QED  BY <1>4, <1>6, <1>7 DEF IInv

LEMMA StagedStep ==
    ASSUME IInv, NEW t \in Thread, Staged(t)
    PROVE  IInv'
<1>1. /\ at[t].call = "stage" /\ go(t, Idle) /\ Idle \in Calls /\ Idle.call = "none"
      /\ UNCHANGED <<readers, writer, data, closed, faulted>>
  BY CallsAre DEF Staged
<1>2. Append(batch[t].staged, at[t].update) \in beginnings
  BY <1>1 DEF IInv, AtWork
<1>3. /\ batch' \in [Thread -> [open : BOOLEAN, staged : beginnings]]
      /\ \A s \in Thread : s # t => batch'[s] = batch[s]
  BY <1>2 DEF Staged, IInv, Types
<1>4. Types'
  BY <1>1, <1>3, GoAt DEF IInv, Types
<1>5. writing' = writing /\ {s \in Thread : at'[s].call = "read"} = readers
  BY <1>1, GoAt DEF IInv, Locked, writing
<1>6. Locked'
  BY <1>1, <1>5 DEF IInv, Locked
<1>7. AtWork'
  BY <1>1, <1>3, GoAt DEF IInv, AtWork
<1>. QED  BY <1>4, <1>6, <1>7 DEF IInv

LEMMA Inductive == IInv /\ [Next]_vars => IInv'
<1>. SUFFICES ASSUME IInv, [Next]_vars PROVE IInv'
  OBVIOUS
<1>1. CASE UNCHANGED vars
  BY <1>1 DEF vars, IInv, Types, Locked, AtWork, writing
<1>2. CASE Fault
  BY <1>2 DEF Fault, IInv, Types, Locked, AtWork, writing
<1>3. ASSUME NEW t \in Thread, Step(t) PROVE IInv'
  <2>1. ASSUME NEW cf \in Family, NEW k \in Key, Read(t, cf, {k}) PROVE IInv'
    <3>1. {k} \in SUBSET Key
      OBVIOUS
    <3>. QED  BY <2>1, <3>1, ReadStep
  <2>2. ASSUME NEW cf \in Family, Read(t, cf, Key) PROVE IInv'
    BY <2>2, ReadStep
  <2>3. ASSUME NEW b \in Batches, NEW i \in DOMAIN b, Stage(t, b[i]) PROVE IInv'
    <3>1. b[i] \in UNION {Range(c) : c \in Batches}
      BY DEF Range
    <3>. QED  BY <2>3, <3>1, StageStep
  <2>. QED
    BY <1>3, <2>1, <2>2, <2>3, CopyStep, ReturnStep, WriteStep, BeginStep, CommitNextStep,
       ResetNextStep, CloseStep, BatchStep, StagedStep DEF Step
<1>. QED  BY <1>1, <1>2, <1>3 DEF Next

\* In every reachable state the lock is held by exactly those who are in the middle of
\* a call under it, and what such a call found out at its start is still true.
THEOREM Invariant == Spec => []IInv
BY Initially, Inductive, PTL DEF Spec

\* The state is well typed, a writer excludes all others (db/mock.go:20), and the
\* families stay the ones the store was made with until it is closed (db/mock.go:240).
THEOREM TypeCorrect == Spec => []TypeOK
<1>1. IInv => TypeOK
  <2>. SUFFICES ASSUME IInv PROVE TypeOK
    OBVIOUS
  <2>1. Cardinality(writer) <= 1
    <3>1. CASE writer = {}
      BY <3>1, FS_EmptySet
    <3>2. CASE writer # {}
      <4>1. PICK t \in writer : writer = {t}
        BY <3>2 DEF IInv, Locked
      <4>. QED  BY <4>1, FS_Singleton
    <3>. QED  BY <3>1, <3>2
  <2>. QED  BY <2>1 DEF IInv, Types, Locked, TypeOK, writing
<1>. QED  BY <1>1, Invariant, PTL

-----------------------------------------------------------------------------
(* What a call that holds the lock will have made of the contents. *)

WholeMeans ==
    /\ closed => Whole = [cf \in Family |-> NoKeys]
    /\ ~closed => data \in Data
    /\ ~closed /\ writing = {} => Whole = data
    /\ ~closed => \A t \in writing : Whole = rest(data, at[t])

LEMMA WholeNow == IInv => WholeMeans
<1>. SUFFICES ASSUME IInv PROVE WholeMeans
  OBVIOUS
<1>1. ~closed => data \in Data
  BY DEF IInv, Types, Data
<1>2. \A t \in writing : t = CHOOSE s \in writing : TRUE
  BY DEF IInv, Locked
<1>. QED  BY <1>1, <1>2 DEF Whole, WholeMeans

LEMMA WholeThen == IInv' => WholeMeans'
BY WholeNow, PTL

LEMMA WholeIs ==
    ASSUME IInv
    PROVE  /\ closed => Whole = [cf \in Family |-> NoKeys]
           /\ ~closed => data \in Data
           /\ ~closed /\ writing = {} => Whole = data
           /\ ~closed => \A t \in writing : Whole = rest(data, at[t])
BY WholeNow DEF WholeMeans

LEMMA WholeIsNext ==
    ASSUME IInv'
    PROVE  /\ closed' => Whole' = [cf \in Family |-> NoKeys]
           /\ ~closed' => data' \in Data
           /\ ~closed' /\ writing' = {} => Whole' = data'
           /\ ~closed' => \A t \in writing' : Whole' = rest(data', at'[t])
BY WholeThen DEF WholeMeans

\* Nobody reads half of a write: what a call has copied under the lock is what the
\* store holds from its start to its end (db/mock.go:150).
THEOREM ReadersSeeWhole == Spec => []SnapshotsAreWhole
<1>1. IInv => SnapshotsAreWhole
  <2>. SUFFICES ASSUME IInv, NEW t \in Thread, at[t].call = "read",
                       NEW seen \in at[t].copied
                PROVE  seen[2] = Whole[at[t].cf][seen[1]]
    BY DEF SnapshotsAreWhole
  <2>1. ~closed /\ seen[2] = data[at[t].cf][seen[1]]
    BY DEF IInv, AtWork
  <2>2. writing = {}
    BY DEF IInv, Locked
  <2>. QED  BY <2>1, <2>2, WholeIs
<1>. QED  BY <1>1, Invariant, PTL

-----------------------------------------------------------------------------
(* The steps of Store: Put and Delete, Commit and Reset when they take the lock, and *)
(* Close.  All the others leave what the store promises as it is. *)

abstract == <<Whole, closed>>

\* The same definitions, under two names.
LEMMA SameAfter == \A c, u : Promised!after(c, u) = after(c, u)
BY DEF Promised!after, after, Promised!latest, latest

LEMMA SameLast == \A c : Promised!Last(<<c>>) = c
BY DEF Promised!Last

\* A step that Store takes, too, in terms of the contents.
LEMMA AppliesOrRests ==
    /\ UNCHANGED abstract => UNCHANGED Promised!storeState
    /\ \A u \in Batches \cup {<<v>> : v \in Updates} \cup {wipe} :
         ~closed /\ closed' = closed /\ Whole' = after(Whole, u) => Promised!StoreNext
    /\ ~closed /\ closed' = TRUE /\ Whole' = [cf \in Family |-> NoKeys] => Promised!StoreNext
<1>1. UNCHANGED abstract => UNCHANGED Promised!storeState
  BY DEF abstract, Promised!storeState
<1>2. ASSUME NEW u \in Batches \cup {<<v>> : v \in Updates} \cup {wipe},
             ~closed, closed' = closed, Whole' = after(Whole, u)
      PROVE  Promised!StoreNext
  <2>1. <<Whole'>> = <<Promised!after(Promised!Last(<<Whole>>), u)>>
    BY <1>2, SameAfter, SameLast
  <2>2. Promised!Apply(u)
    BY <1>2, <2>1 DEF Promised!Apply
  <2>. QED  BY <2>2 DEF Promised!StoreNext
<1>3. ASSUME ~closed, closed' = TRUE, Whole' = [cf \in Family |-> NoKeys]
      PROVE  Promised!StoreNext
  BY <1>3 DEF Promised!StoreNext, Promised!Close, Promised!Nothing, NoKeys
<1>. QED  BY <1>1, <1>2, <1>3

\* A step that does not touch the families, nor begin, advance or end a write.
LEMMA Aside ==
    ASSUME IInv, IInv', data' = data, closed' = closed, writing' = writing,
           \A t \in writing : at'[t] = at[t]
    PROVE  UNCHANGED abstract
<1>1. CASE closed
  BY <1>1, WholeIs, WholeIsNext DEF abstract
<1>2. CASE ~closed /\ writing = {}
  BY <1>2, WholeIs, WholeIsNext DEF abstract
<1>3. ASSUME ~closed, NEW t \in writing PROVE UNCHANGED abstract
  <2>1. Whole = rest(data, at[t]) /\ Whole' = rest(data', at'[t])
    BY <1>3, WholeIs, WholeIsNext
  <2>. QED  BY <1>3, <2>1 DEF abstract
<1>. QED  BY <1>1, <1>2, <1>3

\* The steps of readers and of batches.
LEMMA AsideSteps ==
    ASSUME IInv, IInv', NEW t \in Thread,
           \/ \E cf \in Family, keys \in SUBSET Key : Read(t, cf, keys)
           \/ Copy(t) \/ ReadReturns(t)
           \/ \E u \in UNION {Range(b) : b \in Batches} : Stage(t, u)
           \/ Staged(t) \/ OpenBatch(t) \/ CloseBatch(t)
    PROVE  UNCHANGED abstract
<1>1. data' = data /\ closed' = closed
  BY DEF Read, Copy, ReadReturns, Stage, Staged, OpenBatch, CloseBatch
<1>2. writer' = writer
  BY DEF Read, Copy, ReadReturns, Stage, Staged, OpenBatch, CloseBatch
<1>3. writing = writer /\ writing' = writer'
  BY DEF IInv, Locked
<1>4. t \notin writing
  BY CallsAre DEF Read, Copy, ReadReturns, Stage, Staged, OpenBatch, CloseBatch, writing
<1>5. \A s \in Thread : s # t => at'[s] = at[s]
  BY DEF Read, Copy, ReadReturns, Stage, Staged, OpenBatch, CloseBatch, go, IInv, Types
<1>6. \A s \in writing : s \in Thread
  BY DEF writing
<1>. QED  BY <1>1, <1>2, <1>3, <1>4, <1>5, <1>6, Aside

LEMMA WriteMaps ==
    ASSUME IInv, IInv', NEW t \in Thread, NEW u \in Updates, Write(t, u)
    PROVE  Promised!StoreNext
<1>1. ~closed /\ closed' = closed /\ data' = put(data, u) /\ writer = {} /\ writer' = writer
  BY DEF Write, mayWrite
<1>2. writing = {} /\ writing' = {}
  BY <1>1 DEF IInv, Locked
<1>3. Whole = data /\ data \in Data /\ Whole' = data'
  BY <1>1, <1>2, WholeIs, WholeIsNext
<1>4. Whole' = after(Whole, <<u>>)
  BY <1>1, <1>3, AfterOne, UpdatesTyped
<1>. QED  BY <1>1, <1>4, AppliesOrRests

LEMMA CommitMaps ==
    ASSUME IInv, IInv', NEW t \in Thread, Commit(t)
    PROVE  Promised!StoreNext
<1>1. /\ ~closed /\ closed' = closed /\ data' = data /\ writer = {} /\ writer' = {t}
      /\ batch[t].staged \in Batches
      /\ go(t, [call |-> "commit", left |-> batch[t].staged])
  BY DEF Commit, mayWrite
<1>2. writing = {} /\ writing' = {t}
  BY <1>1 DEF IInv, Locked
<1>3. at'[t] = [call |-> "commit", left |-> batch[t].staged]
  BY <1>1 DEF go, IInv, Types
<1>4. Whole = data /\ Whole' = rest(data', at'[t])
  BY <1>1, <1>2, WholeIs, WholeIsNext
<1>5. Whole' = after(Whole, batch[t].staged)
  BY <1>1, <1>3, <1>4 DEF rest
<1>. QED  BY <1>1, <1>5, AppliesOrRests

LEMMA CommitNextRests ==
    ASSUME IInv, IInv', NEW t \in Thread, CommitNext(t)
    PROVE  UNCHANGED abstract
<1>1. /\ ~closed /\ data \in Data
      /\ at[t].left \in Seq(Update) /\ at[t].left # <<>>
      /\ at'[t].call = "commit" /\ at'[t].left = Tail(at[t].left)
  BY CommitNextStep
<1>2. /\ at[t].call = "commit" /\ data' = put(data, Head(at[t].left))
      /\ closed' = closed
  BY DEF CommitNext
<1>3. t \in writing /\ t \in writing'
  BY <1>1, <1>2 DEF writing
<1>4. Whole = rest(data, at[t]) /\ Whole' = rest(data', at'[t])
  BY <1>1, <1>2, <1>3, WholeIs, WholeIsNext
<1>5. Whole = after(data, at[t].left)
  BY <1>2, <1>4 DEF rest
<1>6. Whole' = after(put(data, Head(at[t].left)), Tail(at[t].left))
  BY <1>1, <1>2, <1>4 DEF rest
<1>. QED  BY <1>1, <1>2, <1>5, <1>6, AfterTail DEF abstract

LEMMA ResetMaps ==
    ASSUME IInv, IInv', NEW t \in Thread, Reset(t), IsFiniteSet(Family), IsFiniteSet(Key)
    PROVE  Promised!StoreNext \/ UNCHANGED abstract
<1>1. /\ closed' = closed /\ data' = data /\ writer = {} /\ writer' = {t}
      /\ go(t, [call |-> "reset", left |-> DOMAIN data])
  BY DEF Reset, mayWrite
<1>2. CASE closed
  BY <1>1, <1>2, WholeIs, WholeIsNext DEF abstract
<1>3. CASE ~closed
  <2>1. writing = {} /\ writing' = {t}
    BY <1>1 DEF IInv, Locked
  <2>2. at'[t] = [call |-> "reset", left |-> DOMAIN data]
    BY <1>1 DEF go, IInv, Types
  <2>3. Whole = data /\ data \in Data /\ Whole' = rest(data', at'[t])
    BY <1>1, <1>3, <2>1, WholeIs, WholeIsNext
  <2>4. DOMAIN data = Family
    BY <2>3 DEF Data
  <2>5. Whole' = [cf \in Family |-> NoKeys]
    BY <1>1, <2>2, <2>3, <2>4 DEF rest
  <2>6. Whole' = after(Whole, wipe)
    BY <2>3, <2>5, AfterWipe
  <2>. QED  BY <1>1, <1>3, <2>6, AppliesOrRests
<1>. QED  BY <1>2, <1>3

LEMMA ResetNextRests ==
    ASSUME IInv, IInv', NEW t \in Thread, ResetNext(t)
    PROVE  UNCHANGED abstract
<1>1. /\ ~closed /\ data \in Data /\ at[t].left \subseteq Family /\ at'[t].call = "reset"
      /\ at[t].call = "reset" /\ closed' = closed
  BY ResetNextStep DEF ResetNext
<1>2. PICK cf \in at[t].left : /\ data' = [data EXCEPT ![cf] = NoKeys]
                               /\ at'[t].left = at[t].left \ {cf}
  BY ResetNextStep
<1>3. t \in writing /\ t \in writing'
  BY <1>1 DEF writing
<1>4. Whole = rest(data, at[t]) /\ Whole' = rest(data', at'[t])
  BY <1>1, <1>3, WholeIs, WholeIsNext
<1>5. DOMAIN data = Family /\ DOMAIN data' = Family
  BY <1>1, <1>2 DEF Data
<1>6. /\ Whole = [c \in Family |-> IF c \in at[t].left THEN NoKeys ELSE data[c]]
      /\ Whole' = [c \in Family |-> IF c \in at[t].left \ {cf} THEN NoKeys ELSE data'[c]]
  BY <1>1, <1>2, <1>4, <1>5 DEF rest
<1>7. \A c \in Family : data'[c] = IF c = cf THEN NoKeys ELSE data[c]
  BY <1>2, <1>5
<1>8. Whole' = Whole
  BY <1>2, <1>6, <1>7
<1>. QED  BY <1>1, <1>8 DEF abstract

\* At the end of a write nothing of it is left to do.
LEMMA WriteReturnsRests ==
    ASSUME IInv, IInv', NEW t \in Thread, WriteReturns(t)
    PROVE  UNCHANGED abstract
<1>1. closed' = closed /\ data' = data /\ writer' = writer \ {t} /\ t \in writing
  BY DEF WriteReturns, writing
<1>2. writing' = {}
  BY <1>1 DEF IInv, Locked
<1>3. CASE closed
  BY <1>1, <1>3, WholeIs, WholeIsNext DEF abstract
<1>4. CASE ~closed
  <2>1. Whole = rest(data, at[t]) /\ data \in Data /\ Whole' = data
    BY <1>1, <1>2, <1>4, WholeIs, WholeIsNext
  <2>2. CASE at[t].call = "commit" /\ at[t].left = <<>>
    BY <1>1, <2>1, <2>2, AfterNone DEF rest, abstract
  <2>3. CASE at[t].call = "reset" /\ at[t].left = {}
    <3>1. Whole = [c \in DOMAIN data |-> data[c]]
      BY <2>1, <2>3 DEF rest
    <3>. QED  BY <1>1, <2>1, <3>1 DEF Data, abstract
  <2>. QED  BY <2>2, <2>3 DEF WriteReturns
<1>. QED  BY <1>3, <1>4

LEMMA CloseMaps ==
    ASSUME IInv, IInv', NEW t \in Thread, Close(t)
    PROVE  Promised!StoreNext
<1>1. ~closed /\ closed' = TRUE
  BY DEF Close
<1>2. Whole' = [cf \in Family |-> NoKeys]
  BY <1>1, WholeIsNext
<1>. QED  BY <1>1, <1>2, AppliesOrRests

LEMMA StepMaps ==
    ASSUME IsFiniteSet(Family), IsFiniteSet(Key), IInv, IInv', [Next]_vars
    PROVE  [Promised!StoreNext]_(Promised!storeState)
<1>1. UNCHANGED vars => UNCHANGED abstract
  BY DEF vars, abstract, Whole, writing
<1>2. Fault => UNCHANGED abstract
  BY DEF Fault, abstract, Whole, writing
<1>3. ASSUME NEW t \in Thread, Step(t)
      PROVE  Promised!StoreNext \/ UNCHANGED abstract
  <2>1. ASSUME NEW cf \in Family, NEW k \in Key, Read(t, cf, {k}) PROVE UNCHANGED abstract
    <3>1. {k} \in SUBSET Key
      OBVIOUS
    <3>. QED  BY <2>1, <3>1, AsideSteps
  <2>2. ASSUME NEW cf \in Family, Read(t, cf, Key) PROVE UNCHANGED abstract
    BY <2>2, AsideSteps
  <2>3. ASSUME NEW b \in Batches, NEW i \in DOMAIN b, Stage(t, b[i]) PROVE UNCHANGED abstract
    <3>1. b[i] \in UNION {Range(c) : c \in Batches}
      BY DEF Range
    <3>. QED  BY <2>3, <3>1, AsideSteps
  <2>4. Copy(t) \/ ReadReturns(t) \/ Staged(t) \/ OpenBatch(t) \/ CloseBatch(t)
          => UNCHANGED abstract
    BY AsideSteps
  <2>. QED
    BY <1>3, <2>1, <2>2, <2>3, <2>4, WriteMaps, CommitMaps, CommitNextRests, ResetMaps,
       ResetNextRests, WriteReturnsRests, CloseMaps DEF Step
<1>. QED  BY <1>1, <1>2, <1>3, AppliesOrRests DEF Next

\* A commit and a Reset take effect at once for everyone who can look, although their
\* operations are done one by one, and after Close nothing is written any more
\* (db/mock.go:116, 243, 271).
THEOREM Implements ==
    ASSUME IsFiniteSet(Family), IsFiniteSet(Key)
    PROVE  Spec => ImplementsStore
<1>1. Init => Promised!StoreInit
  <2>. SUFFICES ASSUME Init PROVE Promised!StoreInit
    OBVIOUS
  <2>1. IInv /\ ~closed /\ data = [cf \in Family |-> NoKeys]
    BY Initially DEF Init
  <2>2. writing = {}
    BY CallsAre DEF writing, Init
  <2>3. Whole = [cf \in Family |-> NoKeys]
    BY <2>1, <2>2, WholeIs
  <2>. QED  BY <2>1, <2>3 DEF Promised!StoreInit, Promised!Nothing, NoKeys
<1>2. IInv /\ IInv' /\ [Next]_vars => [Promised!StoreNext]_(Promised!storeState)
  BY StepMaps
<1>. QED  BY <1>1, <1>2, Invariant, PTL DEF Spec, ImplementsStore, Promised!StoreSpec
=============================================================================
