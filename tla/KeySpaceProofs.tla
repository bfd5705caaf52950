---------------------------- MODULE KeySpaceProofs ----------------------------
(***************************************************************************)
(* The key ranges of families whose names hold no NUL byte are disjoint,   *)
(* for names and keys of any length.  db.Open does not check the names.    *)
(***************************************************************************)
EXTENDS KeySpace, SequenceTheorems, TLAPS

NulFree(cf) == \A i \in 1..Len(cf) : cf[i] # 0

LEMMA BytesAreNumbers ==
    ASSUME NEW s \in Bytes, NEW i \in 1..Len(s)
    PROVE  s[i] \in Nat
<1>1. s[i] \in Byte
  BY DEF Bytes
<1>2. Byte \subseteq Nat
  BY DEF Byte
<1>. QED  BY <1>1, <1>2

\* What the bytes of a storage key are: the name, a zero, the key.
LEMMA Layout ==
    ASSUME NEW cf \in Bytes, NEW key \in Bytes
    PROVE  /\ prefixedKey(cf, key) \in Bytes
           /\ Len(prefixedKey(cf, key)) = Len(cf) + 1 + Len(key)
           /\ \A i \in 1..Len(cf) : prefixedKey(cf, key)[i] = cf[i]
           /\ prefixedKey(cf, key)[Len(cf) + 1] = 0
           /\ \A i \in 1..Len(key) : prefixedKey(cf, key)[Len(cf) + 1 + i] = key[i]
<1>1. /\ cfPrefix(cf) \in Bytes
      /\ Len(cfPrefix(cf)) = Len(cf) + 1
      /\ \A i \in 1..Len(cf) : cfPrefix(cf)[i] = cf[i]
      /\ cfPrefix(cf)[Len(cf) + 1] = 0
  BY DEF cfPrefix, Bytes, Byte
<1>2. /\ prefixedKey(cf, key) \in Bytes
      /\ Len(prefixedKey(cf, key)) = Len(cfPrefix(cf)) + Len(key)
      /\ \A i \in 1..Len(cfPrefix(cf)) : prefixedKey(cf, key)[i] = cfPrefix(cf)[i]
      /\ \A i \in 1..Len(key) : prefixedKey(cf, key)[Len(cfPrefix(cf)) + i] = key[i]
  <2>1. cfPrefix(cf) \in Seq(Byte) /\ key \in Seq(Byte)
    BY <1>1 DEF Bytes
  <2>2. /\ Len(cfPrefix(cf) \o key) = Len(cfPrefix(cf)) + Len(key)
        /\ \A i \in 1..Len(cfPrefix(cf)) + Len(key) : (cfPrefix(cf) \o key)[i] =
              IF i <= Len(cfPrefix(cf)) THEN cfPrefix(cf)[i] ELSE key[i - Len(cfPrefix(cf))]
    BY <2>1, ConcatProperties
  <2>3. prefixedKey(cf, key) \in Bytes
    BY <2>1, ConcatProperties DEF prefixedKey, Bytes
  <2>4. \A i \in 1..Len(cfPrefix(cf)) : prefixedKey(cf, key)[i] = cfPrefix(cf)[i]
    BY <2>1, <2>2 DEF prefixedKey
  <2>5. \A i \in 1..Len(key) : prefixedKey(cf, key)[Len(cfPrefix(cf)) + i] = key[i]
    <3>. SUFFICES ASSUME NEW i \in 1..Len(key)
                  PROVE  (cfPrefix(cf) \o key)[Len(cfPrefix(cf)) + i] = key[i]
      BY DEF prefixedKey
    <3>1. /\ Len(cfPrefix(cf)) \in Nat /\ Len(key) \in Nat
          /\ Len(cfPrefix(cf)) + i \in 1..Len(cfPrefix(cf)) + Len(key)
          /\ ~(Len(cfPrefix(cf)) + i <= Len(cfPrefix(cf)))
          /\ Len(cfPrefix(cf)) + i - Len(cfPrefix(cf)) = i
      BY <2>1
    <3>. QED  BY <2>2, <3>1
  <2>. QED  BY <2>2, <2>3, <2>4, <2>5 DEF prefixedKey
<1>3. Len(cf) \in Nat /\ Len(key) \in Nat
  BY DEF Bytes
<1>. QED  BY <1>1, <1>2, <1>3

\* No storage key belongs to two families (pebble.go:19-21): a key in the range of
\* a family was written in that family.
THEOREM FamiliesAreDisjoint ==
    ASSUME NEW cf \in Bytes, NEW other \in Bytes, NulFree(cf), NulFree(other),
           NEW key \in Bytes, NEW okey \in Bytes,
           prefixedKey(cf, key) = prefixedKey(other, okey)
    PROVE  cf = other /\ key = okey
<1>1. Len(cf) \in Nat /\ Len(other) \in Nat /\ Len(key) \in Nat /\ Len(okey) \in Nat
  BY DEF Bytes
<1>. DEFINE raw == prefixedKey(cf, key)
<1>8. /\ Len(raw) = Len(cf) + 1 + Len(key)
      /\ \A i \in 1..Len(cf) : raw[i] = cf[i]
      /\ raw[Len(cf) + 1] = 0
      /\ \A i \in 1..Len(key) : raw[Len(cf) + 1 + i] = key[i]
  BY Layout, Zenon
<1>9. /\ Len(raw) = Len(other) + 1 + Len(okey)
      /\ \A i \in 1..Len(other) : raw[i] = other[i]
      /\ raw[Len(other) + 1] = 0
      /\ \A i \in 1..Len(okey) : raw[Len(other) + 1 + i] = okey[i]
  <2>1. /\ Len(prefixedKey(other, okey)) = Len(other) + 1 + Len(okey)
        /\ \A i \in 1..Len(other) : prefixedKey(other, okey)[i] = other[i]
        /\ prefixedKey(other, okey)[Len(other) + 1] = 0
        /\ \A i \in 1..Len(okey) : prefixedKey(other, okey)[Len(other) + 1 + i] = okey[i]
    BY Layout, Zenon
  <2>. QED  BY <2>1, Zenon
<1>. HIDE DEF raw
<1>2. ~(Len(cf) < Len(other))
  <2>. SUFFICES ASSUME Len(cf) < Len(other) PROVE FALSE
    OBVIOUS
  <2>1. Len(cf) + 1 \in 1..Len(other)
    BY <1>1
  <2>2. other[Len(cf) + 1] = 0
    BY <2>1, <1>8, <1>9
  <2>. QED  BY <2>1, <2>2 DEF NulFree
<1>3. ~(Len(other) < Len(cf))
  <2>. SUFFICES ASSUME Len(other) < Len(cf) PROVE FALSE
    OBVIOUS
  <2>1. Len(other) + 1 \in 1..Len(cf)
    BY <1>1
  <2>2. cf[Len(other) + 1] = 0
    BY <2>1, <1>8, <1>9
  <2>. QED  BY <2>1, <2>2 DEF NulFree
<1>4. Len(cf) = Len(other)
  BY <1>1, <1>2, <1>3
<1>5. Len(key) = Len(okey)
  BY <1>1, <1>4, <1>8, <1>9
<1>6. \A i \in 1..Len(cf) : cf[i] = other[i]
  BY <1>4, <1>8, <1>9
<1>7. \A i \in 1..Len(key) : key[i] = okey[i]
  BY <1>4, <1>5, <1>8, <1>9
<1>10. cf = other
  BY <1>4, <1>6, SeqEqual DEF Bytes
<1>11. key = okey
  BY <1>5, <1>7, SeqEqual DEF Bytes
<1>. QED  BY <1>10, <1>11

\* An iterator bounded by cfPrefix and cfUpperBound sees a storage key of a family
\* exactly when it is the iterator of that family.
THEOREM RangesAreFamilies ==
    ASSUME NEW cf \in Bytes, NEW other \in Bytes, NulFree(cf), NulFree(other),
           NEW key \in Bytes
    PROVE  Within(cf, prefixedKey(other, key)) <=> cf = other
<1>. DEFINE raw == prefixedKey(other, key)
            low == cfPrefix(cf)
            high == cfUpperBound(cf)
<1>1. Len(cf) \in Nat /\ Len(other) \in Nat /\ Len(key) \in Nat
  BY DEF Bytes
<1>2. /\ low \in Bytes /\ high \in Bytes
      /\ Len(low) = Len(cf) + 1 /\ Len(high) = Len(cf) + 1
      /\ \A i \in 1..Len(cf) : low[i] = cf[i] /\ high[i] = cf[i]
      /\ low[Len(cf) + 1] = 0 /\ high[Len(cf) + 1] = 1
  BY DEF cfPrefix, cfUpperBound, Bytes, Byte
<1>3. /\ raw \in Bytes
      /\ Len(raw) = Len(other) + 1 + Len(key)
      /\ \A i \in 1..Len(other) : raw[i] = other[i]
      /\ raw[Len(other) + 1] = 0
  BY Layout
<1>4. ASSUME cf = other PROVE Within(cf, raw)
  <2>1. ~Precedes(raw, low)
    <3>. SUFFICES ASSUME NEW i \in 1..Len(low),
                         \A j \in 1..(i - 1) : j <= Len(raw) /\ raw[j] = low[j],
                         i = Len(raw) + 1 \/ (i <= Len(raw) /\ raw[i] < low[i])
                  PROVE  FALSE
      BY DEF Precedes
    <3>1. i <= Len(raw)
      BY <1>1, <1>2, <1>3, <1>4
    <3>2. raw[i] = low[i]
      <4>1. CASE i = Len(cf) + 1
        BY <1>2, <1>3, <1>4, <4>1
      <4>2. CASE i # Len(cf) + 1
        <5>1. i \in 1..Len(cf)
          BY <1>1, <1>2, <4>2
        <5>. QED  BY <1>2, <1>3, <1>4, <5>1
      <4>. QED  BY <4>1, <4>2
    <3>3. low[i] \in Nat
      BY <1>2, BytesAreNumbers
    <3>. QED  BY <1>1, <1>3, <3>1, <3>2, <3>3
  <2>2. Precedes(raw, high)
    <3>1. /\ Len(cf) + 1 \in 1..Len(high)
          /\ \A j \in 1..(Len(cf) + 1 - 1) : j <= Len(raw) /\ raw[j] = high[j]
          /\ Len(cf) + 1 <= Len(raw) /\ raw[Len(cf) + 1] < high[Len(cf) + 1]
      BY <1>1, <1>2, <1>3, <1>4
    <3>. QED  BY <3>1 DEF Precedes
  <2>. QED  BY <2>1, <2>2 DEF Within
<1>5. ASSUME Within(cf, raw) PROVE cf = other
  <2>1. PICK i \in 1..Len(high) :
          /\ \A j \in 1..(i - 1) : j <= Len(raw) /\ raw[j] = high[j]
          /\ i = Len(raw) + 1 \/ (i <= Len(raw) /\ raw[i] < high[i])
    BY <1>5 DEF Within, Precedes
  <2>2. i \in 1..Len(low) /\ (\A j \in 1..(i - 1) : raw[j] = low[j]) /\ i <= Len(cf) + 1
    BY <1>1, <1>2, <2>1
  <2>3. ~(i = Len(raw) + 1) /\ ~(i <= Len(raw) /\ raw[i] < low[i])
    BY <1>5, <2>1, <2>2 DEF Within, Precedes
  <2>4. i <= Len(raw) /\ raw[i] < high[i] /\ ~(raw[i] < low[i])
    BY <2>1, <2>3
  <2>5. i = Len(cf) + 1
    BY <1>1, <1>2, <2>2, <2>4
  <2>6. raw[Len(cf) + 1] = 0 /\ Len(cf) + 1 <= Len(raw)
    <3>1. raw[i] \in Nat
      BY <1>1, <1>3, <2>2, <2>4, BytesAreNumbers
    <3>. QED  BY <1>2, <2>4, <2>5, <3>1
  <2>7. \A j \in 1..Len(cf) : raw[j] = cf[j]
    BY <1>1, <1>2, <2>1, <2>5
  <2>8. ~(Len(cf) < Len(other))
    BY <1>1, <1>3, <2>6 DEF NulFree
  <2>9. ~(Len(other) < Len(cf))
    BY <1>1, <1>3, <2>7 DEF NulFree
  <2>10. Len(cf) = Len(other) /\ \A j \in 1..Len(cf) : cf[j] = other[j]
    BY <1>1, <1>3, <2>7, <2>8, <2>9
  <2>. QED  BY <2>10 DEF Bytes
<1>. QED  BY <1>4, <1>5

\* Key gives back what Put was given (pebble.go:382-392).
LEMMA StrippedIsKey ==
    ASSUME NEW cf \in Bytes, NEW key \in Bytes
    PROVE  stripped(cf, prefixedKey(cf, key)) = key
<1>. DEFINE raw == prefixedKey(cf, key)
<1>1. Len(cf) \in Nat /\ Len(key) \in Nat /\ Len(cfPrefix(cf)) = Len(cf) + 1
  BY DEF Bytes, cfPrefix
<1>2. /\ raw \in Seq(Byte) /\ Len(raw) = Len(cf) + 1 + Len(key)
      /\ \A i \in 1..Len(key) : raw[Len(cf) + 1 + i] = key[i]
  BY Layout DEF Bytes
<1>. HIDE DEF raw
<1>. DEFINE sub == SubSeq(raw, Len(cf) + 2, Len(raw))
<1>3. /\ sub \in Seq(Byte) /\ Len(sub) = Len(key)
      /\ \A i \in 1..Len(key) : sub[i] = key[i]
  <2>1. CASE Len(key) = 0
    <3>1. sub = <<>>
      BY <1>1, <1>2, <2>1
    <3>2. <<>> \in Seq(Byte) /\ Len(<<>>) = 0
      OBVIOUS
    <3>. HIDE DEF sub
    <3>. QED  BY <2>1, <3>1, <3>2
  <2>2. CASE Len(key) > 0
    <3>1. /\ Len(cf) + 2 \in 1..Len(raw) /\ Len(raw) \in 1..Len(raw)
          /\ Len(raw) - (Len(cf) + 2) + 1 = Len(key)
      BY <1>1, <1>2, <2>2
    <3>2. /\ sub \in Seq(Byte) /\ Len(sub) = Len(raw) - (Len(cf) + 2) + 1
          /\ \A i \in 1..Len(raw) - (Len(cf) + 2) + 1 : sub[i] = raw[Len(cf) + 2 + i - 1]
      BY <1>2, <3>1, SubSeqProperties
    <3>3. \A i \in 1..Len(key) : Len(cf) + 2 + i - 1 = Len(cf) + 1 + i
      BY <1>1
    <3>. QED  BY <1>2, <3>1, <3>2, <3>3
  <2>. QED  BY <1>1, <2>1, <2>2
<1>4. stripped(cf, raw) = sub
  BY <1>1 DEF stripped
<1>5. sub = key
  BY <1>3 DEF Bytes
<1>. QED  BY <1>4, <1>5 DEF raw

\* Storage keys of one family are ordered as the keys are: an iterator of the engine
\* yields the keys of a family in order, and a Seek to the storage key of a target
\* ends where a Seek to the target should (pebble.go:371-373).
THEOREM OrderIsKept ==
    ASSUME NEW cf \in Bytes, NEW k \in Bytes, NEW l \in Bytes
    PROVE  Precedes(prefixedKey(cf, k), prefixedKey(cf, l)) <=> Precedes(k, l)
<1>. DEFINE n == Len(cf) + 1
            rk == prefixedKey(cf, k)
            rl == prefixedKey(cf, l)
<1>1. n \in Nat \ {0} /\ Len(k) \in Nat /\ Len(l) \in Nat
  BY DEF Bytes
<1>2. /\ rk \in Bytes /\ Len(rk) = n + Len(k)
      /\ \A i \in 1..Len(k) : rk[n + i] = k[i]
  BY Layout
<1>3. /\ rl \in Bytes /\ Len(rl) = n + Len(l)
      /\ \A i \in 1..Len(l) : rl[n + i] = l[i]
  BY Layout
<1>4. \A i \in 1..n : rk[i] = rl[i]
  <2>1. \A i \in 1..Len(cf) : rk[i] = cf[i] /\ rl[i] = cf[i]
    BY Layout
  <2>2. rk[n] = 0 /\ rl[n] = 0
    BY Layout
  <2>3. \A i \in 1..n : i \in 1..Len(cf) \/ i = n
    BY <1>1
  <2>. QED  BY <2>1, <2>2, <2>3
<1>. HIDE DEF n, rk, rl
<1>5. ASSUME Precedes(rk, rl) PROVE Precedes(k, l)
  <2>1. PICK i \in 1..Len(rl) :
          /\ \A j \in 1..(i - 1) : j <= Len(rk) /\ rk[j] = rl[j]
          /\ i = Len(rk) + 1 \/ (i <= Len(rk) /\ rk[i] < rl[i])
    BY <1>5 DEF Precedes
  <2>2. ~(i <= n)
    <3>. SUFFICES ASSUME i <= n PROVE FALSE
      OBVIOUS
    <3>1. i <= Len(rk) /\ rk[i] = rl[i] /\ rk[i] < rl[i]
      BY <1>1, <1>2, <1>4, <2>1
    <3>2. rl[i] \in Nat
      BY <1>3, BytesAreNumbers
    <3>. QED  BY <3>1, <3>2
  <2>. DEFINE m == i - n
  <2>3. m \in 1..Len(l) /\ i = n + m
    BY <1>1, <1>3, <2>1, <2>2
  <2>4. \A j \in 1..(m - 1) : j <= Len(k) /\ k[j] = l[j]
    <3>. SUFFICES ASSUME NEW j \in 1..(m - 1) PROVE j <= Len(k) /\ k[j] = l[j]
      OBVIOUS
    <3>1. n + j \in 1..(i - 1)
      BY <1>1, <2>3
    <3>2. n + j <= Len(rk) /\ rk[n + j] = rl[n + j]
      BY <2>1, <3>1
    <3>3. j \in 1..Len(k) /\ j \in 1..Len(l)
      BY <1>1, <1>2, <2>3, <3>2
    <3>. QED  BY <1>2, <1>3, <3>2, <3>3
  <2>5. m = Len(k) + 1 \/ (m <= Len(k) /\ k[m] < l[m])
    <3>1. CASE i = Len(rk) + 1
      BY <1>1, <1>2, <2>3, <3>1
    <3>2. CASE i <= Len(rk) /\ rk[i] < rl[i]
      <4>1. m \in 1..Len(k)
        BY <1>1, <1>2, <2>3, <3>2
      <4>. QED  BY <1>2, <1>3, <2>3, <3>2, <4>1
    <3>. QED  BY <2>1, <3>1, <3>2
  <2>. HIDE DEF m
  <2>. QED  BY <2>3, <2>4, <2>5 DEF Precedes
<1>6. ASSUME Precedes(k, l) PROVE Precedes(rk, rl)
  <2>1. PICK m \in 1..Len(l) :
          /\ \A j \in 1..(m - 1) : j <= Len(k) /\ k[j] = l[j]
          /\ m = Len(k) + 1 \/ (m <= Len(k) /\ k[m] < l[m])
    BY <1>6 DEF Precedes
  <2>. DEFINE i == n + m
  <2>2. i \in 1..Len(rl)
    BY <1>1, <1>3
  <2>3. \A j \in 1..(i - 1) : j <= Len(rk) /\ rk[j] = rl[j]
    <3>. SUFFICES ASSUME NEW j \in 1..(i - 1) PROVE j <= Len(rk) /\ rk[j] = rl[j]
      OBVIOUS
    <3>1. CASE j <= n
      BY <1>1, <1>2, <1>4, <3>1
    <3>2. CASE j > n
      <4>1. j - n \in 1..(m - 1) /\ n + (j - n) = j
        BY <1>1, <3>2
      <4>2. j - n <= Len(k) /\ k[j - n] = l[j - n]
        BY <2>1, <4>1
      <4>3. j - n \in 1..Len(k) /\ j - n \in 1..Len(l)
        BY <1>1, <4>1, <4>2
      <4>4. rk[n + (j - n)] = k[j - n] /\ rl[n + (j - n)] = l[j - n]
        BY <1>2, <1>3, <4>3
      <4>. QED  BY <1>1, <1>2, <4>1, <4>2, <4>4
    <3>. QED  BY <1>1, <3>1, <3>2
  <2>4. i = Len(rk) + 1 \/ (i <= Len(rk) /\ rk[i] < rl[i])
    <3>1. CASE m = Len(k) + 1
      BY <1>1, <1>2, <3>1
    <3>2. CASE m <= Len(k) /\ k[m] < l[m]
      <4>1. m \in 1..Len(k)
        BY <1>1, <3>2
      <4>. QED  BY <1>1, <1>2, <1>3, <3>2, <4>1
    <3>. QED  BY <2>1, <3>1, <3>2
  <2>. HIDE DEF i
  <2>. QED  BY <2>2, <2>3, <2>4 DEF Precedes
<1>. QED  BY <1>5, <1>6 DEF rk, rl

=============================================================================
