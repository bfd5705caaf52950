------------------------------- MODULE KeySpace -------------------------------
(***************************************************************************)
(* How db/pebble.go keeps column families apart in one ordered key space:  *)
(* the storage key of a key is "cf\0" followed by the key, and an iterator *)
(* of a family is bounded by "cf\0" and "cf\1".  Names and keys are        *)
(* sequences of bytes.                                                     *)
(***************************************************************************)
EXTENDS Naturals, Sequences

Byte == 0..255
Bytes == Seq(Byte)

\* Mutants of cfPrefix and cfUpperBound: a prefix without a separator, and a bound
\* after every name that begins with this one.
rawName(cf) == cf
afterName(cf) == Append(cf, 255)

\* The key prefix of a family, and the end of its range.
cfPrefix(cf) == Append(cf, 0)
cfUpperBound(cf) == Append(cf, 1)

\* The storage key.
prefixedKey(cf, key) == cfPrefix(cf) \o key

\* Key strips the prefix.
stripped(cf, raw) == SubSeq(raw, Len(cfPrefix(cf)) + 1, Len(raw))

\* bytes.Compare(a, b) < 0, the order of the engine: at the first difference a
\* is smaller, or it has ended.
Precedes(a, b) ==
    \E i \in 1..Len(b) :
        /\ \A j \in 1..(i - 1) : j <= Len(a) /\ a[j] = b[j]
        /\ i = Len(a) + 1 \/ (i <= Len(a) /\ a[i] < b[i])

\* What an iterator of the family may see: LowerBound and UpperBound.
Within(cf, raw) == ~Precedes(raw, cfPrefix(cf)) /\ Precedes(raw, cfUpperBound(cf))

=============================================================================
