------------------------------- MODULE Iterators -------------------------------
(***************************************************************************)
(* The iterators of PebbleDB (db/pebble.go) and MockStore (db/mock.go),    *)
(* side by side: stores with the same contents, an iterator of one family  *)
(* of each, and a caller that makes the same calls to both.                *)
(*                                                                         *)
(* A pebbleIterator is an iterator of the engine between the two bounds of *)
(* the family; the engine's iterator, which is external, is a Cursor over  *)
(* storage keys.  A mockIterator is an index into a sorted copy of the     *)
(* keys; its methods do not look at where it is.                           *)
(***************************************************************************)
EXTENDS KeySpace, FiniteSetsExt, SequencesExt

CONSTANTS
    Family, Key,    \* names of families and keys, as byte strings
    Target,         \* what the caller seeks
    Before, After,  \* past the first and past the last key
    MaxPast         \* how many moves beyond an end the caller makes

ASSUME IteratorsAssumption ==
    /\ Family \subseteq Bytes /\ \A f \in Family : \A i \in 1..Len(f) : f[i] # 0
    /\ Key \subseteq Bytes /\ Target \subseteq Bytes
    /\ Before \notin Bytes /\ After \notin Bytes /\ Before # After
    /\ MaxPast \in Nat

VARIABLES
    raw,         \* the storage keys that the engine holds
    cf,          \* the family of the iterators
    call,        \* the latest call of the caller (see Cursor)
    rawAt,       \* where the iterator of the engine is
    entries,     \* it.entries of the mockIterator, without the values
    pos,         \* it.pos of the mockIterator
    closed,      \* the store has been closed
    reached      \* a method has reached the closed engine

contents == <<raw, cf, entries>>
vars == <<contents, call, rawAt, pos, closed, reached>>

RawKey == {prefixedKey(f, k) : f \in Family, k \in Key}

\* What lies between the bounds, and the keys of the family.
inRange == {r \in raw : Within(cf, r)}
familyKeys == {k \in Key : prefixedKey(cf, k) \in raw}

Engine == INSTANCE Cursor WITH held <- inRange, place <- rawAt

\* The keys of the mock in order (sort.Strings): the one list of them that is sorted.
sorted(S) ==
    {list \in [1..Cardinality(S) -> S] :
        /\ Range(list) = S
        /\ \A i, j \in DOMAIN list : i < j => Precedes(list[i], list[j])}

\* NewIterator of both stores, which hold finitely many keys.
Init ==
    /\ raw \in SUBSET RawKey /\ IsFiniteSet(raw)
    /\ cf \in Family
    /\ Engine!CursorInit
    /\ entries \in sorted(familyKeys)
    /\ pos = 0 - 1
    /\ closed = FALSE /\ reached = FALSE

-----------------------------------------------------------------------------
(* The methods of the mockIterator. *)

\* Mutant of mockSeek: the first key after target.
seekAfter(target) ==
    pos' = Cardinality({i \in DOMAIN entries : ~Precedes(target, entries[i])})

\* sort.Search: the smallest index whose key is not before target, or the length.
mockSeek(target) ==
    pos' = Min({i \in 0..Len(entries) :
                   i = Len(entries) \/ ~Precedes(entries[i + 1], target)})
mockSeekToFirst == pos' = 0
mockSeekToLast  == pos' = Len(entries) - 1
mockNext == pos' = pos + 1
mockPrev == pos' = pos - 1

\* Valid and Key.
mockPlace ==
    CASE pos < 0              -> Before
      [] pos >= Len(entries)  -> After
      [] OTHER                -> entries[pos + 1]

(* The methods of the pebbleIterator. *)

\* Mutant of pebbleSeek: the target without the prefix of the family.
seekRaw(target) == rawAt' \in Engine!atOrAfter(target)

pebbleSeek(target) == rawAt' \in Engine!atOrAfter(prefixedKey(cf, target))
pebbleSeekToFirst == rawAt' \in Engine!first(inRange)
pebbleSeekToLast == rawAt' \in Engine!last(inRange)
pebbleNext == rawAt' \in Engine!following
pebblePrev == rawAt' \in Engine!preceding

\* Key strips the prefix; it is asked only when Valid.
pebblePlace == IF rawAt \in {Before, After} THEN rawAt ELSE stripped(cf, rawAt)

-----------------------------------------------------------------------------
(* The caller. *)

made(op) ==
    /\ ~closed
    /\ call' = [op |-> op, turn |-> 1 - call.turn]
    /\ UNCHANGED <<contents, closed, reached>>

Seek(target) ==
    /\ ~closed
    /\ call' = [op |-> "Seek", target |-> target, turn |-> 1 - call.turn]
    /\ mockSeek(target) /\ pebbleSeek(target)
    /\ UNCHANGED <<contents, closed, reached>>

SeekToFirst == made("SeekToFirst") /\ mockSeekToFirst /\ pebbleSeekToFirst
SeekToLast  == made("SeekToLast") /\ mockSeekToLast /\ pebbleSeekToLast

\* Once the iterators are positioned.  A loop moves on from a valid entry only, or back
\* from the end that it has reached.
Next ==
    /\ call.op # "NewIterator" /\ pos < Len(entries) + MaxPast
    /\ made("Next") /\ mockNext /\ pebbleNext

Prev ==
    /\ call.op # "NewIterator" /\ pos > 0 - 1 - MaxPast
    /\ made("Prev") /\ mockPrev /\ pebblePrev

\* The store is closed; its iterators are not told.
Close ==
    /\ ~closed /\ closed' = TRUE
    /\ UNCHANGED <<contents, call, rawAt, pos, reached>>

\* Any method of a pebbleIterator after that.
UseClosed ==
    /\ closed /\ reached' = TRUE
    /\ UNCHANGED <<contents, call, rawAt, pos, closed>>

Moves == (\E target \in Target : Seek(target)) \/ SeekToFirst \/ SeekToLast \/ Next \/ Prev

Spec == Init /\ [][Moves \/ Close \/ UseClosed]_vars

-----------------------------------------------------------------------------
(* Properties. *)

Methods == {"SeekToFirst", "SeekToLast", "Next", "Prev"}

Calls == {Engine!New} \cup [op : Methods, turn : 0..1]
    \cup [op : {"Seek"}, target : Target, turn : 0..1]

\* The type of the state: the pebbleIterator stands on keys of its family only.
TypeOK ==
    /\ raw \subseteq RawKey /\ cf \in Family
    /\ closed \in BOOLEAN /\ reached \in BOOLEAN
    /\ call \in Calls
    /\ rawAt \in {prefixedKey(cf, k) : k \in familyKeys} \cup {Before, After}
    /\ entries \in Seq(Key)
    /\ pos \in (0 - 1 - MaxPast)..(Len(entries) + MaxPast)

Pebble == INSTANCE Cursor WITH held <- familyKeys, place <- pebblePlace
Mock   == INSTANCE Cursor WITH held <- familyKeys, place <- mockPlace

\* The iterator of PebbleDB is a cursor over the keys of its family, in their order:
\* the prefix neither lets in the keys of another family nor changes the order or
\* where a Seek ends (pebble.go:19-21, db.go:86).
PebbleIsCursor == Pebble!CursorSpec

\* The iterator of MockStore is the same cursor (mock.go:14): a caller that makes at
\* most MaxPast moves beyond an end cannot tell one store from the other.
MockIsCursor == Mock!CursorSpec

\* No method reaches an engine that is closed (pebble.go:33-35).
IteratorsUseOpenEngine == ~reached

=============================================================================
