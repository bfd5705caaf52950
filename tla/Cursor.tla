-------------------------------- MODULE Cursor --------------------------------
(***************************************************************************)
(* What db.Iterator promises (db/db.go), the abstract specification of the *)
(* iterators of PebbleDB and of MockStore: a cursor over the keys that one *)
(* family held when it was made.  It stands on a key or past one of the    *)
(* ends, and remembers nothing else.                                       *)
(***************************************************************************)
EXTENDS KeySpace

CONSTANTS
    Target,        \* what callers seek
    Before, After  \* where the cursor is when it is on no key

VARIABLES
    held,   \* the keys
    call,   \* the latest call: the method, what it seeks, and a bit that every call
            \*   flips, so that a call without effect is not taken for none
    place   \* where the cursor is

cursorState == <<held, call, place>>

New == [op |-> "NewIterator", turn |-> 0]

\* Where a cursor is on the first or the last of some keys: one place.
first(S) == IF S = {} THEN {After} ELSE {k \in S : \A l \in S \ {k} : Precedes(k, l)}
last(S)  == IF S = {} THEN {Before} ELSE {k \in S : \A l \in S \ {k} : Precedes(l, k)}

\* Where a call takes the cursor.  Seek: "the first key >= target".
atOrAfter(target) == first({k \in held : ~Precedes(k, target)})

following ==
    CASE place = Before -> first(held)
      [] place = After  -> {After}
      [] OTHER          -> first({k \in held : Precedes(place, k)})

preceding ==
    CASE place = After  -> last(held)
      [] place = Before -> {Before}
      [] OTHER          -> last({k \in held : Precedes(k, place)})

CursorInit == call = New /\ place = Before

made(op) == call' = [op |-> op, turn |-> 1 - call.turn] /\ UNCHANGED held

Seek(target) ==
    /\ call' = [op |-> "Seek", target |-> target, turn |-> 1 - call.turn]
    /\ place' \in atOrAfter(target)
    /\ UNCHANGED held

SeekToFirst == made("SeekToFirst") /\ place' \in first(held)
SeekToLast  == made("SeekToLast") /\ place' \in last(held)

\* Only once it has been positioned.
Next == call.op # "NewIterator" /\ made("Next") /\ place' \in following
Prev == call.op # "NewIterator" /\ made("Prev") /\ place' \in preceding

CursorNext ==
    \/ \E target \in Target : Seek(target)
    \/ SeekToFirst \/ SeekToLast \/ Next \/ Prev

CursorSpec == CursorInit /\ [][CursorNext]_cursorState

=============================================================================
