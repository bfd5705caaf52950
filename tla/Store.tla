--------------------------------- MODULE Store ---------------------------------
(***************************************************************************)
(* What db.Store promises (db/db.go), the abstract specification of        *)
(* PebbleStore and MockStore: families of keys that do not touch each      *)
(* other, writes and batches that take effect at once, and, for a store on *)
(* disk, what a crash may take back: nothing that was flushed, and of the  *)
(* rest only the latest writes, each of them whole.                        *)
(***************************************************************************)
EXTENDS Writes, SequencesExt

CONSTANTS
    Family, Key, Value, Absent,
    Batches, \* sequences of updates <<family, key, value or Absent>>
    Durable  \* the store is on disk: its contents survive Close and crashes

VARIABLES
    versions,  \* contents, family -> key -> value: what a crash leaves at least,
               \*   then the contents after each later write; the last is current
    closed

storeState == <<versions, closed>>

Nothing == [cf \in Family |-> [k \in Key |-> Absent]]

StoreInit ==
    /\ versions = <<Nothing>>
    /\ closed = FALSE

\* A Put or a Delete (one update), or the Commit of a batch.
Apply(updates) ==
    /\ ~closed
    /\ versions' = LET contents == after(Last(versions), updates)
                   IN  IF Durable THEN Append(versions, contents) ELSE <<contents>>
    /\ UNCHANGED closed

\* Flush, a write that is synced, or the rest of the log when the store closes.
Persist ==
    /\ versions' = <<Last(versions)>>
    /\ UNCHANGED closed

Close ==
    /\ ~closed
    /\ closed' = TRUE
    /\ versions' = IF Durable THEN versions ELSE <<Nothing>>

\* The process dies, and the store is opened again.
Crash ==
    /\ Durable
    /\ \E i \in DOMAIN versions : versions' = <<versions[i]>>
    /\ closed' = FALSE

StoreNext ==
    \/ \E updates \in Batches : Apply(updates)
    \/ Persist \/ Close \/ Crash

StoreSpec == StoreInit /\ [][StoreNext]_storeState

=============================================================================
