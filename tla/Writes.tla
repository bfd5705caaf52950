--------------------------------- MODULE Writes ---------------------------------
(***************************************************************************)
(* What updates make of the contents of a store.  An update is a Put or a  *)
(* Delete, <<family, key, value or Absent>>, and contents are a function   *)
(* from families to functions from keys to values.                         *)
(***************************************************************************)
EXTENDS Naturals, Sequences

put(contents, u) == [contents EXCEPT ![u[1]][u[2]] = u[3]]

\* The last of the updates of a key: one position, or none.
latest(updates, cf, k) ==
    {i \in DOMAIN updates :
        /\ updates[i][1] = cf /\ updates[i][2] = k
        /\ \A j \in DOMAIN updates : j > i => ~(updates[j][1] = cf /\ updates[j][2] = k)}

\* All the updates of a batch: of the updates of a key the last one counts.
after(contents, updates) ==
    [cf \in DOMAIN contents |-> [k \in DOMAIN contents[cf] |->
        IF latest(updates, cf, k) = {} THEN contents[cf][k]
        ELSE updates[CHOOSE i \in latest(updates, cf, k) : TRUE][3]]]

=============================================================================
