--------------------------- MODULE AppendOnlyLog ---------------------------
(***************************************************************************)
(* What audit_trail promises its readers: entries are never changed or     *)
(* removed, and the entries of a transaction appear together, after every  *)
(* entry that was there before.                                            *)
(***************************************************************************)
EXTENDS Integers

VARIABLE log   \* the entries everybody can read; each has a trail_id

Init == log = {}

\* One transaction's entries become visible.
AppendBatch ==
    /\ log \subseteq log'
    /\ \A new \in log' \ log :
        /\ \A old \in log : old.trail_id < new.trail_id
        /\ \A other \in log' \ log : new.trail_id = other.trail_id => new = other
        /\ \A other \in log' \ log : new.user_id = other.user_id

Spec == Init /\ [][AppendBatch]_log
=============================================================================
