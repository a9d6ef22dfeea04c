---------------------------- MODULE AuditTamper -----------------------------
(***************************************************************************)
(* AuditChain with one out-of-band edit of audit_trail: a row changed or   *)
(* removed by somebody who bypasses the ORM and the triggers.  The ORM     *)
(* sessions go on writing before and after it.                             *)
(***************************************************************************)
EXTENDS MCAuditChain

CONSTANT Intact   \* nothing has been edited

ASSUME IntactAssumption == Intact \notin Nat

VARIABLE culprit  \* the trail_id verify_audit_chain has to report

TamperInit == Init /\ culprit = Intact

Later(row, rows) == {r \in rows : r.trail_id > row.trail_id}
Successor(row) == Least(TrailIds(Later(row, trail)))

\* Only audit_trail is touched.
Elsewhere == <<backend, data, phase, todo, unlogged, last, chainLock, staged, nextval>>

\* The recorded change of a row is rewritten, its hashes are left alone.
EditRow ==
    \E row \in trail, value \in RowValue :
        /\ value # row.change.new
        /\ trail' = (trail \ {row}) \union {[row EXCEPT !.change.new = value]}
        /\ culprit' = row.trail_id

\* The row is rewritten and its own entry_hash recomputed: the rows after it
\* still carry the old one.
ForgeRow ==
    \E row \in trail, value \in RowValue :
        /\ value # row.change.new
        /\ Later(row, trail) # {}
        /\ trail' = (trail \ {row}) \union
               {audit_row(row.trail_id, [row.change EXCEPT !.new = value],
                          row.user_id, row.previous_entry_hash)}
        /\ culprit' = Successor(row)

\* A row that is not the last one is removed: SQLite's ids have a gap there,
\* PostgreSQL's next row links to a hash that is gone.
DeleteRow ==
    \E row \in trail :
        /\ Later(row, trail) # {}
        /\ trail' = trail \ {row}
        /\ culprit' = IF backend = "sqlite" THEN row.trail_id ELSE Successor(row)

TamperNext ==
    \/ Next /\ UNCHANGED culprit
    \/ /\ culprit = Intact
       /\ EditRow \/ ForgeRow \/ DeleteRow
       /\ UNCHANGED Elsewhere

TamperSpec == TamperInit /\ [][TamperNext]_<<vars, culprit>> /\ CallerFairness /\ DatabaseFairness

\* verify_audit_chain detects an out-of-band edit, reports the first row that
\* no longer recomputes, and goes on reporting it whatever is appended later;
\* before the edit it reports nothing.
EditLocated ==
    \A s \in Session :
        verify_audit_chain(VisibleTrail(s)) =
            IF culprit = Intact THEN <<TRUE, 0>> ELSE <<FALSE, culprit>>
=============================================================================
