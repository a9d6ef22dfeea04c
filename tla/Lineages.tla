------------------------------ MODULE Lineages ------------------------------
(***************************************************************************)
(* Versioned rows: contracts (govcon/services/versioning.py) and disclosed *)
(* cost accounting practices with their change events                      *)
(* (govcon/services/cas_consistency.py).  A change inserts the next row    *)
(* and then points the old one at it, in two flushes of one transaction.   *)
(***************************************************************************)
EXTENDS UnitOfWork, FiniteSets

CONSTANTS
    MaxVersions,   \* bound: rows of a lineage
    Treatment      \* what a row says: a contract's terms, a disclosed treatment

Row == 1..MaxVersions
NoRow == 0
Events == 0   \* the key of the contents of practice_change_events

Init ==
    /\ \E terms \in Treatment :
          Start([k \in Row \union {Events} |->
                    IF k = Events THEN {}
                    ELSE IF k = 1 THEN [version |-> 1, terms |-> terms, superseded_by |-> NoRow]
                    ELSE Absent])
    /\ history \in [table : {"contracts", "practices"},
                    branched : {FALSE}]   \* a superseded row was superseded again

Inserted(rows) == {r \in Row : rows[r] # Absent}
Current(rows) == {r \in Inserted(rows) : rows[r].superseded_by = NoRow}
NextRow(rows) == Cardinality(Inserted(rows)) + 1

\* Mutant: the new row keeps the version of the old one.
SameVersion(old, terms) == [version |-> old.version, terms |-> terms, superseded_by |-> NoRow]

\* The columns carry over from the copy in hand, with the changes asked for
\* (practices have no version column: theirs is the place in the lineage).
NewVersion(old, terms) ==
    [version |-> old.version + 1, terms |-> terms, superseded_by |-> NoRow]

\* The first flush: the row gets its key.
InsertVersion(s, old) ==
    LET new == NextRow(Sees(s))
    IN  /\ Begin(s)
        /\ Sees(s)[old] # Absent
        /\ new \in Row
        /\ \E terms \in Treatment : Write(s, Only(new, NewVersion(Copy(s, old), terms)))
        /\ call' = [call EXCEPT ![s] = [op |-> "supersede", old |-> old, new |-> new]]
        /\ history' = [history EXCEPT !.branched = @ \/ old \notin Current(Sees(s))]

ChangeEvent(old, new) == {[practice |-> old, new |-> new, status |-> "flagged"]}

\* The second flush: the old row points at the new one; for a practice, the
\* change event goes with it.
PointToVersion(s) ==
    LET old == call[s].old
        copy == [Copy(s, old) EXCEPT !.superseded_by = call[s].new]
        events == IF history.table = "practices"
                  THEN Sees(s)[Events] \union ChangeEvent(old, call[s].new)
                  ELSE Sees(s)[Events]
    IN  /\ call[s].op = "supersede"
        /\ writer = s
        /\ work' = [Flushed(s, Only(old, copy)) EXCEPT ![Events] = events]
        /\ cache' = Keep(s, Only(old, copy))
        /\ call' = [call EXCEPT ![s] = Idle]
        /\ UNCHANGED <<db, writer, calls, history>>

\* resolve_change_event, for a recorded reason.
ResolveChangeEvent(s) ==
    /\ Begin(s)
    /\ \E event \in Sees(s)[Events] :
          Write(s, Only(Events, (Sees(s)[Events] \ {event})
                                    \union {[event EXCEPT !.status = "resolved"]}))
    /\ UNCHANGED <<call, history>>

Next ==
    \/ SessionStep(Row)
    \/ \E s \in Session : \/ \E old \in Row : InsertVersion(s, old)
                          \/ PointToVersion(s)
                          \/ ResolveChangeEvent(s)

Spec == Init /\ [][Next]_vars

-----------------------------------------------------------------------------
(* Properties *)

\* The committed rows are one chain from the first to the current one: each
\* superseded row points at the row of the next version, and '"Current" =
\* highest version with no superseded_by' is one row, unless somebody
\* superseded a row that had been superseded.
OneChain ==
    ~history.branched =>
        /\ \A r \in Inserted(db) : db[r].superseded_by # NoRow =>
               /\ db[r].superseded_by \in Inserted(db)
               /\ db[db[r].superseded_by].version = db[r].version + 1
        /\ \E top \in Inserted(db) :
               /\ Current(db) = {top}
               /\ \A r \in Inserted(db) \ {top} : db[r].version < db[top].version

\* "a new version row plus a flagged change event": every version of a
\* practice after the first came with exactly one event, which names the row it
\* replaced, even where the lineage branched or a change was rolled back
\* between its flushes.
EveryChangeHasItsEvent ==
    history.table = "practices" =>
        \A r \in Inserted(db) \ {1} :
            \E event \in db[Events] :
                /\ event.new = r
                /\ event.practice # r
                /\ \A other \in db[Events] : other.new = r => other = event
=============================================================================
