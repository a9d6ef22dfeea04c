----------------------------- MODULE AuditChain -----------------------------
(***************************************************************************)
(* The hash-chained audit trail of govcon/db/audit.py as concurrent ORM    *)
(* sessions write it, on SQLite or on PostgreSQL.                          *)
(*                                                                         *)
(* A session loads rows into its identity map, changes attributes, and     *)
(* flushes.  A flush first executes its UPDATE statements, and only then   *)
(* does the after_flush listener write_audit_rows run: it takes the        *)
(* advisory lock (PostgreSQL), reads the last entry_hash and inserts one   *)
(* linked audit row per change.  A transaction holds several flushes and   *)
(* ends in a commit or a rollback; every lock is held until then.          *)
(*                                                                         *)
(* On SQLite chainLock is the database write lock, taken by the first DML  *)
(* statement of the transaction; on PostgreSQL it is the transaction-      *)
(* scoped advisory lock, and UPDATEs are kept apart by row locks.          *)
(* Both backends read the latest committed data in every statement (plus   *)
(* the transaction's own writes).                                          *)
(***************************************************************************)
EXTENDS Integers, FiniteSets

CONSTANTS
    Session,     \* the ORM sessions, each with its own connection
    Record,      \* audited rows, numbered in the order a flush sorts them
    Column,      \* the columns of an audited row
    Value,       \* the values a column takes
    Seed,        \* the value every column has before the first audited write
    NoSession,   \* nobody holds the lock
    NotLoaded,   \* the record is not in the session's identity map
    MaxRows      \* bound: audit rows ever numbered

ASSUME RecordAssumption == Record \subseteq Nat
ASSUME SessionAssumption == NoSession \notin Session
ASSUME SeedAssumption == Seed \in Value
ASSUME BoundAssumption == MaxRows \in Nat
ASSUME CacheAssumption == NotLoaded \notin [Column -> Value]

VARIABLES
    backend,   \* dialect.name of the engine: "sqlite" or "postgresql"
    db,        \* committed rows
    store,     \* rows with the uncommitted updates of whoever locks them
    rowLock,   \* the session whose running transaction updated the record
    cache,     \* identity maps: expire_on_commit=False, so they go stale
    phase,     \* where each session is
    todo,      \* changes of the running flush whose UPDATE has not run
    unlogged,  \* changes of the running flush that have no audit row yet
    last,      \* the listener's local variable prev (Genesis outside of its loop)
    chainLock, \* who holds the lock that serializes the chain
    trail,     \* committed rows of audit_trail
    staged,    \* audit rows of running transactions
    nextval    \* PostgreSQL's trail_id sequence: not undone by a rollback

vars == <<backend, db, store, rowLock, cache, phase, todo, unlogged, last, chainLock,
          trail, staged, nextval>>

data == <<db, store, rowLock, cache>>
chain == <<chainLock, trail, staged, nextval>>

-----------------------------------------------------------------------------
(* Rows, changes, hashes *)

RowValue == [Column -> Value]
Change == [rec : Record, old : RowValue, new : RowValue]

\* SHA-256 over the canonical payload: equal digests mean equal payloads.
compute_entry_hash(change, user, prev) == <<change, user, prev>>

\* No row's digest: the payload of nothing.
Genesis == <<>>

audit_row(id, change, user, prev) ==
    [trail_id |-> id, change |-> change, user_id |-> user,
     previous_entry_hash |-> prev,
     entry_hash |-> compute_entry_hash(change, user, prev)]

\* The columns an UPDATE sets are those the attribute history calls changed.
Changed(change) == {c \in Column : change.old[c] # change.new[c]}

\* The row with the highest trail_id, ORDER BY trail_id DESC LIMIT 1.
IsLast(row, rows) == row \in rows /\ \A r \in rows : r.trail_id <= row.trail_id
LastHash(rows) ==
    IF rows = {} THEN Genesis
    ELSE (CHOOSE row \in rows : IsLast(row, rows)).entry_hash

Before(row, rows) == {r \in rows : r.trail_id < row.trail_id}

\* Mutant: only the pointer is compared, the hash is not recomputed.
LinksPointerOnly(row, rows) == row.previous_entry_hash = LastHash(Before(row, rows))

\* What verify_audit_chain demands of one row, given the rows before it.
Links(row, rows) ==
    /\ row.previous_entry_hash = LastHash(Before(row, rows))
    /\ row.entry_hash = compute_entry_hash(row.change, row.user_id,
                                           row.previous_entry_hash)

TrailIds(rows) == {row.trail_id : row \in rows}
TopId(rows) == IF rows = {} THEN 0
               ELSE (CHOOSE row \in rows : IsLast(row, rows)).trail_id

\* The gap check of verify_audit_chain: trail_ids are 1..N (SQLite only).
Gaps(rows) == IF backend = "sqlite" THEN (1 .. TopId(rows)) \ TrailIds(rows) ELSE {}
Broken(rows) == TrailIds({row \in rows : ~Links(row, rows)})

Least(ids) == CHOOSE id \in ids : \A other \in ids : id <= other

\* (True, None), or (False, first bad trail_id); 0 stands for None.
verify_audit_chain(rows) ==
    LET bad == IF Gaps(rows) # {} THEN Gaps(rows) ELSE Broken(rows)
    IN  IF bad = {} THEN <<TRUE, 0>> ELSE <<FALSE, Least(bad)>>

VisibleTrail(s) == trail \union staged[s]
VisibleRow(s, r) == IF rowLock[r] = s THEN store[r] ELSE db[r]

\* Mutant: numbers start at 0.
NextIdZeroBased(s) ==
    IF backend = "postgresql" THEN nextval - 1 ELSE TopId(VisibleTrail(s))

\* SQLite numbers a row after the largest visible rowid, PostgreSQL from the
\* sequence.
NextId(s) == IF backend = "postgresql" THEN nextval ELSE TopId(VisibleTrail(s)) + 1

-----------------------------------------------------------------------------
Init ==
    /\ backend \in {"sqlite", "postgresql"}
    /\ db = [r \in Record |-> [k \in Column |-> Seed]]
    /\ store = db
    /\ rowLock = [r \in Record |-> NoSession]
    /\ cache = [s \in Session |-> [r \in Record |-> NotLoaded]]
    /\ phase = [s \in Session |-> "idle"]
    /\ todo = [s \in Session |-> {}]
    /\ unlogged = [s \in Session |-> {}]
    /\ last = [s \in Session |-> Genesis]
    /\ chainLock = NoSession
    /\ trail = {}
    /\ staged = [s \in Session |-> {}]
    /\ nextval = 1

(* A query or session.get: the identity map keeps a loaded object as it is, *)
(* so only a record that is not there takes the database's values.          *)
Load(s, r) ==
    /\ phase[s] \in {"idle", "open"}
    /\ cache[s][r] = NotLoaded
    /\ cache' = [cache EXCEPT ![s][r] = VisibleRow(s, r)]
    /\ UNCHANGED <<backend, db, store, rowLock, phase, todo, unlogged, last, chain>>

(* The session is closed and its identity map dropped. *)
Close(s) ==
    /\ phase[s] = "idle"
    /\ cache' = [cache EXCEPT ![s] = [r \in Record |-> NotLoaded]]
    /\ UNCHANGED <<backend, db, store, rowLock, phase, todo, unlogged, last, chain>>

\* Audit rows already promised: bounds the model, not the code.
Numbered == IF backend = "postgresql" THEN nextval - 1
            ELSE Cardinality(trail \union UNION {staged[s] : s \in Session})
Promised == Cardinality(UNION {({s} \X (todo[s] \union unlogged[s])) : s \in Session})

(* Attributes of loaded objects are set and the session flushes.  old and   *)
(* new are what _collect_changes reads: the attribute history, that is the  *)
(* cached values, and the cached values with the new ones in place.         *)
Flush(s) ==
    /\ phase[s] \in {"idle", "open"}
    /\ \E changes \in SUBSET {c \in Change : c.old = cache[s][c.rec] /\ Changed(c) # {}} :
        /\ changes # {}
        /\ \A c, d \in changes : c.rec = d.rec => c = d
        /\ Numbered + Promised + Cardinality(changes) <= MaxRows
        /\ todo' = [todo EXCEPT ![s] = changes]
        /\ cache' = [cache EXCEPT ![s] = [r \in Record |->
                        IF \E c \in changes : c.rec = r
                        THEN (CHOOSE c \in changes : c.rec = r).new
                        ELSE cache[s][r]]]
    /\ phase' = [phase EXCEPT ![s] = "dml"]
    /\ UNCHANGED <<backend, db, store, rowLock, unlogged, last, chain>>

First(c, changes) == c \in changes /\ \A d \in changes : c.rec <= d.rec

\* Mutant: nobody waits for the lock.
LockFreeAlways(s) == s \in Session

LockFree(s) == chainLock \in {NoSession, s}

\* Mutant: the UPDATE sets every column, not just the changed ones.
StatementWholeRow(s) ==
    /\ phase[s] = "dml"
    /\ \E c \in todo[s] :
        /\ First(c, todo[s])
        /\ rowLock[c.rec] \in {NoSession, s}
        /\ rowLock' = [rowLock EXCEPT ![c.rec] = s]
        /\ store' = [store EXCEPT ![c.rec] = c.new]
        /\ todo' = [todo EXCEPT ![s] = @ \ {c}]
        /\ unlogged' = [unlogged EXCEPT ![s] = @ \union {c}]
        /\ phase' = [phase EXCEPT ![s] = IF todo[s] # {c} THEN "dml" ELSE "lock"]
    /\ UNCHANGED <<backend, db, cache, last, chain>>

(* One UPDATE ... WHERE pk of the flush: it writes the changed columns on   *)
(* top of the row's latest version, whatever the session had read.          *)
Statement(s) ==
    /\ phase[s] = "dml"
    /\ \E c \in todo[s] :
        /\ First(c, todo[s])
        /\ rowLock[c.rec] \in {NoSession, s}
        /\ rowLock' = [rowLock EXCEPT ![c.rec] = s]
        /\ store' = [store EXCEPT ![c.rec] = [k \in Column |->
                        IF k \in Changed(c) THEN c.new[k] ELSE store[c.rec][k]]]
        /\ todo' = [todo EXCEPT ![s] = @ \ {c}]
        /\ unlogged' = [unlogged EXCEPT ![s] = @ \union {c}]
        /\ phase' = [phase EXCEPT ![s] =
                        IF todo[s] # {c} THEN "dml"
                        ELSE IF backend = "postgresql" THEN "lock" ELSE "read"]
    /\ IF backend = "sqlite" THEN LockFree(s) /\ chainLock' = s
                             ELSE UNCHANGED chainLock
    /\ UNCHANGED <<backend, db, cache, last, trail, staged, nextval>>

\* Mutant: the advisory lock is not taken.
LockChainSkipped(s) ==
    /\ phase[s] = "lock"
    /\ phase' = [phase EXCEPT ![s] = "read"]
    /\ UNCHANGED <<backend, data, todo, unlogged, last, chain>>

(* SELECT pg_advisory_xact_lock: blocks while another transaction holds it. *)
LockChain(s) ==
    /\ phase[s] = "lock"
    /\ LockFree(s)
    /\ chainLock' = s
    /\ phase' = [phase EXCEPT ![s] = "read"]
    /\ UNCHANGED <<backend, data, todo, unlogged, last, trail, staged, nextval>>

(* prev = SELECT entry_hash ... ORDER BY trail_id DESC LIMIT 1 or GENESIS. *)
ReadLast(s) ==
    /\ phase[s] = "read"
    /\ last' = [last EXCEPT ![s] = LastHash(VisibleTrail(s))]
    /\ phase' = [phase EXCEPT ![s] = "append"]
    /\ UNCHANGED <<backend, data, todo, unlogged, chain>>

(* One iteration of the listener's loop: insert the row, chain prev. *)
AppendRow(s) ==
    /\ phase[s] = "append"
    /\ \E c \in unlogged[s] :
        /\ First(c, unlogged[s])
        /\ LET row == audit_row(NextId(s), c, s, last[s])
           IN  /\ staged' = [staged EXCEPT ![s] = @ \union {row}]
               /\ last' = [last EXCEPT ![s] = IF unlogged[s] = {c} THEN Genesis
                                              ELSE row.entry_hash]
        /\ unlogged' = [unlogged EXCEPT ![s] = @ \ {c}]
        /\ phase' = [phase EXCEPT ![s] = IF unlogged[s] = {c} THEN "open" ELSE "append"]
    /\ nextval' = IF backend = "postgresql" THEN nextval + 1 ELSE nextval
    /\ UNCHANGED <<backend, data, todo, chainLock, trail>>

\* Mutant: a session-level advisory lock outlives the transaction.
ReleaseKeepsChain(s) ==
    /\ rowLock' = [r \in Record |-> IF rowLock[r] = s THEN NoSession ELSE rowLock[r]]
    /\ phase' = [phase EXCEPT ![s] = "idle"]
    /\ staged' = [staged EXCEPT ![s] = {}]
    /\ UNCHANGED chainLock

\* The end of a transaction releases its locks.
Release(s) ==
    /\ rowLock' = [r \in Record |-> IF rowLock[r] = s THEN NoSession ELSE rowLock[r]]
    /\ chainLock' = IF chainLock = s THEN NoSession ELSE chainLock
    /\ phase' = [phase EXCEPT ![s] = "idle"]
    /\ staged' = [staged EXCEPT ![s] = {}]

Commit(s) ==
    /\ phase[s] = "open"
    /\ db' = [r \in Record |-> IF rowLock[r] = s THEN store[r] ELSE db[r]]
    /\ trail' = trail \union staged[s]
    /\ Release(s)
    /\ UNCHANGED <<backend, store, cache, todo, unlogged, last, nextval>>

(* An exception, a lock timeout, a deadlock victim, a lost connection: the  *)
(* database forgets the transaction, the session expires what it had        *)
(* loaded.                                                                  *)
Rollback(s) ==
    /\ phase[s] # "idle"
    /\ store' = [r \in Record |-> IF rowLock[r] = s THEN db[r] ELSE store[r]]
    /\ cache' = [cache EXCEPT ![s] = [r \in Record |-> NotLoaded]]
    /\ todo' = [todo EXCEPT ![s] = {}]
    /\ unlogged' = [unlogged EXCEPT ![s] = {}]
    /\ last' = [last EXCEPT ![s] = Genesis]
    /\ Release(s)
    /\ UNCHANGED <<backend, db, trail, nextval>>

Next ==
    \E s \in Session :
        \/ \E r \in Record : Load(s, r)
        \/ Close(s)
        \/ Flush(s)
        \/ Statement(s)
        \/ LockChain(s)
        \/ ReadLast(s)
        \/ AppendRow(s)
        \/ Commit(s)
        \/ Rollback(s)

Spec == Init /\ [][Next]_vars

-----------------------------------------------------------------------------
(* Properties *)

Phase == {"idle", "open", "dml", "lock", "read", "append"}

\* Every audit row has AuditTrail's columns, a number the chain can be ordered
\* by, a real change of one record and the session that flushed it; the
\* bookkeeping of write_audit_rows is well formed.
RowOK(row) ==
    /\ DOMAIN row = {"trail_id", "change", "user_id", "previous_entry_hash", "entry_hash"}
    /\ row.trail_id \in Nat \ {0}
    /\ row.change \in Change
    /\ row.user_id \in Session

TypeOK ==
    /\ backend \in {"sqlite", "postgresql"}
    /\ db \in [Record -> RowValue]
    /\ store \in [Record -> RowValue]
    /\ rowLock \in [Record -> Session \union {NoSession}]
    /\ cache \in [Session -> [Record -> RowValue \union {NotLoaded}]]
    /\ phase \in [Session -> Phase]
    /\ todo \in [Session -> SUBSET Change]
    /\ unlogged \in [Session -> SUBSET Change]
    /\ DOMAIN last = Session
    /\ chainLock \in Session \union {NoSession}
    /\ \A row \in trail : RowOK(row)
    /\ DOMAIN staged = Session
    /\ \A s \in Session : \A row \in staged[s] : RowOK(row)
    /\ nextval \in Nat \ {0}

\* verify_audit_chain succeeds whenever any session calls it: concurrent
\* flushes, commits and rollbacks never fork, break or (on SQLite) gap the
\* chain that the session sees.
ChainVerifies ==
    \A s \in Session : verify_audit_chain(VisibleTrail(s)) = <<TRUE, 0>>

\* What the trail says a column holds: the new value in the last audit row
\* that changes it.
Writes(rows, r, k) == {row \in rows : row.change.rec = r /\ k \in Changed(row.change)}
Replay(rows, r, k) ==
    LET writes == Writes(rows, r, k)
    IN  IF writes = {} THEN Seed
        ELSE (CHOOSE row \in writes : IsLast(row, writes)).change.new[k]

\* Every write is audited exactly once and in the order it took effect:
\* replaying the trail a session sees gives the data it sees, whatever
\* transactions were interleaved or rolled back.
TrailReplaysData ==
    \A s \in Session : phase[s] \in {"idle", "open"} =>
        \A r \in Record, k \in Column :
            VisibleRow(s, r)[k] = Replay(VisibleTrail(s), r, k)

\* s cannot go on before t's transaction ends.
WaitsFor(s, t) ==
    /\ s # t
    /\ \/ phase[s] = "lock" /\ chainLock = t
       \/ /\ phase[s] = "dml"
          /\ \/ \E c \in todo[s] : First(c, todo[s]) /\ rowLock[c.rec] = t
             \/ backend = "sqlite" /\ chainLock = t

\* s is on a cycle of waiting transactions.
Deadlocked(s) ==
    \E cycle \in SUBSET Session :
        /\ s \in cycle
        /\ \A t \in cycle : /\ \E u \in cycle : WaitsFor(t, u)
                           /\ \E u \in cycle : WaitsFor(u, t)

\* A flush executes its UPDATEs in key order and before it asks for the
\* chain's lock, so transactions that flush once never deadlock, and none
\* does on SQLite: every deadlock has a transaction in it that keeps the
\* chain's lock, and audit rows, from an earlier flush while its next flush
\* waits for a row.
DeadlockNeedsSecondFlush ==
    (\E s \in Session : Deadlocked(s)) =>
        /\ backend = "postgresql"
        /\ \E t \in Session : /\ Deadlocked(t)
                              /\ chainLock = t /\ staged[t] # {} /\ phase[t] = "dml"

\* The abstract promise: a log that only grows at its end, one transaction
\* at a time.
Log == INSTANCE AppendOnlyLog WITH log <- trail
AppendsOnly == Log!Spec
=============================================================================
