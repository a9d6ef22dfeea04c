----------------------------- MODULE UnitOfWork -----------------------------
(***************************************************************************)
(* The ground the service modules stand on: ORM sessions over one database *)
(* as AuditChain shows them from outside.                                  *)
(*                                                                         *)
(* A flush that changes a row ends in the audit listener, which takes the  *)
(* one lock of the chain and keeps it to the end of the transaction (on    *)
(* SQLite the first write takes the database's).  What a flush writes      *)
(* depends on nothing read while it waits, so it is one step here, taken   *)
(* when the lock is free.  A session that has not written has no           *)
(* transaction to speak of: each of its SELECTs sees what is committed.    *)
(*                                                                         *)
(* Objects stay in a session's identity map, attributes as they were when  *)
(* first loaded, across queries and commits (expire_on_commit=False); a    *)
(* rollback expires them.                                                  *)
(***************************************************************************)
EXTENDS Integers

CONSTANTS
    Session,     \* ORM sessions
    NoSession,   \* nobody holds the lock
    NotLoaded,   \* not in the identity map
    Absent,      \* a row that has not been inserted
    MaxCalls     \* bound: service calls in a behaviour

VARIABLES
    db,       \* committed rows by key
    work,     \* rows as the lock's holder has written them
    writer,   \* who holds the lock
    cache,    \* identity maps
    call,     \* the service call each session is inside of, with its locals
    calls,    \* calls so far, for the bound
    history   \* what the properties need to remember

vars == <<db, work, writer, cache, call, calls, history>>

Idle == [op |-> "idle"]

Start(rows) ==
    /\ db = rows
    /\ work = rows
    /\ writer = NoSession
    /\ cache = [s \in Session |-> [k \in DOMAIN rows |-> NotLoaded]]
    /\ call = [s \in Session |-> Idle]
    /\ calls = 0

Sees(s) == IF writer = s THEN work ELSE db
Copy(s, k) == IF cache[s][k] = NotLoaded THEN Sees(s)[k] ELSE cache[s][k]
Stale(s, k) == Copy(s, k) # Sees(s)[k]

\* Another session has uncommitted changes of row k.
Pending(s, k) == writer \notin {NoSession, s} /\ work[k] # db[k]

\* A service call begins.
Begin(s) ==
    /\ call[s] = Idle
    /\ calls < MaxCalls
    /\ calls' = calls + 1

\* Rows by key: one of them, and some of them in place of older ones.
Only(k, row) == [x \in {k} |-> row]
Replaced(old, rows) == [k \in DOMAIN old |-> IF k \in DOMAIN rows THEN rows[k] ELSE old[k]]

\* An UPDATE sets the columns that differ from the session's copy, by primary
\* key; a row that is new to the session is inserted.
Set(row, copy, new) ==
    IF row = Absent THEN new
    ELSE [c \in DOMAIN row |-> IF new[c] = copy[c] THEN row[c] ELSE new[c]]

Flushed(s, rows) ==
    [k \in DOMAIN db |-> IF k \in DOMAIN rows THEN Set(Sees(s)[k], Copy(s, k), rows[k])
                                              ELSE Sees(s)[k]]

Keep(s, rows) == [cache EXCEPT ![s] = Replaced(@, rows)]

\* The session flushes objects with new attribute values; if none differ,
\* nothing is sent.
Flush(s, rows) ==
    /\ cache' = Keep(s, rows)
    /\ IF \A k \in DOMAIN rows : rows[k] = Copy(s, k)
       THEN UNCHANGED <<db, work, writer>>
       ELSE /\ writer \in {NoSession, s}
            /\ writer' = s
            /\ work' = Flushed(s, rows)
            /\ UNCHANGED db

\* Rows written that no later step takes from the identity map.
Write(s, rows) ==
    /\ writer \in {NoSession, s}
    /\ writer' = s
    /\ work' = Replaced(Sees(s), rows)
    /\ UNCHANGED <<db, cache>>

\* A query between service calls puts a row into the identity map.
Load(s, k) ==
    /\ call[s] = Idle
    /\ cache[s][k] = NotLoaded /\ Sees(s)[k] # Absent
    /\ cache' = [cache EXCEPT ![s][k] = Sees(s)[k]]
    /\ UNCHANGED <<db, work, writer, call, calls, history>>

\* The session is closed between two transactions.
EndSession(s) ==
    /\ call[s] = Idle
    /\ writer # s
    /\ cache' = [cache EXCEPT ![s] = [k \in DOMAIN db |-> NotLoaded]]
    /\ UNCHANGED <<db, work, writer, call, calls, history>>

Commit(s) ==
    /\ writer = s
    /\ call[s] = Idle
    /\ db' = work
    /\ writer' = NoSession
    /\ UNCHANGED <<work, cache, call, calls, history>>

\* An exception, a refused statement, a deadlock victim, a lost connection or
\* the caller's choice, inside a call or after it.
Rollback(s) ==
    /\ writer = s \/ call[s] # Idle
    /\ work' = IF writer = s THEN db ELSE work
    /\ writer' = IF writer = s THEN NoSession ELSE writer
    /\ cache' = [cache EXCEPT ![s] = [k \in DOMAIN db |-> NotLoaded]]
    /\ call' = [call EXCEPT ![s] = Idle]
    /\ UNCHANGED <<db, calls, history>>

\* What happens between service calls; keys are those of rows a service is
\* handed as objects or modifies through them.
SessionStep(keys) ==
    \E s \in Session : \/ \E k \in keys : Load(s, k)
                       \/ EndSession(s)
                       \/ Commit(s)
                       \/ Rollback(s)
=============================================================================
