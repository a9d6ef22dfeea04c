---------------------------- MODULE MCAuditChain ----------------------------
(***************************************************************************)
(* Model-checking instance of AuditChain: interchangeable sessions, and    *)
(* the fairness the databases and the callers provide.                     *)
(***************************************************************************)
EXTENDS AuditChain, TLC

SessionSymmetry == Permutations(Session)

\* The server aborts a transaction of a deadlock; SQLite gives up a wait for
\* its write lock after the busy timeout.
DeadlockVictim(s) == Deadlocked(s) /\ Rollback(s)
BusyTimeout(s) == (\E t \in Session : WaitsFor(s, t)) /\ Rollback(s)

\* Listener code and callers run to the end of the transaction.
CallerFairness ==
    \A s \in Session : WF_vars(ReadLast(s) \/ AppendRow(s)) /\ SF_vars(Commit(s))

\* PostgreSQL serves waiters in the order they came and checks for deadlocks.
\* SQLite's writers poll: a wait ends with the lock or with the timeout.
OnPostgres(action) == backend = "postgresql" /\ action
OnSQLite(action) == backend = "sqlite" /\ action
DatabaseFairness ==
    \A s \in Session :
        /\ SF_vars(OnPostgres(Statement(s) \/ LockChain(s)))
        /\ WF_vars(OnPostgres(DeadlockVictim(s)) \/ OnSQLite(Statement(s) \/ BusyTimeout(s)))

\* Every transaction that starts writing ends: no session keeps the chain's
\* lock, or waits for it or for a row, for ever.
TransactionsEnd == \A s \in Session : phase[s] # "idle" ~> phase[s] = "idle"
=============================================================================
