----------------------------- MODULE PeriodClose -----------------------------
(***************************************************************************)
(* The gated period close of govcon/services/period_close.py, with the     *)
(* postings and the rate approvals that run next to it in other sessions.  *)
(*                                                                         *)
(* close_period reads the ledger in three SELECTs, decides, flushes the    *)
(* verdict, counts the fiscal year's open periods and locks its approved   *)
(* rates.  Every flush is an UPDATE or INSERT followed by the audit        *)
(* listener, which holds the audit chain's lock until the transaction ends *)
(* (module AuditChain; the audit rows themselves are left out here).  The  *)
(* periods are those of one fiscal year.                                   *)
(***************************************************************************)
EXTENDS Integers, FiniteSets, Functions

CONSTANTS
    Session,     \* ORM sessions, one connection each
    Period,      \* the periods of the fiscal year
    Contract,
    Pool,        \* calculated indirect pools of the fiscal year
    Amount,      \* amounts of GL and JCL entries (a reversal is negative)
    NoSession, NotLoaded,
    MaxEntries   \* bound: ledger rows ever inserted

ASSUME SessionAssumption == NoSession \notin Session
ASSUME RowAssumption ==
    /\ NotLoaded \notin {"pending", "approved", "locked"}
    /\ NotLoaded \notin [status : {"open", "closed"}, recon : {"pending", "passed", "failed"},
                        closed_by : Session \union {NoSession}]
ASSUME PeriodAssumption == Period # {} /\ Period \intersect Pool = {}
ASSUME AmountAssumption == Amount \subseteq Int
ASSUME BoundAssumption == MaxEntries \in Nat

VARIABLES
    backend,   \* dialect.name of the engine: "sqlite" or "postgresql"
    ledger,    \* committed totals by book, period and contract
    posted,    \* totals posted by running transactions
    db,        \* committed rows of periods and indirect_pools
    store,     \* those rows with the uncommitted updates of whoever locks them
    rowLock,   \* who updated the row in a running transaction
    cache,     \* identity maps; an object once loaded is not read again
    chainLock, \* SQLite's write lock, or the audit chain's advisory lock
    pc,        \* where each session is
    job,       \* what its running operation works on
    raced,     \* history: periods where a posting overlapped a close
    stale,     \* history: periods marked failed from a copy the row had left behind
    entries    \* rows inserted so far, for the bound

vars == <<backend, ledger, posted, db, store, rowLock, cache, chainLock, pc, job, raced, stale, entries>>

-----------------------------------------------------------------------------
Book == {"gl", "jcl", "billed"}
Row == Period \union Pool

Zero == [c \in Contract |-> 0]
NoPostings == [b \in Book |-> [p \in Period |-> Zero]]
Idle == [period |-> NotLoaded, seen |-> [b \in Book |-> Zero], then |-> "open",
         rates |-> {}, closing |-> {}, approving |-> {}]
\* The operation is over; what the transaction closed or approved so far stays.
Done(j) == [Idle EXCEPT !.closing = j.closing, !.approving = j.approving]

Visible(s, x) == IF rowLock[x] = s THEN store[x] ELSE db[x]
Loaded(s, x) == IF cache[s][x] = NotLoaded THEN Visible(s, x) ELSE cache[s][x]
VisibleTotals(s, b, p) == [c \in Contract |-> ledger[b][p][c] + posted[s][b][p][c]]

Ready(s) == pc[s] \in {"idle", "open"}

\* A DML statement takes SQLite's write lock; on PostgreSQL it does not touch
\* the chain's lock.
BeginDML(s) ==
    IF backend = "sqlite" THEN chainLock \in {NoSession, s} /\ chainLock' = s
                          ELSE UNCHANGED chainLock

\* UPDATE of one row by primary key: waits for the row's lock.
Update(s, x, row) ==
    /\ rowLock[x] \in {NoSession, s}
    /\ rowLock' = [rowLock EXCEPT ![x] = s]
    /\ store' = [store EXCEPT ![x] = row]

-----------------------------------------------------------------------------
Init ==
    /\ backend \in {"sqlite", "postgresql"}
    /\ ledger = NoPostings
    /\ posted = [s \in Session |-> NoPostings]
    /\ db = [x \in Row |-> IF x \in Pool THEN "pending"
                ELSE [status |-> "open", recon |-> "pending", closed_by |-> NoSession]]
    /\ store = db
    /\ rowLock = [x \in Row |-> NoSession]
    /\ cache = [s \in Session |-> [x \in Row |-> NotLoaded]]
    /\ chainLock = NoSession
    /\ pc = [s \in Session |-> "idle"]
    /\ job = [s \in Session |-> Idle]
    /\ raced = {}
    /\ stale = {}
    /\ entries = 0

(* An object enters the identity map. *)
Load(s, x) ==
    /\ Ready(s)
    /\ cache[s][x] = NotLoaded
    /\ cache' = [cache EXCEPT ![s][x] = Visible(s, x)]
    /\ UNCHANGED <<backend, ledger, posted, db, store, rowLock, chainLock, pc, job, raced, stale, entries>>

(* The session is closed; the next one starts with an empty identity map. *)
EndSession(s) ==
    /\ pc[s] = "idle"
    /\ cache' = [cache EXCEPT ![s] = [x \in Row |-> NotLoaded]]
    /\ UNCHANGED <<backend, ledger, posted, db, store, rowLock, chainLock, pc, job, raced, stale, entries>>

\* Mutant: the trigger is missing.
GateNone(s, p) == p \in Period

\* The trigger trg_*_open_period: it reads the row as the statement sees it.
GateOpenPeriod(s, p) == Visible(s, p).status = "open"

\* The before_flush guard: session.get(Period) may answer from the cache.
GuardOpenPeriod(s, p) == Loaded(s, p).status = "open"

Post(s, b, p, c, a) ==
    /\ Ready(s)
    /\ entries < MaxEntries
    /\ entries' = entries + 1
    /\ BeginDML(s)
    /\ posted' = [posted EXCEPT ![s][b][p][c] = @ + a]
    /\ pc' = [pc EXCEPT ![s] = "chain"]
    /\ UNCHANGED <<backend, ledger, db, store, rowLock, job, raced, stale>>

(* A GL or JCL entry is flushed.  When the guard or the trigger refuses it  *)
(* the flush raises and the transaction rolls back.                         *)
PostEntry(s) ==
    \E b \in {"gl", "jcl"}, p \in Period, c \in Contract, a \in Amount :
        /\ GuardOpenPeriod(s, p)
        /\ GateOpenPeriod(s, p)
        /\ cache' = [cache EXCEPT ![s][p] = Loaded(s, p)]
        /\ Post(s, b, p, c, a)

(* A voucher is flushed: neither a guard nor a trigger looks at its period. *)
PostVoucher(s) ==
    \E p \in Period, c \in Contract, a \in {n \in Amount : n > 0} :
        Post(s, "billed", p, c, a) /\ UNCHANGED cache

(* close_period up to the reconciliation: an already closed period raises. *)
StartClose(s, p) ==
    /\ Ready(s)
    /\ Loaded(s, p).status # "closed"
    /\ cache' = [cache EXCEPT ![s][p] = Loaded(s, p)]
    /\ pc' = [pc EXCEPT ![s] = "gl"]
    /\ job' = [job EXCEPT ![s].period = p, ![s].closing = @ \union {p}]
    /\ UNCHANGED <<backend, ledger, posted, db, store, rowLock, chainLock, raced, stale, entries>>

(* One of three_way_reconciliation's three SELECTs, each with its own       *)
(* snapshot of what is committed.                                           *)
ReadTotals(s, b) ==
    /\ pc[s] = b
    /\ job' = [job EXCEPT ![s].seen[b] = VisibleTotals(s, b, job[s].period)]
    /\ pc' = [pc EXCEPT ![s] = CASE b = "gl" -> "jcl"
                                 [] b = "jcl" -> "billed"
                                 [] OTHER -> "verdict"]
    /\ UNCHANGED <<backend, ledger, posted, db, store, rowLock, cache, chainLock, raced, stale, entries>>

\* Mutant: only the billing check is left.
ReconcilesBilling(totals) ==
    \A c \in Contract : totals["billed"][c] > 0 => totals["billed"][c] <= totals["gl"][c]

\* Mutant: the books are compared in total, not contract by contract.
ReconcilesInTotal(totals) ==
    FoldFunction(LAMBDA a, b : a + b, 0, totals["gl"])
        = FoldFunction(LAMBDA a, b : a + b, 0, totals["jcl"])

\* GL and JCL tie per contract, and no contract is billed beyond its ledger
\* basis (a contract without vouchers is not looked at).
Reconciles(totals) ==
    \A c \in Contract :
        /\ totals["gl"][c] = totals["jcl"][c]
        /\ totals["billed"][c] > 0 => totals["billed"][c] <= totals["gl"][c]

\* Mutant: the reconciliation result is not recorded.
PassedStatusOnly(s, p) == [store[p] EXCEPT !.status = "closed", !.closed_by = s]

\* The columns that differ from the loaded object are written, the others
\* keep what the database has.
Passed(s, p) == [store[p] EXCEPT !.status = "closed", !.recon = "passed", !.closed_by = s]
Failed(p) == [store[p] EXCEPT !.recon = "failed"]

(* The verdict is flushed: the period closes, or is marked failed and       *)
(* PeriodCloseError raised; what the caller then does with the transaction  *)
(* is up to the caller.                                                     *)
ClosePassed(s) ==
    LET p == job[s].period IN
    /\ pc[s] = "verdict"
    /\ Reconciles(job[s].seen)
    /\ BeginDML(s)
    /\ Update(s, p, Passed(s, p))
    /\ cache' = [cache EXCEPT ![s][p] = [status |-> "closed", recon |-> "passed", closed_by |-> s]]
    /\ pc' = [pc EXCEPT ![s] = "chain"]
    /\ job' = [job EXCEPT ![s] = [Done(@) EXCEPT !.then = "count"]]
    /\ UNCHANGED <<backend, ledger, posted, db, raced, stale, entries>>

CloseFailed(s) ==
    LET p == job[s].period IN
    /\ pc[s] = "verdict"
    /\ ~Reconciles(job[s].seen)
    /\ cache' = [cache EXCEPT ![s][p].recon = "failed"]
    /\ job' = [job EXCEPT ![s] = [Done(job[s]) EXCEPT !.closing = job[s].closing \ {p}]]
    /\ IF cache[s][p].recon = "failed"
       THEN /\ pc' = [pc EXCEPT ![s] = "open"]
            /\ UNCHANGED <<store, rowLock, chainLock, stale>>
       ELSE /\ BeginDML(s)
            /\ Update(s, p, Failed(p))
            /\ stale' = IF cache[s][p] = Visible(s, p) THEN stale ELSE stale \union {p}
            /\ pc' = [pc EXCEPT ![s] = "chain"]
    /\ UNCHANGED <<backend, ledger, posted, db, raced, entries>>

\* Mutant: the advisory lock is not taken.
TakeChainSkipped(s) ==
    /\ pc[s] = "chain"
    /\ pc' = [pc EXCEPT ![s] = job[s].then]
    /\ job' = [job EXCEPT ![s].then = "open"]
    /\ UNCHANGED <<backend, ledger, posted, db, store, rowLock, cache, chainLock, raced, stale, entries>>

(* The flush's audit listener gets the chain's lock. *)
TakeChain(s) ==
    /\ pc[s] = "chain"
    /\ chainLock \in {NoSession, s}
    /\ chainLock' = s
    /\ pc' = [pc EXCEPT ![s] = job[s].then]
    /\ job' = [job EXCEPT ![s].then = "open"]
    /\ UNCHANGED <<backend, ledger, posted, db, store, rowLock, cache, raced, stale, entries>>

FiscalYearFullyClosed(s) == \A p \in Period : Visible(s, p).status = "closed"

(* fiscal_year_fully_closed, and the SELECT of _lock_fiscal_year_rates. *)
CountOpen(s) ==
    /\ pc[s] = "count"
    /\ IF FiscalYearFullyClosed(s)
       THEN /\ pc' = [pc EXCEPT ![s] = "rates"]
            /\ job' = [job EXCEPT ![s].rates = {f \in Pool : Visible(s, f) = "approved"}]
       ELSE pc' = [pc EXCEPT ![s] = "open"] /\ UNCHANGED job
    /\ UNCHANGED <<backend, ledger, posted, db, store, rowLock, cache, chainLock, raced, stale, entries>>

(* _lock_fiscal_year_rates: an UPDATE for each selected pool whose loaded   *)
(* status is not already locked.                                            *)
LockRates(s) ==
    /\ pc[s] = "rates"
    /\ \/ /\ job[s].rates = {}
          /\ pc' = [pc EXCEPT ![s] = "open"]
          /\ UNCHANGED <<store, rowLock, cache, job>>
       \/ \E f \in job[s].rates :
          /\ IF cache[s][f] = "locked" THEN UNCHANGED <<store, rowLock>>
                                       ELSE Update(s, f, "locked")
          /\ cache' = [cache EXCEPT ![s][f] = "locked"]
          /\ job' = [job EXCEPT ![s].rates = @ \ {f}]
          /\ UNCHANGED pc
    /\ UNCHANGED <<backend, ledger, posted, db, chainLock, raced, stale, entries>>

(* rates.approve_rate on a pool without siblings: whatever its status, it   *)
(* becomes approved.                                                        *)
ApproveRate(s, f) ==
    /\ Ready(s)
    /\ Loaded(s, f) # "approved"
    /\ BeginDML(s)
    /\ Update(s, f, "approved")
    /\ cache' = [cache EXCEPT ![s][f] = "approved"]
    /\ pc' = [pc EXCEPT ![s] = "chain"]
    /\ job' = [job EXCEPT ![s].approving = @ \union {f}]
    /\ UNCHANGED <<backend, ledger, posted, db, raced, stale, entries>>

Touches(s, p) == \E b \in Book : posted[s][b][p] # Zero

Release(s) ==
    /\ posted' = [posted EXCEPT ![s] = NoPostings]
    /\ rowLock' = [x \in Row |-> IF rowLock[x] = s THEN NoSession ELSE rowLock[x]]
    /\ chainLock' = IF chainLock = s THEN NoSession ELSE chainLock
    /\ pc' = [pc EXCEPT ![s] = "idle"]
    /\ job' = [job EXCEPT ![s] = Idle]

Commit(s) ==
    /\ pc[s] = "open"
    /\ ledger' = [b \in Book |-> [p \in Period |-> VisibleTotals(s, b, p)]]
    /\ db' = [x \in Row |-> Visible(s, x)]
    /\ raced' = raced \union
          {p \in Period : \E t \in Session \ {s} :
              \/ Touches(s, p) /\ p \in job[t].closing
              \/ Touches(t, p) /\ p \in job[s].closing}
    /\ Release(s)
    /\ UNCHANGED <<backend, store, cache, stale, entries>>

(* Any error, a refused entry, a lock timeout, a deadlock victim, a lost    *)
(* connection, or the caller's choice after PeriodCloseError.               *)
Rollback(s) ==
    /\ pc[s] # "idle"
    /\ store' = [x \in Row |-> IF rowLock[x] = s THEN db[x] ELSE store[x]]
    /\ cache' = [cache EXCEPT ![s] = [x \in Row |-> NotLoaded]]
    /\ Release(s)
    /\ UNCHANGED <<backend, ledger, db, raced, stale, entries>>

Next ==
    \E s \in Session :
        \/ \E x \in Row : Load(s, x)
        \/ EndSession(s)
        \/ PostEntry(s)
        \/ PostVoucher(s)
        \/ \E p \in Period : StartClose(s, p)
        \/ \E b \in Book : ReadTotals(s, b)
        \/ ClosePassed(s)
        \/ CloseFailed(s)
        \/ TakeChain(s)
        \/ CountOpen(s)
        \/ LockRates(s)
        \/ \E f \in Pool : ApproveRate(s, f)
        \/ Commit(s)
        \/ Rollback(s)

Spec == Init /\ [][Next]_vars

-----------------------------------------------------------------------------
(* Properties *)

Closed(p) == db[p].status = "closed"
Ties(p) == ledger["gl"][p] = ledger["jcl"][p]

\* A closed period's GL ties to its JCL contract by contract, unless a posting
\* was in flight while the close was: the gate lets no other period through,
\* and nothing posted later unties it.
ClosedTiesUnlessRaced == \A p \in Period : Closed(p) => Ties(p) \/ p \in raced

\* "no transaction posts to a closed period": once a period is closed its GL
\* and JCL totals never change.
ClosedLedgerFrozen ==
    [][\A p \in Period : Closed(p) =>
          \A b \in {"gl", "jcl"} : ledger'[b][p] = ledger[b][p]]_vars

\* What a deployment can rely on of that: SQLite, whose gate runs under the
\* write lock the close needs, freezes the ledger; PostgreSQL does so unless
\* the posting and the close overlapped.
FrozenUnlessRaced ==
    [][\A p \in Period : Closed(p) =>
          \/ \A b \in {"gl", "jcl"} : ledger'[b][p] = ledger[b][p]
          \/ backend = "postgresql" /\ p \in raced']_vars

\* "rates lock on close": the commit that closes the last open period of the
\* year locks every rate that was approved by then (unless its own transaction
\* goes on to approve that rate anew).  Two sessions that close the last two
\* periods at the same time cannot both miss it: the second one counts only
\* after the first one's transaction has given up the audit chain's lock.
RatesLockStep ==
    (\E p \in Period : ~Closed(p)) /\ (\A p \in Period : db'[p].status = "closed")
    => \A f \in Pool : db[f] = "approved" =>
          db'[f] = "locked" \/ \E s \in Session : f \in job[s].approving

\* "a period cannot close until the GL/JCL/billing three-way reconciliation
\* passes": the commit that closes a period closes one whose GL ties to its
\* JCL contract by contract.
CloseTiesStep ==
    \A p \in Period : ~Closed(p) /\ db'[p].status = "closed" =>
        ledger'["gl"][p] = ledger'["jcl"][p]

CloseTies == [][CloseTiesStep]_vars

\* A closed period is one whose reconciliation is on record as passed, ...
ClosedShowsPassed == \A p \in Period : Closed(p) => db[p].recon = "passed"

\* ... also when a failed verdict was flushed before, and when two sessions close
\* the period at once, unless one of them found it untied from a copy that the
\* other's close had left behind: it marks the closed period failed.
ClosedShowsPassedUnlessStale ==
    \A p \in Period : Closed(p) => db[p].recon = "passed" \/ p \in stale
=============================================================================
