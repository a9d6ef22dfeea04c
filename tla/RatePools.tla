----------------------------- MODULE RatePools -----------------------------
(***************************************************************************)
(* The life of indirect rates: govcon/services/rates.py on the pool rows   *)
(* of one fiscal year and rate type, in sessions that run side by side.    *)
(*                                                                         *)
(* Rows of the same pool name are revisions of one rate.  A row's base is  *)
(* derived from the ledger and, for overhead and G&A, from the upstream    *)
(* rates in force; its rate is calculated from the ledger and the base; it *)
(* is approved, superseded by another revision, and locked when the year   *)
(* closes.  Sessions see rows through identity maps that are not refreshed *)
(* and write the columns they changed, row by row, as in PeriodClose.      *)
(*                                                                         *)
(* Amounts are abstracted to the version of the ledger they are totals of: *)
(* a base or a rate is the record of what it was computed from.            *)
(***************************************************************************)
EXTENDS Integers, FiniteSets

CONSTANTS
    Session, Pool,    \* ORM sessions; rows of indirect_pools by pool_id
    Name,             \* pool_name of each row
    Version,          \* states of the year's ledger
    NoSession, NotLoaded, NoPool, None,
    MaxOperations     \* bound: loads, service calls and postings

ASSUME PoolAssumption == Pool \subseteq Nat /\ NoPool \notin Pool
ASSUME NameAssumption == Name \in [Pool -> {"fringe", "overhead", "ga"}]
ASSUME SessionAssumption == NoSession \notin Session
ASSUME BoundAssumption == MaxOperations \in Nat

VARIABLES
    backend,     \* dialect.name of the engine: "sqlite" or "postgresql"
    ledger,      \* the version every SELECT on the ledger adds up
    db,          \* committed pool rows
    store,       \* rows with the uncommitted updates of whoever locks them
    rowLock,     \* who updated the row in a running transaction
    cache,       \* identity maps; an object once loaded is not read again
    chainLock,   \* SQLite's write lock, or the audit chain's advisory lock
    pc,          \* where each session is
    todo,        \* column changes of the running flush: <<row, column, value>>
    approving,   \* rows the running transaction approved
    closer,      \* whose running transaction closed the year's last period
    yearClosed,  \* the year is closed
    raced,       \* history: pool names whose rows two sessions worked on at once
    settled,     \* history: the rate each row had when the year's close locked it
    operations   \* calls so far, for the bound

vars == <<backend, ledger, db, store, rowLock, cache, chainLock, pc, todo,
          approving, closer, yearClosed, raced, settled, operations>>

-----------------------------------------------------------------------------
(* Rows, bases and rates *)

Family(n) == {p \in Pool : Name[p] = n}

\* The rates a base is derived from (section 5 of the rate engine's spec
\* chains fringe, overhead, G&A).
Upstream(n) == CASE n = "fringe" -> {}
                 [] n = "overhead" -> {"fringe"}
                 [] n = "ga" -> {"fringe", "overhead"}

Column == {"status", "base", "rate", "superseded_by", "run"}

\* run is the result of the latest rate_calculation_runs row of the pool,
\* inserted under the row lock of the UPDATE that goes before it.
Pending == [status |-> "pending", base |-> None, rate |-> None,
            superseded_by |-> NoPool, run |-> None]
Rate(version, base) == [balance |-> version, base |-> base]

\* What rates are made of: a balance over a base whose upstream rates are
\* rates of the right pools, and no row's missing rate.
RateOver(rates) == [balance : Version, base : [labor : Version, rates : rates]]
FringeRate == RateOver([{} -> {None}])
OverheadRate == RateOver([{"fringe"} -> FringeRate])
UpstreamRates(n) == CASE n = "fringe" -> [{} -> {None}]
                      [] n = "overhead" -> [{"fringe"} -> FringeRate]
                      [] n = "ga" -> [{"fringe", "overhead"} -> FringeRate \union OverheadRate]
BaseOf(n) == [labor : Version, rates : UpstreamRates(n)]
RateOf(n) == RateOver(UpstreamRates(n))

ASSUME NoneAssumption == \A n \in {"fringe", "overhead", "ga"} : None \notin RateOf(n)

\* A fringe row that was derived and calculated on some version of the ledger:
\* where the sessions start, with the other rows still to be derived.
Calculated(v) ==
    LET base == [labor |-> v, rates |-> [n \in {} |-> None]]
    IN  [Pending EXCEPT !.base = base, !.rate = Rate(v, base), !.run = Rate(v, base)]

Visible(s, p) == IF rowLock[p] = s THEN store[p] ELSE db[p]
Loaded(s, p) == IF cache[s][p] = NotLoaded THEN Visible(s, p) ELSE cache[s][p]

InForce(row) == row.status \in {"approved", "locked"}

\* Mutant: no preference for the LOCKED row.
RatesInForceAny(s, n) ==
    {Visible(s, p).rate : p \in {q \in Family(n) : InForce(Visible(s, q))}}

\* _approved_rate: a LOCKED row before any approved one (of several approved
\* ones the most recently calculated, whichever that is).
RatesInForce(s, n) ==
    LET rows == {Visible(s, p) : p \in Family(n)}
        locked == {row \in rows : row.status = "locked"}
        approved == {row \in rows : row.status = "approved"}
    IN  {row.rate : row \in IF locked # {} THEN locked ELSE approved}

-----------------------------------------------------------------------------
Init ==
    /\ backend \in {"sqlite", "postgresql"}
    /\ ledger \in Version
    /\ db \in {rows \in [Pool -> {Pending} \union {Calculated(v) : v \in Version}] :
                 \A p \in Pool : rows[p] = Pending <=> Name[p] # "fringe"}
    /\ store = db
    /\ rowLock = [p \in Pool |-> NoSession]
    /\ cache = [s \in Session |-> [p \in Pool |-> NotLoaded]]
    /\ chainLock = NoSession
    /\ pc = [s \in Session |-> "idle"]
    /\ todo = [s \in Session |-> {}]
    /\ approving = [s \in Session |-> {}]
    /\ closer = NoSession
    /\ yearClosed = FALSE
    /\ raced = {}
    /\ settled = [p \in Pool |-> None]
    /\ operations = 0

Ready(s) == pc[s] \in {"idle", "open"}

Count == operations < MaxOperations /\ operations' = operations + 1

(* An object enters the identity map.  (In an open transaction the session  *)
(* holds the chain's lock, nobody else commits, and a later call loads the  *)
(* same values: nothing is lost by loading between transactions only.)      *)
Load(s, p) ==
    /\ pc[s] = "idle"
    /\ Count
    /\ cache[s][p] = NotLoaded
    /\ cache' = [cache EXCEPT ![s][p] = Visible(s, p)]
    /\ UNCHANGED <<backend, ledger, db, store, rowLock, chainLock, pc, todo,
                   approving, closer, yearClosed, raced, settled>>

(* The session is closed; the next one starts with an empty identity map. *)
EndSession(s) ==
    /\ pc[s] = "idle"
    /\ cache' = [cache EXCEPT ![s] = [p \in Pool |-> NotLoaded]]
    /\ UNCHANGED <<backend, ledger, db, store, rowLock, chainLock, pc, todo,
                   approving, closer, yearClosed, raced, settled, operations>>

(* Postings and reversals change the year's totals until its periods are    *)
(* closed.                                                                  *)
PostCost ==
    /\ ~yearClosed /\ closer = NoSession
    /\ \E v \in Version \ {ledger} : ledger' = v
    /\ Count
    /\ UNCHANGED <<backend, db, store, rowLock, cache, chainLock, pc, todo,
                   approving, closer, yearClosed, raced, settled>>

\* Another session is in the middle of changing the rows of n, or has changed
\* them since s loaded them.
Overlaps(s, n) ==
    \E p \in Family(n) :
        \/ cache[s][p] \notin {NotLoaded, Visible(s, p)}
        \/ \E t \in Session \ {s} : rowLock[p] = t \/ \E c \in todo[t] : c[1] = p

\* What a flush will set: the columns of the rows' new values that differ
\* from the identity map's, and those that are written in any case.
Changes(s, new, always) ==
    {c \in {<<p, k, new[p][k]>> : p \in DOMAIN new, k \in Column} :
        c[3] # Loaded(s, c[1])[c[2]] \/ c[2] \in always}

\* Attributes of loaded objects are set and the session flushes.
Flush(s, new, always) ==
    /\ todo' = [todo EXCEPT ![s] = Changes(s, new, always)]
    /\ pc' = [pc EXCEPT ![s] = IF Changes(s, new, always) = {} THEN @ ELSE "dml"]
    /\ cache' = [cache EXCEPT ![s] = [p \in Pool |-> IF p \in DOMAIN new THEN new[p]
                                                                     ELSE cache[s][p]]]

(* derive_pool_base: the status of the row is not looked at. *)
DerivePoolBase(s, p) ==
    /\ Ready(s)
    /\ Count
    /\ \E rates \in [Upstream(Name[p]) ->
                        UNION {RatesInForce(s, n) : n \in Upstream(Name[p])}] :
        /\ \A n \in Upstream(Name[p]) : rates[n] \in RatesInForce(s, n)
        /\ Flush(s, [q \in {p} |-> [Loaded(s, p) EXCEPT
                        !.base = [labor |-> ledger, rates |-> rates]]], {})
    /\ raced' = raced \union {n \in {Name[p]} \union Upstream(Name[p]) : Overlaps(s, n)}
    /\ UNCHANGED <<backend, ledger, db, store, rowLock, chainLock, approving,
                   closer, yearClosed, settled>>

\* Mutant: a run is stamped, but an approved row keeps its rate.
CalculatedRowKept(row) ==
    LET rate == Rate(ledger, row.base)
    IN  [row EXCEPT !.rate = IF row.status = "approved" THEN @ ELSE rate, !.run = rate]

\* The numerator and the base in hand give the rate and the stamped run.
CalculatedRow(row) ==
    [row EXCEPT !.rate = Rate(ledger, row.base), !.run = Rate(ledger, row.base)]

(* calculate_pool_rate: refuses a row it takes for LOCKED or without a      *)
(* base.  calculated_at and the stamped run are written in any case.        *)
CalculatePoolRate(s, p) ==
    LET row == Loaded(s, p)
    IN  /\ Ready(s)
        /\ Count
        /\ row.status # "locked"
        /\ row.base # None
        /\ Flush(s, [q \in {p} |-> CalculatedRow(row)], {"run"})
        /\ raced' = raced \union {n \in {Name[p]} : Overlaps(s, n)}
        /\ UNCHANGED <<backend, ledger, db, store, rowLock, chainLock, approving,
                       closer, yearClosed, settled>>

\* Mutant: prior rows are looked for in the identity map.
PriorLoaded(s, p) ==
    {q \in Family(Name[p]) \ {p} : cache[s][q] # NotLoaded /\ cache[s][q].status = "approved"}

\* The rows approve_rate supersedes: SELECT ... status = APPROVED, pool_id != p.
Prior(s, p) == {q \in Family(Name[p]) \ {p} : Visible(s, q).status = "approved"}

\* Mutant: pool_id != p is missing, so an approved row supersedes itself.
ApprovalSelf(s, p) ==
    [q \in Prior(s, p) \union {p} |->
        IF q = p /\ Visible(s, p).status # "approved"
        THEN [Loaded(s, p) EXCEPT !.status = "approved"]
        ELSE [Loaded(s, q) EXCEPT !.status = "superseded"]]

\* What approve_rate assigns.
Approval(s, p) ==
    [q \in Prior(s, p) \union {p} |->
        IF q = p THEN [Loaded(s, p) EXCEPT !.status = "approved"]
        ELSE [Loaded(s, q) EXCEPT !.status = "superseded", !.superseded_by = p]]

HasRate(s, p) == Loaded(s, p).rate # None

(* approve_rate up to its flush: prior approved rows are superseded by this *)
(* one, whatever its own status is.                                         *)
ApproveRate(s, p) ==
    /\ Ready(s)
    /\ Count
    /\ HasRate(s, p)
    /\ Flush(s, Approval(s, p), {})
    /\ approving' = [approving EXCEPT ![s] = @ \union {p}]
    /\ raced' = raced \union {n \in {Name[p]} : Overlaps(s, n)}
    /\ UNCHANGED <<backend, ledger, db, store, rowLock, chainLock, closer, yearClosed, settled>>

(* close_period closes the year's last period: its flush has taken the      *)
(* chain's lock when _lock_fiscal_year_rates selects the approved rows.     *)
LockFiscalYearRates(s) ==
    LET approved == {p \in Pool : Visible(s, p).status = "approved"}
        new == [p \in approved |-> [Loaded(s, p) EXCEPT !.status = "locked"]]
    IN  /\ Ready(s)
        /\ Count
        /\ ~yearClosed /\ closer = NoSession
        /\ closer' = s
        /\ chainLock \in {NoSession, s}
        /\ chainLock' = s
        /\ todo' = [todo EXCEPT ![s] = Changes(s, new, {})]
        /\ pc' = [pc EXCEPT ![s] = IF Changes(s, new, {}) = {} THEN "open" ELSE "dml"]
        /\ cache' = [cache EXCEPT ![s] = [p \in Pool |-> IF p \in approved THEN new[p]
                                                         ELSE cache[s][p]]]
        /\ raced' = raced \union {n \in {Name[p] : p \in Pool} : Overlaps(s, n)}
        /\ UNCHANGED <<backend, ledger, db, store, rowLock, approving, yearClosed, settled>>

\* Mutant: the trigger compares the base only.
LockedFrozenBase(old, new) == old.status = "locked" => new.base = old.base

\* The trigger trg_indirect_pools_locked_frozen: the rate and the base of a
\* row that is locked cannot be set to something else.
LockedFrozen(old, new) ==
    old.status = "locked" => new.rate = old.rate /\ new.base = old.base

(* One UPDATE of the flush, by primary key; the last one is followed by the *)
(* audit listener.                                                          *)
Statement(s) ==
    /\ pc[s] = "dml"
    /\ \E p \in {c[1] : c \in todo[s]} :
        LET mine == {c \in todo[s] : c[1] = p}
            new == [k \in Column |-> IF \E c \in mine : c[2] = k
                                     THEN (CHOOSE c \in mine : c[2] = k)[3]
                                     ELSE store[p][k]]
        IN  /\ \A c \in todo[s] : p <= c[1]
            /\ rowLock[p] \in {NoSession, s}
            /\ LockedFrozen(store[p], new)
            /\ rowLock' = [rowLock EXCEPT ![p] = s]
            /\ store' = [store EXCEPT ![p] = new]
            /\ todo' = [todo EXCEPT ![s] = @ \ mine]
            /\ pc' = [pc EXCEPT ![s] = IF todo[s] = mine THEN "chain" ELSE "dml"]
    /\ IF backend = "sqlite" THEN chainLock \in {NoSession, s} /\ chainLock' = s
                             ELSE UNCHANGED chainLock
    /\ UNCHANGED <<backend, ledger, db, cache, approving, closer, yearClosed, raced,
                   settled, operations>>

(* The flush's audit listener gets the chain's lock. *)
TakeChain(s) ==
    /\ pc[s] = "chain"
    /\ chainLock \in {NoSession, s}
    /\ chainLock' = s
    /\ pc' = [pc EXCEPT ![s] = "open"]
    /\ UNCHANGED <<backend, ledger, db, store, rowLock, cache, todo, approving,
                   closer, yearClosed, raced, settled, operations>>

Release(s) ==
    /\ rowLock' = [p \in Pool |-> IF rowLock[p] = s THEN NoSession ELSE rowLock[p]]
    /\ chainLock' = IF chainLock = s THEN NoSession ELSE chainLock
    /\ pc' = [pc EXCEPT ![s] = "idle"]
    /\ todo' = [todo EXCEPT ![s] = {}]
    /\ approving' = [approving EXCEPT ![s] = {}]
    /\ closer' = IF closer = s THEN NoSession ELSE closer

Commit(s) ==
    /\ pc[s] = "open"
    /\ db' = [p \in Pool |-> Visible(s, p)]
    /\ settled' = [p \in Pool |-> IF s = closer /\ db'[p].status = "locked"
                                  THEN db'[p].rate ELSE settled[p]]
    /\ yearClosed' = (yearClosed \/ s = closer)
    /\ Release(s)
    /\ UNCHANGED <<backend, ledger, store, cache, raced, operations>>

(* An error, a refused UPDATE, a deadlock victim, a lost connection, or the *)
(* caller's choice.                                                         *)
Rollback(s) ==
    /\ pc[s] # "idle"
    /\ store' = [p \in Pool |-> IF rowLock[p] = s THEN db[p] ELSE store[p]]
    /\ cache' = [cache EXCEPT ![s] = [p \in Pool |-> NotLoaded]]
    /\ Release(s)
    /\ UNCHANGED <<backend, ledger, db, yearClosed, raced, settled, operations>>

Next ==
    \/ PostCost
    \/ \E s \in Session :
        \/ \E p \in Pool : Load(s, p)
        \/ EndSession(s)
        \/ \E p \in Pool : DerivePoolBase(s, p)
        \/ \E p \in Pool : CalculatePoolRate(s, p)
        \/ \E p \in Pool : ApproveRate(s, p)
        \/ LockFiscalYearRates(s)
        \/ Statement(s)
        \/ TakeChain(s)
        \/ Commit(s)
        \/ Rollback(s)

Spec == Init /\ [][Next]_vars

-----------------------------------------------------------------------------
(* Properties *)

Status == {"pending", "approved", "superseded", "locked"}

ColumnOf(p, k) ==
    CASE k = "status" -> Status
      [] k = "base" -> {None} \union BaseOf(Name[p])
      [] k \in {"rate", "run"} -> {None} \union RateOf(Name[p])
      [] k = "superseded_by" -> Pool \union {NoPool}

RowOK(p, row) == DOMAIN row = Column /\ \A k \in Column : row[k] \in ColumnOf(p, k)
ChangeOK(c) == /\ c = <<c[1], c[2], c[3]>>
               /\ c[1] \in Pool /\ c[2] \in Column /\ c[3] \in ColumnOf(c[1], c[2])

\* Rates are made of rates: whatever copies a session works with, a base is
\* derived from the rates of all pools upstream, and never from a revision that
\* has no rate or from another pool's rate.
TypeOK ==
    /\ backend \in {"sqlite", "postgresql"}
    /\ ledger \in Version
    /\ DOMAIN db = Pool /\ DOMAIN store = Pool
    /\ \A p \in Pool : RowOK(p, db[p]) /\ RowOK(p, store[p])
    /\ rowLock \in [Pool -> Session \union {NoSession}]
    /\ DOMAIN cache = Session
    /\ \A s \in Session : /\ DOMAIN cache[s] = Pool
                          /\ \A p \in Pool : cache[s][p] # NotLoaded => RowOK(p, cache[s][p])
    /\ chainLock \in Session \union {NoSession}
    /\ pc \in [Session -> {"idle", "open", "dml", "chain"}]
    /\ DOMAIN todo = Session
    /\ \A s \in Session : \A c \in todo[s] : ChangeOK(c)
    /\ approving \in [Session -> SUBSET Pool]
    /\ closer \in Session \union {NoSession}
    /\ yearClosed \in BOOLEAN

Names == {Name[p] : p \in Pool}
With(n, status) == {p \in Family(n) : db[p].status = status}

\* "any prior approved row for the same pool/fiscal-year/rate-type is
\* superseded": at most one revision is approved, and at most one locked,
\* unless sessions worked on the revisions at the same time or on stale copies;
\* and a row in force always has a rate.
OneInForce ==
    /\ \A p \in Pool : InForce(db[p]) => db[p].rate # None
    /\ \A n \in Names \ raced :
          /\ Cardinality(With(n, "approved")) <= 1
          /\ Cardinality(With(n, "locked")) <= 1

\* Superseding and locking never leave a pool without a rate in force (again
\* unless sessions raced: then an approval can supersede the other revision
\* and take no effect itself).
InForceStays ==
    [][\A n \in Names \ raced' :
          (\E p \in Family(n) : InForce(db[p])) => \E p \in Family(n) : InForce(db'[p])]_vars

\* Whatever stale copies sessions work with, a locked row's rate is changed
\* only by a transaction that first approved it, or approved another revision
\* and so superseded it (as a SELECT before the close let it).
LockedRateStays ==
    [][\A p \in Pool : db[p].status = "locked" /\ db'[p].rate # db[p].rate
          => \E s \in Session : approving[s] \intersect Family(Name[p]) # {}]_vars

\* "stamps one row with the exact inputs used": the latest run of a pool
\* reproduces the rate the row shows, unless sessions raced.
RunExplainsRate == \A p \in Pool : Name[p] \notin raced => db[p].rate = db[p].run

\* "prefer the LOCKED row (the settled, period-closed rate)": a base derived
\* after the close uses the locked upstream rate, whatever revision has been
\* approved since (unless it was derived while the rate was in another
\* session's hands).
SettledRateUsed ==
    [][\A p \in Pool : db'[p].base # db[p].base /\ ({Name[p]} \union Upstream(Name[p])) \intersect raced' = {} =>
          \A n \in Upstream(Name[p]), q \in Pool :
              q \in With(n, "locked") /\ (\A s \in Session : q \notin approving[s])
                => db'[p].base.rates[n] = db[q].rate]_vars

\* "approved rates for it are locked - no retroactive recalculation, ever":
\* the rate a row had when the close locked it is the rate it keeps.
SettledRateStays == \A p \in Pool : settled[p] # None => db[p].rate = settled[p]
=============================================================================
