# Verification of the govcon compliance engine

TLA+ models of `src/govcon`, the TLC runs that check them and the TLAPS proofs
about them. The engine is a Python library over SQLAlchemy (SQLite or
PostgreSQL) with a web API, a command line and an AI front end. It keeps a
government contractor's ledgers, indirect rates, periods, claims and audit
correspondence, and promises that its records are complete, ordered, immutable
where the regulations want them to be, and reproducible. Paths in this file and
in the modules are relative to the repository root unless they start with `db/`,
`services/`, `models/`, `api/` or `ai/`, which are under `src/govcon/`.

## 1. Inventory

Every service function works in a caller's ORM `Session`, flushes, and leaves
commit or rollback to the caller. Components therefore interact through

* the **database** rows they share (periods gate postings, closes lock rates,
  rates feed schedules, thresholds feed claims);
* the **session events**: `before_flush` runs `db/guards.py` and `after_flush`
  runs `db/audit.py` for every write of every component;
* **identity maps**: the factory sets `expire_on_commit=False`, so an object
  once loaded keeps its attribute values across commits and across queries, and
  a check made on an object may be a check of the past;
* the **triggers** of the Alembic migrations, the last line behind every guard.

| Component | State | Operations | Hard behaviour | What makes it correct |
|---|---|---|---|---|
| Audit trail (`db/audit.py`) | `audit_trail`: number, change, user, previous and own hash | listener `write_audit_rows`, `verify_audit_chain` | many sessions, one chain; several flushes per transaction; rollback after writing; two databases with different locks and numbering | the chain never forks, gaps or breaks; every committed change has its row, in order; tampering is found where it happened |
| Engine, sessions (`db/engine.py`) | connections, identity maps | connect, `sessionmaker` | stale objects, statement-level snapshots | the ground of all the modules here |
| Guards, triggers, migrations (`db/guards.py`, `alembic/versions`, `alembic/env.py`) | the schema: revision, tables, triggers | refuse writes; upgrade, downgrade | the guard asks the identity map; a trigger checks at statement time, not at commit; SQLite commits a migration's DDL statement by statement | closed periods, append-only ledgers and frozen columns stay as they are; every guard has its trigger at every revision |
| Period close (`services/period_close.py`) | `periods.status`, `reconciliation_status`, `closed_by` | `close_period`, `three_way_reconciliation`, `fiscal_year_fully_closed`, `_lock_fiscal_year_rates` | three SELECTs against concurrent postings; two closers; the last two periods of a year at once; failure flushed before it is raised | a closed period ties and stays tied; closed once; a closed year's approved rates are locked |
| Rate engine (`services/rates.py`, `exclusions.py`) | `indirect_pools` (status, balance, base, rate, successor), `rate_calculation_runs`, `rate_true_ups` | `derive_pool_base`, `calculate_pool_rate`, `approve_rate`, `burdened_cost`, `reconstruct_run`, `true_up` | sibling rows approved concurrently; cached status and base; approving a locked row | one rate in force per pool, year and type; a locked rate stays; a run reproduces its number |
| ICE schedules (`services/ice_schedules.py`) | `ice_schedules` | `generate_schedule`, certify | needs every period of the year closed and rates in force | schedules of a year read settled data |
| Audit response (`services/audit_response.py`) | notification status, sign-off, alert log, tasks | create, `fire_due_alerts`, `acknowledge_alert`, `add_task`, `complete_task`, `sweep_overdue_tasks`, `record_management_review`, `advance_status` | checks on cached status; alerts read, then inserted; the sweep against a completion | forward only; submitted only after a sign-off; each alert point once; a completed task stays completed |
| TINA sweep (`services/tina_sweep.py`) | baseline sweep and certification status, assumptions, findings | `run_sweep`, `sweep_delta_report`, `generate_certification` | two sweeps at once; assumptions and postings after the sweep | findings written once and complete; nothing certified that was not swept |
| Regulation watch (`services/regulation_watch.py`) | suggestions (unique per source, document, rule) | `watch_targets`, `scan`, `review_suggestion` | concurrent or retried scans; a source that fails half way; malformed documents | each document suggested once; a bad one never loses the good ones; review is final |
| Contract versions, practices (`services/versioning.py`, `cas_consistency.py`) | version rows with `superseded_by`, change events | `supersede_contract`, `record_practice_change`, `resolve_change_event`, checks | superseding a superseded row; two sessions on one row; two flushes per change | one current row per lineage; every change has its event |
| Corrections, travel (`services/corrections.py`, `travel.py`) | append-only ledger rows | `post_correction`, per diem splits | repetition; correction of a correction | a correction nets to the intended amount once |
| Executive compensation (`services/compensation.py`) | ledger rows | `reclassify_excess` | two sessions; repeated application | never more than the excess is reclassified |
| REA and CDA claims (`services/rea_cda.py`) | action, line items, certification, dates | `add_line_item`, `recompute_totals`, `certification_test`, `record_co_receipt` | items added after the test; totals from copies of two sessions | totals are the sums of the items; test and dates fit them |
| CAS and TINA applicability (`services/cas_tina.py`), decision engine (`decision_engine.py`, `rule_authoring.py`), thresholds (`thresholds.py`) | rule tables, dated thresholds | evaluate, draft and publish a rule, look up by date | overlapping rules, boundaries of dates and amounts | the table agrees with the legacy oracle; one threshold in force on each day |
| Allowability, SF 1408, PBR monitoring, contract statements, Eichleay (`services/`) | one row each, or none | evaluate at posting, check, monitor, calculate, verify | each reads the books in its own way; vouchers arrive between two reads | reports agree with each other, with the vector of each entry, and with a claim's row |
| Variances, pricing analysis (`services/`) | none | calculate | two rounding modes, lines and totals | totals are the sums of their lines |
| Re-verification, rule authoring (`services/`) | none | list, validate a draft | what is checked is not what is evaluated | a valid draft evaluates; what is unsettled is listed |
| HTTP API, hardening, identity (`api/`) | rate-limit windows with an LRU cap, factory cache per workspace, signing configuration | `allow`, middleware, routes | a clock read before the lock, eviction, a workspace cached while it is created | at most `limit` hits in a window; nobody admitted without a good token |
| Workspaces (`workspaces.py`) | one database file per workspace | `create`, `list`, `exists` | two creations at once; a failed migration removes the file | a workspace that exists is migrated |
| AI loop (`ai/`) | conversation, cost log, grounding ledger | `iter_conversation`, `dispatch`, gate, verifier, event stream | turn limit, cost ceiling, tool errors, readers that leave | no figure far from what a tool returned; bounded spending; every request ends |
| Command line, education, seeds | static | print | none | none |

The hazards of all of these, each with its line, are in `PROJECT.json`.

## 2. Plan

The order is by how much of the rest depends on a component and by how hard it
is to test. The number of runs is kept small, so that all of them can be repeated on
every change: components that share no state share a run, in an MC module whose
variable `focus` says which of them a behaviour is about.

| Step | Modules | Abstract specification or reference | Properties |
|---|---|---|---|
| 1, done | `AuditChain`, `AuditTamper`, `AppendOnlyLog` | append-only log | chain verifies, replay, deadlock, progress, tampering located |
| 2, done | `PeriodClose` | | tied, frozen, on record, rates lock |
| 3, done | `RatePools` | | one rate in force, locked rates stay, runs reproduce, settled rates are used |
| 4, done | `UnitOfWork` with `AuditResponse`, `TinaSweep`, `Lineages`, `Claims`, `LedgerAdjustments`, `RegulationWatch` | | one or two per service, see section 4 |
| 5, done | `Decisions`, `Determinations` | the coded logic before the tables | agreement, valid drafts evaluate, unsettled law is said |
| 6, done | `Rounding`, `Figures`, `YearEnd`, put together by `Reporting` | exact fractions; one report against another | figures foot, books tie, reports agree, claims stand |
| 7, done | `Server`, `Workspaces`, `Assistant`, put together by `Application` | | limit, admission, whole workspaces, grounded and bounded replies, progress |
| 8, done | `Migrations` | a database built afresh | triggers stand at every revision and in between |
| 9, done | `AuditProofs`, `PeriodCloseProofs`, `RatePoolsProofs` | | everything the runs of steps 1 to 3 check but liveness, see section 5 |
| 10, done | `ServicesProofs`, `Sums`, `TotalsProofs` | | what the services of step 4 promise, see section 5 |
| 11, done | `ApplicationProofs` | | what step 7 promises, but for progress, see section 5 |
| 12, done | `ReportingProofs` | | what step 6 promises, see section 5 |

## 3. Modules

The modules of steps 1 to 3 carry their own sessions, statement by statement, because
their properties are about what happens between statements. The services of step 4
stand on `UnitOfWork`, which takes what `AuditChain` shows of a flush from outside as
one step. `Services` puts them together: its variable `focus` says which of them a
behaviour is about. Steps 5 to 8 have no sessions.

### AuditChain: the hash chain under concurrent sessions

State. `db` is the committed audited rows, `store` what they will be if the
session that locked them commits, `rowLock` that session; `cache` the identity
maps; `trail` the committed audit rows and `staged` those of running
transactions; `chainLock` the advisory lock of PostgreSQL or the write lock of
SQLite; `nextval` PostgreSQL's sequence. `todo`, `unlogged`, `last` and `phase`
are the locals of a running flush: UPDATEs still to run, changes still to be
logged, `prev`, and the place in the code. `backend` is chosen initially and
never changes, so each run covers both databases.

| Action | Code |
|---|---|
| `Load`, `Close` | a query that adds to the identity map; the session is closed |
| `Flush` | attributes are set and the flush starts: `_collect_changes` reads old values from the attribute history (the cached ones) |
| `Statement` | one `UPDATE ... WHERE pk`, in key order, setting changed columns only |
| `LockChain` | `pg_advisory_xact_lock` (`db/audit.py:123`) |
| `ReadLast` | the SELECT of the last `entry_hash`, or the genesis hash |
| `AppendRow` | one iteration of the listener's loop, including the number the database gives the row |
| `Commit`, `Rollback` | the end of the transaction, locks released; a rollback expires the identity map, a commit does not |

What is abstract. Hashes are the payload tuples themselves, so digests are equal
exactly when payloads are. Timestamps, table names and JSON formatting are left
out: no property depends on them. Inserts and deletes of audited rows go through
the same listener and are not told apart from updates. A lost connection, a lock
timeout, a refused trigger and an exception in the caller are all `Rollback`,
possible at every point of a transaction.

`AppendOnlyLog` is what a reader of the trail may assume: batches of one session
appear at the end. `AuditTamper` adds one out-of-band edit (rewrite a row, rewrite
it with a recomputed hash, remove a row) at any moment. Two edits are left out
because the code cannot see them and says nothing else: removing rows from the end
of the trail, and rewriting the last row with a recomputed hash.

### PeriodClose: closing periods next to postings and approvals

State. `ledger` holds committed totals of the three books per period and
contract, `posted` those of running transactions; `db`, `store`, `rowLock` and
`cache` the rows of `periods` and `indirect_pools`, as above; `chainLock` as
above; `pc` and `job` a session's place in `close_period` and its locals;
`raced` and `stale` are history: the periods where a posting's transaction overlapped a
close's, and those marked failed from a copy that the row had left behind.

| Action | Code |
|---|---|
| `PostEntry` | a GL or JCL insert: guard on the cached period, trigger on the visible one |
| `PostVoucher` | a voucher insert, which nothing gates |
| `StartClose`, `ReadTotals` | the already-closed check on the cached object and the three SELECTs |
| `ClosePassed`, `CloseFailed` | the flush of the verdict |
| `TakeChain` | the audit listener of a flush (module `AuditChain` has its details) |
| `CountOpen`, `LockRates` | `fiscal_year_fully_closed`, `_lock_fiscal_year_rates` |
| `ApproveRate` | `rates.approve_rate` on a pool without siblings |
| `Commit`, `Rollback` | the caller's choice; after `PeriodCloseError` either |

The tolerance is zero, its default. The triggers of migration 0006 (a close needs a
passed reconciliation, no reopening) repeat what `close_period` writes and never
fire for it, so they are no guards here. Corrections and travel splits are
postings. All periods belong to one fiscal year, the scope of the rate lock.

### RatePools: the life of the indirect rates

State. Rows of `indirect_pools` of one fiscal year and rate type, by `pool_id`; rows
of the same pool name are revisions of one rate. `db`, `store`, `rowLock`, `cache` and
`chainLock` are as above, `todo` the column changes a running flush has still to
write. `ledger` names the state of the books: a base is the record of the ledger
version and the upstream rates it was derived from, a rate that of the version and
the base, so two rates are equal exactly when they were computed from the same inputs.
The `run` field of a row is the result its latest `rate_calculation_runs` row
stamps. History: `raced` holds the pool names whose rows two sessions worked on at
once or from stale copies, `approving` the rows a running transaction approved,
`settled` the rate a row had when the close of the year locked it.

| Action | Code |
|---|---|
| `Load`, `EndSession` | a query that adds to the identity map; the session is closed |
| `PostCost` | postings and reversals, until the year is closed |
| `DerivePoolBase` | `derive_pool_base` with `_approved_rate` for its upstream pools |
| `CalculatePoolRate` | `calculate_pool_rate` with its refusals and its stamped run |
| `ApproveRate` | `approve_rate`: prior approved rows are superseded, the row is approved |
| `LockFiscalYearRates` | the end of `close_period` for the year's last period |
| `Statement`, `TakeChain` | one UPDATE with the frozen-rate trigger; the audit listener |
| `Commit`, `Rollback` | the end of the transaction; the caller's choice, a refusal, a lost connection |

What is abstract. Which of several approved revisions was calculated last is not kept:
`_approved_rate` may then take any of them. Amounts, the exclusion tests and the
allocation of costs to pools are inside a ledger version (`YearEnd` has them).
`burdened_cost` and `true_up` compute one new row from rates in hand and are in
`Figures`; `reconstruct_run` evaluates the same formulas again.
The runs start with fringe rows that were derived and calculated, each on some version
of the ledger, and with the other rows still to be derived: states one session can
reach by itself, and the point from which sessions can disagree.
`Load` happens between transactions only: an open transaction holds the chain's
lock, so nobody else commits and a load at its next call would return the same.

### UnitOfWork and the services on it

State. `db` the committed rows by key, `work` the same as the holder of the chain's
lock has written them, `writer` that session, `cache` the identity maps, `call` the
service call a session is inside of, with its locals, `calls` the bound, `history`
where sessions got in each other's way. `Sees` is what a SELECT returns, `Copy` what
an attribute of a loaded object says, `Flush` sets columns that differ from the copy,
`Write` inserts or replaces, and
`Only` names the one row a flush is about. `Services` instantiates every module below
on one set of variables and states their promises; `MCServices` gives it values.

A flush is one step, taken when the lock is free: what it writes depends on nothing
read while it waits, `AuditChain` shows that a lock cycle needs a second flush on
PostgreSQL, and a transaction rolled back for a deadlock is `Rollback` here. SELECTs
before the first flush see what is committed at that moment; calls are split wherever
two reads, or a read and a write that depends on it, are apart in the code.

| Module | Rows | Calls that are split | `history` excuses |
|---|---|---|---|
| `AuditResponse` | notification, alerts, tasks | `fire_due_alerts` (`ReadAlerts`, `InsertAlerts`), `sweep_overdue_tasks` (`ReadOverdue`, `MarkOverdue`) | two sessions firing; a task completed during a sweep; a stale notification |
| `TinaSweep` | baseline, assumptions, postings, findings | `run_sweep`, assumption by assumption | two sweeps at once; entries after a sweep |
| `Lineages` | the rows of one lineage, change events | both inserts of a supersession, then the pointer | superseding a superseded row |
| `Claims` | action, line items | `add_line_item` and its `recompute_totals` | stale copies; items after a test or receipt |
| `LedgerAdjustments` | the ledger as a sequence | every posting of a correction, split or reclassification | overlapping reclassifications; adjusting a row twice; pay that was reduced |
| `RegulationWatch` | suggestions | `scan`, document by document | what a clash took back of a scan's own (`lost`, in the call) |

`Lineages` models contracts and disclosed practices in one module, because the two
services are the same two flushes; `history.table` says which, and only practices have
change events. In `RegulationWatch` a search that fails leaves its rule out, and a
scan goes through *places*, the n-th document on a rule, in order, so that a document
offered twice is met twice; a malformed one is skipped. A document that another session recorded in the meantime
takes the transaction with it: `begin_nested` flushes the pending row before it sets the
savepoint. The scan counts the document as known and goes on, in a session that refuses
the next new document; when there is none it returns its result (`ReturnPoisoned`), and
the caller can only roll back.

### Decisions and Determinations

`Thresholds` has the dated rows (half-open windows, one row or an error), `Decisions` the
grammar of conditions, `evaluate_table` with eager and lazy threshold resolution, the two
seeded tables, and the determinations built on them. `Determinations` makes each
question an initial state and each service call a step, and states next to it the coded
logic that the tables replaced, which the repository's tests keep as an oracle. Rule
authoring and re-verification are here too. Amounts are in thousands of dollars and
dates are numbers written yyyymmdd; the contract, action and draft sets are in `MCEdges`.

### Rounding, Figures and YearEnd

`Rounding` has the two rounding modes of the code on integer fractions: half away from
zero (`quantize_money`) and half to even (the decimal context). Amounts that callers give
as decimals are in tenths of a cent, amounts from columns in cents. `Figures` is the
arithmetic of pricing analysis, variances, burdened costs and true-ups, each figure asked for once. `YearEnd` keeps
the four books of a year (`gl`, `jcl`, `vouchers`, `payroll`), the `closed` periods, what
`calculate_eichleay` has read so far (`inquiry`) and the last `document` made of them;
schedules, self-check, statement, monitoring and allowability are operators over the
books. Every call is one transaction without overlap, since overlaps are in
`PeriodClose`; only `calculate_eichleay`, whose three SELECTs are apart, takes three steps.
`Reporting` puts the two side by side, with the assumptions the code justifies on accounts,
pools and postings, and states their properties. An Eichleay row keeps all its inputs, so a
claim recomputes although vouchers were posted while it was being calculated.

### Server, Workspaces and Assistant

`Server` starts with an identity configuration or refuses to, admits requests, and
lets threads through the limiter: the clock is read in `Receive`, the decision falls in
`allow`, under the lock. `Workspaces` follows one database file per name through
creation calls that may overlap or die, and the cache of session factories that
requests go through. `Assistant` is one AI request: the gate, the turns of the model and
their costs, the tools with what their exceptions come to, the grounding ledger, and
the two ways a reply is served. Prose and payloads are the amounts and citations they
hold: amounts as magnitudes in tenths of a cent, citations as sequences of pieces. A payload
counts every number in it, also those within its texts and citations, as `absorb` does; prose
has those that look like money, and apart the ones spelled out. `verify` compares as the code
does: two amounts match when they round to the same cent or the same dollar (`Forms`), two
citations when one is a part of the other.

`Application` puts the three together, with their bounds and limits as constants, and
states their properties. A variable `focus`, declared in `Focus`, says which of the parts a
behaviour is about; `Application` and `Reporting` share it, and `MCEdges` extends both with
determinations and migrations and gives the constants their values.

### Migrations: the triggers and what builds them

State. `stored` is the committed schema (revision, tables, leftover copies, triggers,
and which tables hold rows that cite another table), `work` what the migrating
connection sees, `command` the revision asked for, `steps` the statements left of the
migration under way, `began` whether a transaction is open; `halted` is history.
`M0001` to `M0017` are the statements of each file, upgrade and downgrade, for either
database; the empty first revision `0000` is the same as none.

| Action | Code |
|---|---|
| `StartCommand` | `alembic upgrade` or `downgrade`, on the connection of `alembic/env.py` with foreign keys on |
| `Migrate` | the next statement, or the stamp of the revision after the last one |
| `Fail`, `Die` | the database refuses a statement; the process is killed. What is not committed is rolled back |
| `AwardContract`, `PostTransaction` | the application inserts a row that cites a threshold or an account |

PostgreSQL runs a command in one transaction. With SQLite the driver opens a
transaction only before a statement that writes rows, so DDL before the first of them is
committed at once, and the rest with the stamp. A statement is refused when its table
or trigger exists already, when a copy of an earlier attempt is in the way, when a table
is dropped under rows that cite it, and when a rebuilt table is renamed into a name a
trigger's condition reads. Columns are left out but where a trigger compares them.

## 4. Runs

Sessions are interchangeable and declared symmetric in the runs without liveness. All
runs finish exhaustively.

| Run | Question | Bounds |
|---|---|---|
| `chain` | Does the chain stay whole, replay to the data and grow at its end? | 2 sessions, 2 rows of 2 columns, 2 values, 3 audit rows |
| `tamper` | Is an edit reported at its row, for ever? Does every writing transaction end? | 2 sessions, 2 rows, 1 column, 3 audit rows |
| `close` | Does a closed period tie and stay as it is, do rates lock when two sessions close the last two periods, does a session alone close only what ties? | `race`: 2 sessions, 1 period, 1 contract, 3 entries; `year`: 2 sessions, 2 periods, 1 pool; `alone`: 1 session, 2 contracts, 4 entries of plus or minus 1 |
| `rates` | Is one rate in force, is it explained by its run, and is a locked one kept and used? | 2 sessions, 2 fringe rows and 1 overhead row, 2 ledger versions, 4 operations |
| `services` | Does each service on `UnitOfWork` keep its promise with two sessions at work? | 2 sessions, 3 to 5 service calls, the rows below |
| `edges` | Do determinations, figures, reports and the application in front of them? | the sets below |
| `post_after_close` | Is a closed ledger frozen on PostgreSQL? No. | 2 sessions, 2 entries |
| `close_raced` | Does what closes tie? Not if a posting races. | 2 sessions, 2 entries |
| `rate_recalculated` | Does a settled rate stay? No. | 1 session, 1 row, 4 operations |
| `under_reclassified` | Does a repeated reclassification move what is left? No. | as `services` |
| `scan_poisoned` | Is what a scan that returned found there? Not after a clash at its last new document. | as `services` |
| `backstop_lost` | Is there a trigger behind every guard whenever no migration runs? No. | as `edges`, nobody is killed |

Why the bounds are enough to meet the hard cases. Two sessions are a fork, a race
or a deadlock already: a deadlock cycle of the chain lock and a row lock has two
members. Three audit rows are a first row on the genesis hash, a flush with two
rows, and another session's row before, between or after them. Two columns are
what a stale full-row UPDATE needs to lose a change. Three ledger entries are a
tied pair and one that unties it, four with both signs an imbalance that nets to
zero over two contracts. Two periods are the smallest year in which closers
of different periods can both miss the lock. Two revisions of one rate and a pool
above them are what an approval, a supersession and a chained base need; four
operations are an approval, the lock, a second approval and the calculation or
derivation that comes after, or two sessions that load and approve a row each.

In `services`, an alert point that fits the window with dates on both sides of it, and
one task; two assumptions, one posting that matches both and one above the baseline
value; four versions, which is a supersession of a superseded row and two more; amounts
of both signs with one above each threshold; a payment below the cap, one above it and
one that is taken back; two
watched rules, one with a malformed document between two good ones. Three to five calls
are a read, another session's write and the call that acts on the read, twice where a
retry matters.

In `edges`, award and action dates on either side of every change of the law, values on
either side of every threshold, priors that do and do not count; drafts of two levels
with an unknown operator, a missing or malformed operand, an empty group, and literals that
are null or a text, over inputs and thresholds that are numbers, null or a text; amounts to
the tenth of a cent, rates and hours whose products fall on, below and above half a cent, of
both signs, and elements of half a cent each; two contracts, two periods, three rows among four
books, reversals and a credit among them, an account of each type and a pool with a
revision; zero to three hours or pieces, with which a standard cost and an actual one can
round to different cents although their variance is none; three turns of two tool uses
with a ceiling above one call and below three dear ones, payloads with a citation whose
numbers count as amounts, and prose that is right, off by less than a dollar, off by more,
longer than the citation it extends, or beyond the largest amount compared; two threads and a limiter that
remembers one address; two callers and two workspace names with room for one factory;
databases before the first migration and before the first one that rebuilds a table,
taken up and down between nothing, the revision after that rebuild and the head, with
and without rows that cite a rebuilt table, and at most one killed process.

`MaxRows` caps the audit rows ever numbered (and in `YearEnd` the rows posted),
`MaxEntries` the ledger rows ever inserted, `MaxOperations` and `MaxCalls` the service
calls; statements, commits and rollbacks are not counted. `Numbered` and `Promised`
only serve the first bound. `MaxVersions`, `MaxClock`, `MaxGrants` and `MaxUses` cap rows
of a lineage, the clock, admissions and tool uses.

Deadlock checking is on where a session that waits can always be rolled back, so a
state without successor would be a modelling error; lock cycles are found by
`DeadlockNeedsSecondFlush` instead. It is off in `services` and `edges`, whose
behaviours end when the calls are used up or the question is answered.

### What the runs show

* The chain is sound on both databases (`ChainVerifies`, `AppendsOnly`), and every
  change is logged exactly once in the order of its effect, column by column, even
  for sessions whose copies are stale (`TrailReplaysData`).
* The advisory lock is taken after the UPDATEs and held to the commit. One flush per
  transaction can therefore not deadlock; two can, on PostgreSQL only
  (`DeadlockNeedsSecondFlush`).
* The same lock closes a write skew it was not made for: the count of open
  periods in `close_period` runs after its flush, hence under the lock, so of two
  concurrent closers the later one sees the other's close. With the lock dropped
  the rates of the year stay unlocked (`YearRatesLockOnClose` and its mutant). An
  exception is stated inside: a transaction that approves a rate after locking it
  leaves it approved, because `approve_rate` has no check of the pool's status.
* A posting can slip into a closed period on PostgreSQL (`post_after_close`), or untie
  one that is being closed on either database (`close_raced`); `FrozenUnlessRaced`,
  `ClosedTiesUnlessRaced` and `CloseTiesAlone` say what does hold.
* A pool keeps exactly one rate in force as long as its revisions are not worked on
  by two sessions at once (`OneInForce`, `InForceStays`). A session that merely
  calculates from a stale copy is stopped by the trigger (`LockedRateStays`), but a
  settled rate that is approved again can be recalculated (`rate_recalculated`). A base
  derived after the close uses the locked rate (`SettledRateUsed`), and the latest run
  of a pool reproduces its rate (`RunExplainsRate`).
* The services that check and then write keep their promises to a session that works
  alone, and to two that do not overlap. What overlap breaks is named in the property and
  only that: an alert that fires twice, a task shown overdue after its completion, a
  baseline swept twice, a branched lineage, a test that no longer fits its claim.
* Totals of a claim are right whatever the copies say, because `recompute_totals` sums
  the rows and not the attributes (`ClaimFitsItems`, with the mutant that carries them on).
* A reclassification never moves too much (`AdjustmentsStand`), but a second one moves
  too little (`under_reclassified`).
* The tables give what the coded logic gave on both sides of every boundary, reasons and
  caveats included (`TablesMatchLegacy`).
* A profit and a cost of money are the sums of the lines next to them, which are rounded
  first, and a burdened cost is within half a cent of the exact product (`FiguresFoot`). A
  cost realism analysis rounds each figure by itself: its totals foot among themselves, but
  with amounts of fractions of a cent a line can be a cent off, and the lines' adjustments off
  their total by a cent and half a cent for each line. Two elements of half a cent against
  nothing have adjustments of 0 and a total of a cent. The property says how far, and
  that nothing is off where amounts are whole cents. A variance row
  rounds its two amounts and their difference each by itself: a standard cost of 0.6 cents
  against an actual one of 0.3 is recorded as 1 cent, 0 cents and a variance of 0, not
  favorable. The property allows for that cent, and only where all three are rounded.
* Once a year is closed its books tie and the self-check finds nothing in billing, unless a
  voucher came in after its period's close, which nothing gates; in accumulation it can
  find a contract whose direct costs were all taken back, which ties at zero without a
  job cost row (`BooksTieUnlessLate`).
* The rate numerator and the detail of Schedules B and C match pools by name, the
  monitoring of provisional rates by row: they agree for a pool to whose row all accounts of
  its name are assigned (`ReportsAgree`). An Eichleay claim allocates no more than the
  overhead unless a credit was billed, which can make a contract's billings larger than
  the company's (`ClaimsStand`).
* Whichever way up and down a database came to its revision, it has the triggers of one
  built afresh; at the head both databases have the same ones, in two sets of files. A
  migration that stops half way never opens the ledger, the trail or a contract to a
  rewrite (`EnforcementStands`), but on SQLite it can take the gate of direct costs with
  it for good: the rebuild of `gl_accounts` is refused once an entry cites an account,
  and the trigger was dropped before (`backstop_lost`). A new database never meets this,
  since it is empty when it is migrated; one in use since before 0013 does.
* An amount in shipped prose is within a dollar of a number that a tool returned to the same
  request without an error, and a citation is part of a returned one or has one as a part
  (`ShippedIsGrounded`): no more than that, see below. Spending stops one call above the
  ceiling at most, and every admitted request ends with its session closed, also on the turn
  limit or a crash of a tool (`SpendIsBounded`, `RequestsEnd`).
* What a scan found is there when it returns, whichever searches failed (`ScanIsComplete`).
  The exception is a scan that lost its transaction to a document another session
  recorded: it returns all the same, and what it had recorded itself is gone
  (`scan_poisoned`).
* A draft rule reported valid evaluates for all inputs and thresholds, unless an ordered
  comparison in it meets something that is not a number (`ValidDraftEvaluates`).

### Seen while modelling, without a run

Disagreements of the code with its documents, or surprises, that no run is spent on.
All are in the models as the code has them.

* The seeds say the 2026 gap of the compensation cap sits on the re-verification list
  (`seeds/regulatory_thresholds.py:150`); `reverification_items` lists rows without an
  end date, and both rows of the cap have one, so it is on neither the lookup nor the
  list (`services/reverification.py:65`).
* `old_values` of an audit row come from the attribute history and may be stale
  (`db/audit.py:84`); `TrailReplaysData` therefore replays new values.
* `close_period` checks a cached status, so a session that loaded the period before
  another closed it closes it again and replaces `closed_by` (`services/period_close.py:164`).
* The grounding check says that a number "that never came back from a tool is an
  UNGROUNDED CLAIM" (`ai/grounding.py:6`), but compares after rounding to the dollar
  (`ai/grounding.py:128`) and looks for citations in either direction
  (`ai/grounding.py:232`): "$11.60" is grounded by a returned 12.40, "$15.40" by the citation
  FAR 15.403, and "FAR 15.403-4(b)(2)" by "FAR 15.403-4". An amount spelled out above 1e15
  is not looked at. `ShippedIsGrounded` claims what is left. The reply of `draft_rule` shows
  the last validation only, not the other results its prose may quote (`api/app.py:558`).
* `_validate_operand` takes any literal, null included (`services/rule_authoring.py:46`), so
  a draft that compares an input with null by size is valid and raises in the evaluator
  (`services/decision_engine.py:192`); a text compared with a number is a `TypeError`.
* Cost realism takes amounts of any length and rounds findings and totals apart
  (`services/pricing_analysis.py:427`), so the findings need not add up to the adjustment.
* Pricing analysis rounds half to even, all other money half up (`core/decimal_config.py`).
* `_ytd_pool_costs` matches the pool's row (`services/pbr_monitoring.py:52`), rate
  numerators its name and year (`services/exclusions.py:34`), schedule details its name
  only (`services/ice_schedules.py:84`); they agree while accounts point at monitored
  rows of one year. Schedule I burdens labor since inception at this year's rates.
* `rea_cda.certification_test` never takes NOT_REQUIRED back after later items.
* `ai/dispatch.py` announces that any other exception becomes an error result but catches
  `ValueError` and `KeyError` only; the request then ends with a generic error.
* The limiter reads the clock before it takes its lock, so a slow thread may decide under
  an older time; the loser of two workspace creations removes the winner's file; a
  cached factory outlives a removed file and recreates it empty.

### Fairness

`tamper` (`MCAuditChain` states it, `AuditTamper` assumes it next to the edit). Callers finish: the listener's statements run on (weak
fairness of `ReadLast` and `AppendRow`), and a transaction that can commit again and
again does (strong fairness of `Commit`, since a caller may flush several times
before). PostgreSQL serves the waiters of a lock in the order they came, hence
strong fairness of `Statement` and `LockChain`, and aborts a transaction of a
detected deadlock, hence weak fairness of `DeadlockVictim`. SQLite's writers poll: a wait
ends with the lock or with the busy timeout, hence weak fairness of the disjunction.
`Load`, `Flush` and `Rollback` are never forced.

`edges` (`RequestsEnd`). The thread that serves an admitted request goes on with it, and
a model call returns or times out: weak fairness of `Serving`, one thread's steps. A new
request and a reader that goes away are never forced.

## 5. Proofs

Eight modules of proofs, all for any sets of sessions, rows and values, either backend and
any bound. Every theorem follows from an inductive invariant of its module. TLC checked
these invariants on small instances of the runs before they were proved.

| Module | Theorem | What holds in, or between, all reachable states |
|---|---|---|
| `AuditProofs` | `TypeCorrect` | `TypeOK` |
| | `ChainAlwaysVerifies` | `ChainVerifies`: `verify_audit_chain` succeeds for every session |
| | `TrailAppendsOnly` | `AppendsOnly`: the trail implements `AppendOnlyLog` |
| | `TrailAlwaysReplays` | `TrailReplaysData` |
| | `DeadlocksNeedSecondFlush` | `DeadlockNeedsSecondFlush`, for wait cycles of any length |
| | `EditsAreLocated` | `EditLocated`, with any number of transactions after the edit |
| `PeriodCloseProofs` | `ClosedPeriodsTie` | `ClosedTiesUnlessRaced` |
| | `ClosedPeriodsStayFrozen` | `FrozenUnlessRaced` |
| | `ClosedPeriodsShowPassed` | `ClosedShowsPassedUnlessStale` |
| | `LastCloseLocksRates` | the step behind `YearRatesLockOnClose` |
| | `AloneCloseTies`, `AloneClosedShowsPassed` | `CloseTies` and `ClosedShowsPassed`, when there is one session |
| `RatePoolsProofs` | `RateTypes` | `TypeOK`, which no run checks: bases have only upstream rates |
| | `LockedRatesStay` | `LockedRateStays` |
| | `OneRateInForce` | `OneInForce` |
| | `RunsExplainRates` | `RunExplainsRate` |
| | `InForceAlwaysStays` | `InForceStays` |
| | `SettledRatesUsed` | `SettledRateUsed` |
| `ServicesProofs` | `AlertsOnlyFireOnce` | `AlertsFireOnce` |
| | `WorkflowAdvances` | `WorkflowOnlyAdvances` |
| | `SweepsAreAlwaysWhole` | `SweepsAreWhole` |
| | `HistoryIsOne` | `OneHistory`: one chain of versions, each with its event |
| | `VerdictsAlwaysStay` | `VerdictsStay` |
| | `ScansAreComplete` | `ScanIsComplete` |
| `TotalsProofs` | `AdjustmentsAlwaysStand` | `AdjustmentsStand` |
| | `ClaimAlwaysFitsItems` | `ClaimFitsItems` |
| | `CertificateAlwaysHoldsReport` | `CertificateHoldsReport` |
| `ApplicationProofs` | `ProseIsGrounded` | `ShippedIsGrounded` |
| | `SpendIsAlwaysBounded` | `SpendIsBounded` |
| | `LimitAlwaysHolds` | `LimitHolds`, for any number of threads and any limit, window and cap |
| | `AdmittedWasVerified` | `AdmittedIsVerified`, in every environment |
| | `WorkspacesAreWhole` | `WorkspacesStayWhole` |
| `ReportingProofs` | `FiguresAlwaysFoot` | `FiguresFoot`, for all amounts, rates and hours |
| | `BooksAlwaysTie` | `BooksTieUnlessLate`, for books of any size |
| | `ReportsAlwaysAgree` | `ReportsAgree`, for books of any size |
| | `ClaimsAlwaysStand` | `ClaimsStand`, however the readings interleave with postings |

The invariants are `InductiveInvariant`, `ReplayInductive`, `TamperInductive`,
`CloseInductive`, `RatesInductive`, `PlansInductive`, `ServicesInductive`, `TotalsInductive`,
`ApplicationInductive`, and in `ReportingProofs` the lemmas
`FigureInvariant` and `YearInvariant`. The eighth module, `Sums`, has the laws of sums over finite sets that `TotalsProofs` and
`ReportingProofs` use.

### The audit chain

`TypeOK` is not inductive by itself: SQLite numbers a row after the largest one visible,
and a set of rows need not have a largest one. `BaseInv` adds what a session needs to go
on writing, whether the trail verifies or not:

* rows are staged, and a listener is between its SELECT and its last insert, only in the
  session that holds the chain's lock, so only one visible trail can differ from the
  committed one;
* that session's `last` is the hash its next row has to link to;
* every visible trail has the *shape* of a trail: a last row if any, and no number twice;
* on PostgreSQL every number is below the sequence.

`ChainInv` says that all visible trails (`Views`) are *good*: each row links to the one
before it and, on SQLite, no number is missing. `GoodVerifies` reduces the verifier's
answer to goodness. Every action keeps the views, appends one row to one of them, or makes
the holder's view the committed one (`ViewsGrow`), and appending keeps goodness.

The replay. At a commit the data and the trail move together, but in between the UPDATEs
run ahead of their audit rows. `SessionReplay` therefore says that what a session sees is
what its trail replays to, except for columns that the running flush has written and not
yet logged, and `OwnLocks` that whatever it has written is locked, so no other session's
commit can touch it.

Deadlock. Somebody who waits for the chain's lock waits for a session with audit rows,
hence with a completed flush (`HolderInv`), and on SQLite that lock comes before all row
locks. Sessions in their first flush lock rows in key order (`KeyOrder`), so a cycle of
such sessions would have no least row.

Tampering. Until the edit all views are good and have distinct digests. From the edit on,
the edited number is the first thing wrong with every view (`Located`): its row does not
recompute while all before it do, or, on SQLite, it is the one number missing. `BaseInv`
still holds, so sessions go on appending behind the edit, and a row that links to a
broken one does not repair it. That a broken row's successor is noticed although a forged
row recomputes needs the distinct digests.

### The close

`TieInv` is the core: as long as no posting overlapped the close of a period, what the
closing session has read is what it still sees, and a period that is closed, or about to
be by somebody's commit, ties. It needs `GateInv` (postings to a closed period were in
flight on PostgreSQL), `ReadingInv` (who reconciles has a copy that says open) and
`ChainInv` (who updated a period holds the chain's lock or waits for it). For the rates,
`LockingInv` says of a session that sees the whole year closed that each approved rate is
one it approved itself, is on its list to lock, or has still to be counted. That closers of
the last two periods cannot both miss the lock is `ClosingInv`: a session that closed a
period counts the open ones with the chain's lock in hand. `RecordInv` says of each row,
committed or not, what `ClosedShowsPassedUnlessStale` says of committed ones: who flushes
a failed verdict has a copy that says open, so the row is open or the copy stale, and no
trigger stops a closed period from being marked failed. With one session a copy is
always what the statements see (`AloneInv`), which is what `CloseTies` needs.

### The rates

`BaseInv` of `RatePoolsProofs` is what holds whatever stale copies sessions work with: a
rate once set stays set, only the session that closes the year locks rows, and in a
transaction that approved nothing of a pool the trigger has kept its locked rate.

The other four properties are about revisions that nobody raced on. They look at what a
session *plans*: the row it sees with the changes of its running flush laid over it
(`Planned`). A statement of a flush then changes no plan, a call changes the plans of the
rows it names, and a commit makes the plan the data; `PlanInv` states each property of
the plans and of the data at once. `AloneInv` says that a name nobody raced on has one
session at work.

### The services

`ServicesInv` has one part per service, for the behaviours that are about it. A service
reads first and writes later, so each part says which of the things it read are still
true when it writes, and `history` has to excuse the rest.

* `ResponseInv`. The alert points a session is about to insert have not fired, and as
  long as no two sessions fire together nobody else can insert them (`AlertInv`). The
  tasks a sweep has selected are not complete, unless somebody completed one meanwhile
  (`TaskInv`). What a transaction has made of the notification is a step forward from
  the committed one, and a stage beyond the review carries the sign-off (`NoteInv`).
* `TinaInv`. From its first flush on the session that sweeps holds the chain's lock
  (`SweepHolds`), so nothing changes under it. What it has found for the assumptions
  behind it is what it would find now (`SweepFinds`), and with the last assumption that
  is all there is (`SweepLogged`). A second sweep needs a copy older than the first
  (`SweptOnce`). What is logged was found by comparing rows that are there (`SweepTrue`),
  and who certifies has a swept baseline behind its copy (`CertifiesSwept`).
* `VersionInv`. The rows are `Whole`, except between the two flushes of a supersession,
  where they are `Half`: the new row is there, the old one does not point to it yet, and
  without the new row the rest is whole. A rollback then falls back to the committed
  rows, which are always whole. The chain has one end because the row that is superseded
  was the end and is so no more. The pointer is written although a flush writes only
  columns that differ from the copy, because no copy points to a row not yet inserted.
* `WatchInv`. Each document a scan has found is recorded where the session can see it,
  or is still on its list (`Scanning`). What a session sees it goes on seeing, whoever
  commits (`ScansGrow`). When the unique constraint takes a transaction away, what it had
  recorded is noted as lost, and everything else the scan found is committed or still on its
  list, which stays so until it returns (`Poisoned`). A verdict in work is kept as it is in the
  committed rows.

### Sums over rows

Ledger, claim and report promise sums of any number of rows. The models add with the
community modules' `SumFunctionOnSet`, a recursion over a finite set, and a recursion's
value for every set cannot be reached by induction here. `Sums` goes round it:
if a claim about sums failed for some subsets of a finite set, it would fail for one of
least cardinality, and taking one element out of that one contradicts it. This gives the
few laws that everything else uses: a sum is an integer, adding a member adds its value,
disjoint sets add up, equal values give equal sums, signs and negation carry over.

* `LedgerInv`. Both ways of adding up an account agree after every single posting
  (`Balanced`): a reversal takes its original out of the rows that stand and out of the
  sum at once, and what replaces it stands. This needs that the row a call is about to
  take back has not been adjusted by anybody since, committed or in work, and that no
  two sessions are adjusting the same row (`Adjustment`, `TwiceInv`). For the cap, what
  reclassifications took off the compensation account is what they put on the
  unallowable one, but for the row a session halfway through still has to post
  (`Under`), and with that row it is within the excess, which payments since the call
  read it can only have raised (`ExcessInv`).
* `ClaimInv`. Items are only added, so increases only rise and decreases only fall, and a
  copy's totals are never ahead of the row's, nor the row's of the items' (`ClaimCopies`,
  `ClaimTotals`): a total that differs from a copy's is written. Only a
  session between `add_line_item` and `recompute_totals` leaves a row in work behind its
  items. The items' absolute values add up to increases less decreases, so the test
  and the deadline, taken from the totals, fit the items (`ClaimDates`).
* The certificate. Findings are one to one with the pairs that `Exposed` counts
  (`FlaggedRows`), so the report's count is a cardinality under a bijection and its total
  a sum along it (`ReportCounts`).

### The application

`ApplicationInv` has one part per component.

* The limiter. It forgets: an entry older than some request's cutoff is dropped, and the
  next request may come with an earlier cutoff, because each thread read its clock before
  the lock. `Remembers` says that this does not matter. For every cutoff that is still
  *current* for an address (no admission of it is younger than the clock behind the
  cutoff), what is left of the entry counts all admissions since, or is full already and
  refuses. Trimming with a later cutoff makes up for an earlier one (`TrimTwice`), and a
  request that comes with an earlier one finds nothing more to drop (`TrimBefore`), so if
  the entry was full it is full still. That an admission stays below the limit in every
  window around it (`Within`) follows: the window's admissions are among those counted.
* `AdmissionInv`. The configuration is the one its environment gives, and one that is on
  accepts algorithms of one family only, that of the only source named (`Accepted`).
* `WorkspacesInv`. Nobody else is making a workspace that is not excused (`OneMaker`), so
  the file a failed migration removes is its own, and a cached name was whole when it was
  opened and nothing takes it away.
* `AssistantInv`. What the ledger holds was returned by a tool of this request without an
  error (`Learned`), and stays so with every result more (`Absorbs`). Amounts that round to
  the same cent or dollar are within a dollar (`FormsAreNear`), so prose that passes the check
  is near what was returned (`VerifiedIsNear`, `Near`). A request that is still at work has
  not spent more than the ceiling, so a call more is one call over it.

### Figures and reports

`FigureInv` says that an answer is the one its request has, so `FiguresFoot` is about
arithmetic: `quantize_money` is within half a unit (`Cent`, `MilliCent`, `Mil`, `DeciMil`), as is
`quantize` (`EvenCent`), and the sum of rounded lines is off the rounded sum by half a cent a
line (`SumRounded` in `Sums`); rounding leaves whole cents alone (`WholeCent`) and keeps order (`MoreCents`), and the roundings of a variance row cannot turn
its sign (`Recorded`). The last of these is where the claim first made about variances
turned out to be too strong, see section 4: the prover was left with a standard amount
above the actual one in a row that is not favorable, and with 0 to 3 hours TLC has the case.

`YearInv` has four parts.

* `BooksFit`: the rows are numbered from one and hold what may be posted, and each entry
  has the vector that `evaluate_allowability` gave it, of which only what reports rest on is
  kept (`EntryFits`). Rows are only added, so a sum over the longer book is the old one and
  the new row's amount, if it counts (`RowAppended`).
* `ClosedTie`: of a closed period the ledger and the job costs have the same direct totals,
  and while no voucher was late the billings are within them. A posting to another period
  changes neither, and a posting to this one is refused, but for a voucher, which is then
  late. `PeriodsTie` adds the periods up; Schedule H, the contract statement and the
  ledger are three sums over one set of rows, regrouped (`Schedules`, `Burdened`).
* `InquiryFits`: what a claim in work has read of its contract is no more than what is
  billed now, if no voucher is negative.
* `DocumentFits`: the claim's row holds the inputs its steps were computed from, and the
  numerator is no more than the denominator. Billed shares of overhead round to no more
  than the whole (`Quotient`, `PartOf`).

### Assumptions and limits

The assumptions are the named ones of the modules, all about constants: records are
numbers, every pool has a name, amounts are integers, and the values that stand for
nothing (`NoSession`, `NotLoaded`, `Absent`, `NoPool`, `None`, `Intact`) differ from what
they stand beside. For the services, keys of different tables differ (`AlertAssumption`,
`BaselineAssumption`), what the Federal Register offers is a suggestion or malformed
(`DocumentAssumption`), and a lineage has room for its first row (`VersionsAssumption`). Items, thresholds,
days, payments, expenses, corrections, cap and per diem are integers
(`ClaimAssumption`, `LedgerAssumption`), and a sweep's assumptions and postings are
finitely many with integer values (`SweepAssumption`). For the application, limit,
window, clock bound, cap, ceiling and costs are natural numbers, and there is at least one
turn (`LimitAssumption`, `CapAssumption`, `CostAssumption`), and amounts in texts are natural
numbers (`TextAssumption`); costs are in millionths of a
dollar, to which the code rounds them. For figures
and reports, amounts and rates are integers of either sign and hours are not negative
(`FigureAssumption`); an account has a pool if and only if it is indirect, codes and ids are
unique (`AccountAssumption`, the keys and CHECKs of the tables); postings cite rows that
are there (`PostingAssumption`, the foreign keys). Digests are payloads, so they do not collide, and the genesis hash is no payload.

Induction over data is out of the provers' reach, but that a set of numbers has a least
one (`LeastNat`, `LeastNumber`) is not: a trail is searched for its first bad row with it,
a wait cycle for its least row, the limiter's entry for the first time that it keeps,
and the subsets of a set for the smallest on which a law of sums would fail.

Only model-checked: of `edges` the properties of determinations (`TablesMatchLegacy`,
`ValidDraftEvaluates`, `UnsettledIsSaid`), whose operators recur over conditions of any
depth, and of migrations (`EnforcementStands`), which is about one fixed list of
statements: TLC walks all of it and a theorem would have no parameter left to be general in.
`TransactionsEnd` and `RequestsEnd` are liveness under fairness and out of the prover's
reach. `MCPeriodClose` checks `CloseTies` on its initial
states with one session; the theorem assumes one session instead. The six claims that
the code violates have TLC's counterexamples.

## 6. Not modelled

Formatting of exports and reports, the command line, the web page, the glossary and
scenarios, prompts, and the wire formats of the two model providers: text and I/O.
`check_fpra_authorization`, `check_disclosed_vs_actual` and `find_standard`, each one
lookup; the placeholders of reason templates; which words of a sentence count as a
figure to ground; signatures and key fetching inside token verification. Triggers that
refuse any UPDATE or DELETE of a table outright are, outside `Migrations`, in the models
as actions that do not exist. `PROJECT.json` says for each component how much of it is modelled.
