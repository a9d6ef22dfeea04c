------------------------------- MODULE Reporting -------------------------------
(* What the books are turned into: the figures of prices, variances and burdened *)
(* costs, each asked for once, and the year's close with its schedules, reports  *)
(* and claims.  They share no state: a behaviour is about one of them (Focus).   *)
EXTENDS Integers, Sequences, FiniteSets, Focus

CONSTANTS
  Cents, Mills, Tenths, Hours, Elements,                                \* Figures
  Contract, Periods, Account, Pool, Exceptions,                         \* YearEnd
  Transactions, JobCosts, Invoices, Registers,
  Delay, Performance, Overhead, MIN_HISTORY, Tolerance, None, MaxRows

VARIABLES
  request, answer,
  gl, jcl, vouchers, payroll, closed, late, inquiry, document

asked == <<request, answer>>
books == <<gl, jcl, vouchers, payroll, closed, late, inquiry, document>>
reportingVars == <<focus, asked, books>>

AskedOff == request = Null /\ answer = Null
BooksOff == /\ gl = Null /\ jcl = Null /\ vouchers = Null /\ payroll = Null
            /\ closed = Null /\ late = Null /\ inquiry = Null /\ document = Null

F == INSTANCE Figures
Y == INSTANCE YearEnd

--------------------------------------------------------------------------------
\* Amounts are signed: a reversal is a negative entry.  An element of a proposal
\* may leave its probable amount out.
ASSUME FigureAssumption ==
  /\ Cents \subseteq Int /\ Mills \subseteq Int /\ Tenths \subseteq Int /\ Hours \subseteq Nat
  /\ \A elements \in Elements :
       /\ IsFiniteSet(DOMAIN elements)
       /\ \A i \in DOMAIN elements :
            /\ elements[i].proposed \in Int
            /\ "probable" \in DOMAIN elements[i] => elements[i].probable \in Int

\* The keys of accounts and pools, and the CHECKs of gl_accounts: an account has
\* a pool if and only if it is indirect (models/ledger.py).
ASSUME AccountAssumption ==
  /\ \A a \in Account : a.cost_type = "indirect" <=> a.pool_assignment # Null
  /\ \A a \in Account : a.pool_assignment # Null =>
                          \E p \in Pool : p.pool_id = a.pool_assignment
  /\ \A a, b \in Account : a.code = b.code => a = b
  /\ \A p, q \in Pool : p.pool_id = q.pool_id => p = q
  /\ \A p \in Pool : p.pool_id # Null /\ (p.rate # Null => p.rate \in Int)

\* The foreign keys of the rows that are posted, and the kinds of job cost.
ASSUME PostingAssumption ==
  /\ Periods \in Nat
  /\ \A t \in Transactions :
       /\ \E a \in Account : a.code = t.account
       /\ t.contract \in Contract \union {Null} /\ t.period \in 1..Periods /\ t.amount \in Int
  /\ \A e \in JobCosts :
       /\ e.contract \in Contract /\ e.element \in {"labor", "material"}
       /\ e.period \in 1..Periods /\ e.amount \in Int
  /\ \A v \in Invoices :
       v.contract \in Contract /\ v.period \in 1..Periods /\ v.amount \in Int
  /\ Overhead \subseteq Int /\ Null \notin Int

--------------------------------------------------------------------------------
FiguresInit == focus = "figures" /\ F!Init /\ BooksOff
YearInit    == focus = "year" /\ Y!YearInit /\ AskedOff

ReportingInit == FiguresInit \/ YearInit

FigureStep == focus = "figures" /\ F!Next /\ UNCHANGED <<focus, books>>
YearStep   == focus = "year" /\ Y!YearNext /\ UNCHANGED <<focus, asked>>

ReportingNext == FigureStep \/ YearStep

ReportingSpec == ReportingInit /\ [][ReportingNext]_reportingVars

--------------------------------------------------------------------------------
\* pricing_analysis, variances, rates.burdened_cost and true_up: totals of profit
\* and cost of money are the sums of the lines next to them; those of cost realism
\* foot among themselves, and are off their lines by what the roundings can lose,
\* nothing for amounts in whole cents; the two variances of an entry split standard
\* less actual to within a cent, overhead's exactly unless the actual ends in half
\* a cent; a burdened cost and a true-up are rounded once, at the end.
FiguresFoot == focus = "figures" => F!TotalsFoot /\ F!VariancesSplit /\ F!BurdenIsExact

\* ice_schedules and sf1408: once the year is closed its books tie and the
\* self-check finds nothing, unless a voucher came in after its period's close or
\* all of a contract's costs were taken back.
BooksTieUnlessLate == focus = "year" => Y!BooksTieUnlessLate

\* ice_schedules, contract_statement, exclusions, pbr_monitoring and allowability:
\* Schedules H and I, the contract statement and the ledger show one year, three
\* readers of a pool's costs arrive at one sum, and every report follows the
\* vector an entry was posted with.
ReportsAgree ==
  focus = "year" => Y!SchedulesAgree /\ Y!PoolCostsAgree /\ Y!ReportsFollowVectors

\* eichleay: a claim recomputes from its row whatever is billed later, and
\* allocates no more than there is, no credit having been billed.
ClaimsStand == focus = "year" => Y!ClaimsStand
================================================================================
