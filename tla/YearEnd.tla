------------------------------ MODULE YearEnd -------------------------------
(***************************************************************************)
(* What one fiscal year's books are turned into: allowability vectors at   *)
(* posting, the monthly close, ICE schedules, the SF 1408 self-check, the  *)
(* monitoring of provisional rates, contract statements and Eichleay       *)
(* claims (govcon/services/allowability.py, period_close.py,               *)
(* ice_schedules.py, sf1408.py, pbr_monitoring.py, contract_statement.py,  *)
(* eichleay.py).                                                           *)
(*                                                                         *)
(* Every call is a transaction of its own; postings that overlap a close   *)
(* are in PeriodClose, changing rates in RatePools.  Money is in cents,    *)
(* rates are in tenths.                                                    *)
(***************************************************************************)
EXTENDS Thresholds, Rounding

CONSTANTS
    Contract,      \* contracts, without later versions
    Periods,       \* the year's periods are 1..Periods
    Account,       \* gl_accounts rows
    Pool,          \* the year's indirect_pools rows
    Exceptions,    \* contract_clause_exceptions rows
    Transactions, JobCosts, Invoices, Registers,   \* rows that may be posted
    Delay,         \* days of delay of a claim
    Performance,   \* performance start and end of each contract
    Overhead,      \* home office overhead of a claim
    MIN_HISTORY,   \* DEFAULT_MIN_HISTORY
    Tolerance,     \* L_ABS_TOLERANCE; of L_PCT_TOLERANCE's thousandth less than a cent is left here
    None,          \* no Eichleay calculation is under way, no document has been made
    MaxRows        \* bound: rows posted in a behaviour

VARIABLES
    gl, jcl, vouchers, payroll,   \* rows in the order of their ids
    closed,      \* closed periods
    late,        \* history: a voucher was posted into a closed period
    inquiry,     \* what calculate_eichleay has read so far
    document     \* the last row made of the books: a schedule, a claim, notes

books == <<gl, jcl, vouchers, payroll>>
yearVars == <<gl, jcl, vouchers, payroll, closed, late, inquiry, document>>

Period == 1..Periods
AccountOf(row) == CHOOSE a \in Account : a.code = row.account
PoolOf(account) == CHOOSE p \in Pool : p.pool_id = account.pool_assignment

\* A query's rows, by number, and the sum of their amounts.
Where(rows, Counts(_)) == {i \in DOMAIN rows : Counts(rows[i])}
AddUp(rows, set) == SumFunctionOnSet([i \in DOMAIN rows |-> rows[i].amount], set)
Total(rows, Counts(_)) == AddUp(rows, Where(rows, Counts))

-----------------------------------------------------------------------------
(* allowability *)

\* _reasonableness: more than three standard deviations from the mean of the
\* account's history; with S the sum and Q the sum of squares of n amounts,
\* (n x - S)^2 > 9 (n Q - S^2).
Reasonableness(amount, ledger, code) ==
    LET history == SelectSeq(ledger, LAMBDA t : t.account = code)
        n == Len(history)
        S == Sum([i \in 1..n |-> history[i].amount])
        Q == Sum([i \in 1..n |-> history[i].amount * history[i].amount])
        spread == n * Q - S * S
        distance == n * amount - S
    IN  IF n < MIN_HISTORY THEN "pass"
        ELSE IF distance * distance > 9 * spread THEN "flag_for_review" ELSE "pass"

Allocability(account) ==
    IF account.cost_type = "direct" THEN "direct_specific"
    ELSE IF account.pool_assignment # Null /\ PoolOf(account).pool_name = "ga"
    THEN "necessary_overhead"
    ELSE "indirect_shared"

\* governing_treatment: with both treatments, GAAP governs from the first day
\* a final rule of the two rescissions is effective.
SwitchDates == {r.effective_date : r \in {s \in SEED_ROWS :
                    s.rule_name \in {"CAS_408_STATUS", "CAS_411_STATUS"} /\ s.status = "final_rule"}}
GoverningTreatment(account, day) ==
    IF account.treatments = {"cas", "gaap"}
    THEN IF \E switch \in SwitchDates : day >= switch THEN "gaap" ELSE "cas"
    ELSE IF account.treatments = {} THEN Null
    ELSE CHOOSE t \in account.treatments : TRUE

\* _far_31_2: Null for an allowable cost, a citation or none for the rest.
Far312(account) ==
    IF account.cost_type = "unallowable" THEN <<"unallowable", account.citation>>
    ELSE <<"allowable", Null>>

\* _contract_terms: the latest exception to that citation that has begun.
ContractTerms(contract, citation, day) ==
    LET found == {e \in Exceptions : /\ e.contract = contract /\ e.citation = citation
                                     /\ e.effective_date <= day}
    IN  IF contract = Null \/ citation = Null \/ found = {} THEN Null
        ELSE (CHOOSE e \in found : \A f \in found : f.effective_date <= e.effective_date).id

evaluate_allowability(t, ledger) ==
    LET account == AccountOf(t)
    IN  [reasonableness |-> Reasonableness(t.amount, ledger, t.account),
         allocability |-> Allocability(account),
         basis |-> GoverningTreatment(account, t.day),
         far |-> Far312(account),
         terms |-> ContractTerms(t.contract, Far312(account)[2], t.day)]

-----------------------------------------------------------------------------
(* The close *)

IsDirect(t) == AccountOf(t).cost_type = "direct"
DirectTotal(c, p) == Total(gl, LAMBDA t : IsDirect(t) /\ t.contract = c /\ t.period = p)
JclTotal(c, p) == Total(jcl, LAMBDA e : e.contract = c /\ e.period = p)
Billed(c, p) == Total(vouchers, LAMBDA v : v.contract = c /\ v.period = p)

\* Mutant: billings are left out.
ReconciledLedgers(p) == \A c \in Contract : DirectTotal(c, p) = JclTotal(c, p)

\* Only contracts with a voucher are looked at: direct costs may net to less than zero.
BilledIn(c, p) == \E i \in DOMAIN vouchers : vouchers[i].contract = c /\ vouchers[i].period = p
BillingVariances(p) == {c \in Contract : BilledIn(c, p) /\ Billed(c, p) > DirectTotal(c, p)}

\* three_way_reconciliation
Reconciled(p) ==
    /\ \A c \in Contract : DirectTotal(c, p) = JclTotal(c, p)
    /\ BillingVariances(p) = {}

FullyClosed == closed = Period

-----------------------------------------------------------------------------
(* ICE schedules *)

\* _final_rates
FinalRates == {p \in Pool : p.rate_type = "actual_final" /\ p.status \in {"approved", "locked"}}

Rate(name) ==
    LET found == {p \in FinalRates : p.pool_name = name /\ p.rate # Null}
    IN  IF found = {} THEN 0 ELSE (CHOOSE p \in found : TRUE).rate

\* _burden: a rate that is missing adds nothing.
Burden(labor) ==
    quantize_money(labor * (10 + Rate("fringe")) * (10 + Rate("overhead")) * (10 + Rate("ga")), 1000)

\* _pool_detail: the year's transactions on accounts of a pool of that name,
\* and all unallowable ones next to them.
PoolDetail(name) ==
    LET belongs(t) == AccountOf(t).pool_assignment # Null /\ PoolOf(AccountOf(t)).pool_name = name
    IN  [total |-> Total(gl, belongs),
         rows |-> {i \in DOMAIN gl : belongs(gl[i])},
         exclusions |-> {i \in DOMAIN gl : AccountOf(gl[i]).cost_type = "unallowable"}]

\* _direct_costs_by_contract
DirectCosts(c, element) == Total(jcl, LAMBDA e : e.contract = c /\ e.element = element)
CostElements == {"labor", "material"}
Charged == {jcl[i].contract : i \in DOMAIN jcl}
Invoiced == {vouchers[i].contract : i \in DOMAIN vouchers}
DirectOfAll(c) == Total(jcl, LAMBDA e : e.contract = c)

\* Mutant: labor is burdened on top of the direct total.
ScheduleHTwice ==
    [c \in Charged |-> [direct_total |-> DirectOfAll(c),
                        claimed_total |-> DirectOfAll(c) + Burden(DirectCosts(c, "labor"))]]

\* _schedule_H
ScheduleH ==
    [c \in Charged |->
        [direct_total |-> DirectOfAll(c),
         claimed_total |-> DirectOfAll(c) - DirectCosts(c, "labor")
                           + Burden(DirectCosts(c, "labor"))]]

\* _schedule_I: since inception, at this year's rates.
ScheduleI ==
    [c \in Charged \union Invoiced |->
        [claimed |-> Burden(DirectCosts(c, "labor")) + DirectCosts(c, "material"),
         billed |-> Total(vouchers, LAMBDA v : v.contract = c)]]

\* _schedule_L
PayrollTies(p) ==
    Abs(Total(payroll, LAMBDA r : r.period = p)
        - Total(jcl, LAMBDA e : e.element = "labor" /\ e.period = p)) <= Tolerance

Verdict(type) ==
    CASE type = "G" -> \A p \in Period : Reconciled(p)
      [] type = "I" -> \A c \in DOMAIN ScheduleI : ScheduleI[c].billed <= ScheduleI[c].claimed
      [] type = "L" -> \A p \in Period : PayrollTies(p)
      [] OTHER -> TRUE

-----------------------------------------------------------------------------
(* Other readers of the books *)

\* pool_numerator_transactions: by the name and the year of the pool.
Numerator(pool) ==
    Total(gl, LAMBDA t : /\ AccountOf(t).pool_assignment # Null
                         /\ PoolOf(AccountOf(t)).pool_name = pool.pool_name
                         /\ AccountOf(t).cost_type # "unallowable")

billing_export_transactions(c) ==
    {i \in DOMAIN gl : gl[i].contract = c /\ AccountOf(gl[i]).cost_type # "unallowable"}

\* _ytd_pool_costs: by the row of the pool.
YtdPoolCosts(pool, p) ==
    Total(gl, LAMBDA t : /\ AccountOf(t).pool_assignment = pool.pool_id
                         /\ AccountOf(t).cost_type # "unallowable" /\ t.period <= p)

\* monitor_period: rates in force, costs beyond 5% of what the elapsed part of
\* the year lets expect; with no expectation there is no variance.
Monitored == {pool \in Pool : /\ pool.rate_type = "provisional" /\ pool.status = "approved"
                                 /\ pool.rate # Null /\ pool.base # Null}
Fluctuation(pool, p) ==
    LET expected == quantize_money(pool.rate * pool.base * p, 10 * 12)
        variance == YtdPoolCosts(pool, p) - expected
    IN  IF expected = 0 THEN {}
        ELSE IF Abs(quantize_money(variance * 10000, expected)) > 500
        THEN {[pool |-> pool.pool_id, period |-> p, variance |-> variance, resolved |-> FALSE]}
        ELSE {}

contract_statement(c) ==
    [direct_costs |-> [e \in CostElements |-> DirectCosts(c, e)],
     gl_totals |-> [k \in {"direct", "indirect", "unallowable"} |->
                       Total(gl, LAMBDA t : t.contract = c /\ AccountOf(t).cost_type = k)],
     billed |-> Total(vouchers, LAMBDA v : v.contract = c)]

\* SF 1408, criterion by criterion: what it finds.  A and D are about accounts,
\* which CHECK constraints hold to them.
SegregationFindings ==
    {a.code : a \in {b \in Account : (b.cost_type = "indirect") # (b.pool_assignment # Null)}}
AccumulationFindings ==
    {gl[i].contract : i \in {j \in DOMAIN gl : IsDirect(gl[j])}} \ Charged
AllocationFindings ==
    {p.pool_id : p \in {q \in Pool : (q.base = Null \/ q.base <= 0) /\
        \E i \in DOMAIN gl : AccountOf(gl[i]).pool_assignment = q.pool_id}}
ExclusionFindings ==
    {a.code : a \in {b \in Account : b.cost_type = "unallowable"
                                     /\ (b.pool_assignment # Null \/ b.citation = Null)}}
BillingFindings == UNION {{<<p, c>> : c \in BillingVariances(p)} : p \in Period}

run_self_check ==
    [A |-> SegregationFindings, B |-> AccumulationFindings, C |-> AllocationFindings,
     D |-> ExclusionFindings, F |-> BillingFindings]

-----------------------------------------------------------------------------
(* Eichleay *)

DuringContract(v, c) == Performance[c][1] <= v.day /\ v.day <= Performance[c][2]
Unreconciled == {i \in DOMAIN vouchers : vouchers[i].period \notin closed}

\* The three steps; the daily rate in hundredths of a cent.
Steps(c) ==
    LET allocable == quantize_money(c.contract_billings * c.overhead, c.total_billings)
        daily == quantize_money(allocable * 100, c.performance_days)
    IN  <<allocable, daily, quantize_money(daily * c.delay_days, 100)>>

verify_claim(claim) == claim.steps = Steps(claim)

-----------------------------------------------------------------------------
(* The calls *)

YearInit ==
    /\ gl = <<>> /\ jcl = <<>> /\ vouchers = <<>> /\ payroll = <<>>
    /\ closed = {} /\ late = FALSE
    /\ inquiry = None /\ document = None

Room == Len(gl) + Len(jcl) + Len(vouchers) + Len(payroll) < MaxRows
Kept == UNCHANGED <<closed, inquiry, document>>

Posted(t, vector) ==
    [account |-> t.account, contract |-> t.contract, period |-> t.period, amount |-> t.amount,
     day |-> t.day, vector |-> vector]

\* post_transaction, through the guards: an open period, a contract for a
\* direct cost; the vector is computed before the row is flushed.
PostTransaction ==
    \E t \in Transactions :
        /\ Room
        /\ t.period \notin closed
        /\ IsDirect(t) => t.contract # Null
        /\ gl' = Append(gl, Posted(t, evaluate_allowability(t, gl)))
        /\ UNCHANGED <<jcl, vouchers, payroll, late>> /\ Kept

PostEntry ==
    \E e \in JobCosts :
        /\ Room
        /\ e.period \notin closed
        /\ jcl' = Append(jcl, e)
        /\ UNCHANGED <<gl, vouchers, payroll, late>> /\ Kept

\* Vouchers pass no gate.
PostVoucher ==
    \E v \in Invoices :
        /\ Room
        /\ vouchers' = Append(vouchers, v)
        /\ late' = (late \/ v.period \in closed)
        /\ UNCHANGED <<gl, jcl, payroll>> /\ Kept

PostPayroll ==
    \E r \in Registers :
        /\ Room
        /\ payroll' = Append(payroll, r)
        /\ UNCHANGED <<gl, jcl, vouchers, late>> /\ Kept

ClosePeriod ==
    \E p \in Period \ closed :
        /\ Reconciled(p)
        /\ closed' = closed \union {p}
        /\ UNCHANGED <<late, inquiry, document, books>>

Make(row) ==
    /\ document' = row
    /\ UNCHANGED <<closed, late, books>>

GenerateSchedule ==
    \E type \in {"A", "B", "C", "E", "G", "H", "I", "L", "O"} :
        /\ FullyClosed
        /\ Make([type |-> type, passed |-> Verdict(type)])
        /\ UNCHANGED inquiry

\* Schedule N is signed by a CFO or a vice president.
SignScheduleN ==
    \E role \in {"cfo", "vp", "other"} :
        /\ FullyClosed /\ role \in {"cfo", "vp"}
        /\ Make([type |-> "N", passed |-> TRUE])
        /\ UNCHANGED inquiry

MonitorPeriod ==
    \E p \in Period :
        /\ Make([type |-> "notes",
                 notes |-> UNION {Fluctuation(pool, p) : pool \in Monitored}])
        /\ UNCHANGED inquiry

ResolveNote ==
    /\ document # None /\ document.type = "notes"
    /\ \E note \in document.notes :
        Make([document EXCEPT !.notes = (@ \ {note}) \union {[note EXCEPT !.resolved = TRUE]}])
    /\ UNCHANGED inquiry

\* calculate_eichleay: the check of the inputs.
StartEichleay ==
    \E c \in Contract :
        /\ inquiry = None
        /\ Unreconciled = {}
        /\ inquiry' = [contract |-> c, billings |-> Null]
        /\ UNCHANGED <<closed, late, document, books>>

\* Mutant: of the contract, billings of any date.
BillingsOfAnyDate(c) == Total(vouchers, LAMBDA v : v.contract = c)

ContractBillings(c) == Total(vouchers, LAMBDA v : v.contract = c /\ DuringContract(v, c))

\* ... the contract's billings,
ReadContractBillings ==
    /\ inquiry # None
    /\ inquiry.billings = Null
    /\ inquiry' = [inquiry EXCEPT !.billings = ContractBillings(inquiry.contract)]
    /\ UNCHANGED <<closed, late, document, books>>

\* ... all of the company's, and the claim.
CalculateEichleay ==
    \E overhead \in Overhead, days \in Delay :
        LET c == inquiry.contract
            input == [type |-> "claim", contract |-> c, contract_billings |-> inquiry.billings,
                      total_billings |-> Total(vouchers, LAMBDA v : DuringContract(v, c)),
                      overhead |-> overhead, delay_days |-> days,
                      performance_days |-> Performance[c][2] - Performance[c][1] + 1,
                      steps |-> <<>>]
        IN  /\ inquiry # None /\ inquiry.billings # Null
            /\ inquiry' = None
            /\ Make(IF input.total_billings <= 0 THEN document
                    ELSE [input EXCEPT !.steps = Steps(input)])

YearNext ==
    \/ PostTransaction \/ PostEntry \/ PostVoucher \/ PostPayroll
    \/ ClosePeriod
    \/ GenerateSchedule \/ SignScheduleN
    \/ MonitorPeriod \/ ResolveNote
    \/ StartEichleay \/ ReadContractBillings \/ CalculateEichleay

YearSpec == YearInit /\ [][YearNext]_yearVars
-----------------------------------------------------------------------------
(* Properties *)

\* "Real ICS audit findings occur" where the books do not tie: once the year is
\* closed they do, so Schedule G passes and the self-check finds nothing in billing,
\* unless a voucher came in after its period's close, and in accumulation only
\* contracts whose direct costs were all taken back.
BooksTieUnlessLate ==
    FullyClosed => /\ ~late => Verdict("G") /\ run_self_check.F = {}
                   /\ \A c \in run_self_check.B :
                         c \in Contract /\ \A p \in Period : DirectTotal(c, p) = 0

\* One year seen through the schedules: what Schedule H claims for a contract
\* is what Schedule I compares with its billings, and the direct costs of both
\* are those of its statement and of the general ledger.
SchedulesAgree ==
    FullyClosed =>
        \A c \in Charged :
            /\ ScheduleH[c].claimed_total = ScheduleI[c].claimed
            /\ ScheduleH[c].direct_total = contract_statement(c).gl_totals["direct"]
            /\ ScheduleI[c].billed = contract_statement(c).billed

\* Three readers add up the costs of a pool in three ways: the rate numerator,
\* the detail of Schedules B and C, and the monitoring of the provisional rate,
\* which at the year's end arrive at the same sum; the last one as long as the
\* accounts of that name are assigned to the row that is monitored.
AssignedTo(pool) ==
    \A a \in Account : a.pool_assignment # Null /\ PoolOf(a).pool_name = pool.pool_name
                           => a.pool_assignment = pool.pool_id
PoolCostsAgree ==
    \A pool \in Monitored :
        /\ Numerator(pool) = PoolDetail(pool.pool_name).total
        /\ AssignedTo(pool) => Numerator(pool) = YtdPoolCosts(pool, Periods)

\* What an entry's vector said when it was posted is what every report makes of
\* it: an unallowable cost is in no pool detail and no billing export and among
\* the exclusions of every schedule, a G&A cost is in Schedule B.
ReportsFollowVectors ==
    \A i \in DOMAIN gl :
        LET vector == gl[i].vector
        IN  /\ vector.far[1] = "unallowable" =>
                   /\ \A name \in {p.pool_name : p \in Pool} :
                          i \in PoolDetail(name).exclusions \ PoolDetail(name).rows
                   /\ \A c \in Contract : i \notin billing_export_transactions(c)
            /\ vector.allocability = "necessary_overhead" => i \in PoolDetail("ga").rows

\* An Eichleay claim recomputes from its row whatever is billed later, and, no
\* credit having been billed, allocates no more than the overhead there is.
NoCredits == \A i \in DOMAIN vouchers : vouchers[i].amount >= 0
ClaimsStand ==
    document # None /\ document.type = "claim" =>
        /\ verify_claim(document)
        /\ NoCredits => /\ document.contract_billings <= document.total_billings
                        /\ document.overhead >= 0 => document.steps[1] <= document.overhead
=============================================================================
