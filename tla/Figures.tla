------------------------------ MODULE Figures -------------------------------
(***************************************************************************)
(* The arithmetic of prices, profits, variances and burdened costs         *)
(* (govcon/services/pricing_analysis.py, variances.py and the end of       *)
(* rates.py), each figure asked for once.                                  *)
(*                                                                         *)
(* Money that is a column is in cents; money that callers pass as a        *)
(* decimal is in tenths of a cent, so that it may have to be rounded.      *)
(* Percentages, and rates and factors of which the code keeps four places, *)
(* are in tenths: enough for products that have more digits than a cent.   *)
(* Intermediate results have 28 digits in the code and are exact here.     *)
(***************************************************************************)
EXTENDS Rounding, FiniteSets

CONSTANTS
    Cents,      \* amounts of money in columns
    Mills,      \* amounts of money in requests, in tenths of a cent
    Tenths,     \* rates and percentages
    Hours,      \* hours, pieces, units of output
    Elements    \* sequences of proposal elements and of capital pools

VARIABLES request, answer

asking == <<request, answer>>

NoAnswer == [op |-> "none"]

Over(elements, F(_)) == [i \in DOMAIN elements |-> F(elements[i])]

-----------------------------------------------------------------------------
(* pricing_analysis *)

PerformanceRange == <<30, 70>>
IncentiveRange == <<70, 110>>
EquipmentRange == <<100, 250>>

\* _CTR_RANGES: designated ranges of the contract-type risk.
ContractTypeRange ==
    [ffp_no_financing |-> <<40, 60>>, ffp_performance_based_payments |-> <<25, 55>>,
     ffp_progress_payments |-> <<20, 40>>, ffp_level_of_effort |-> <<0, 10>>,
     fpi_no_financing |-> <<20, 40>>, fpi_performance_based_payments |-> <<5, 35>>,
     fpi_progress_payments |-> <<0, 20>>, cpif |-> <<0, 20>>, cpff |-> <<0, 10>>,
     time_and_materials |-> <<0, 10>>, labor_hour |-> <<0, 10>>]

Within(value, range) == range[1] <= value /\ value <= range[2]

Error == [op |-> "ValueError"]

\* compute_weighted_guidelines_profit: factors out of their range are reported
\* and used as they are.
compute_weighted_guidelines_profit(r) ==
    LET performance == quantize((r.technical + r.management) * r.cost_base, 10000)
        contract_type == quantize(r.contract_type_risk * r.cost_base, 10000)
        facilities == quantize(r.facilities, 10)
        total == performance + contract_type + facilities
        technical == IF r.incentive THEN IncentiveRange ELSE PerformanceRange
    IN  IF r.contract_type \notin DOMAIN ContractTypeRange THEN Error
        ELSE [op |-> r.op, performance |-> performance, contract_type |-> contract_type,
              facilities |-> facilities, total |-> total,
              rate |-> Percent(10 * total, r.cost_base),
              outside |-> {f \in {"technical", "management", "contract_type_risk"} :
                  ~Within(r[f], CASE f = "technical" -> technical
                                  [] f = "management" -> PerformanceRange
                                  [] f = "contract_type_risk" ->
                                        ContractTypeRange[r.contract_type])}]

\* compute_facilities_capital_profit: land and buildings earn nothing.
compute_facilities_capital_profit(r) ==
    [op |-> r.op, profit |-> quantize(r.equipment * r.factor, 10000),
     outside |-> ~Within(r.factor, EquipmentRange)]

COST_REIMBURSEMENT == {"cpff", "cpif", "cpaf", "cost", "cost_sharing"}

\* An element without a probable amount is taken as proposed.
Probable(element) == IF "probable" \in DOMAIN element THEN element.probable ELSE element.proposed

\* The line of an element: its amounts and their difference, each in cents.
RealismFinding(e) ==
    [proposed |-> quantize(e.proposed, 10), probable |-> quantize(Probable(e), 10),
     adjustment |-> quantize(Probable(e) - e.proposed, 10)]

\* assess_cost_realism: the totals are rounded from the sums of the amounts.
assess_cost_realism(r) ==
    LET proposed == quantize(Sum(Over(r.elements, LAMBDA e : e.proposed)), 10)
        probable == quantize(Sum(Over(r.elements, Probable)), 10)
    IN  [op |-> r.op, required |-> r.contract_type \in COST_REIMBURSEMENT,
         proposed |-> proposed, probable |-> probable, adjustment |-> probable - proposed,
         percent |-> Percent(probable - proposed, proposed),
         findings |-> Over(r.elements, RealismFinding)]

\* Mutant: only the total is rounded to the cent.
CostOfMoneyUnrounded(r) ==
    LET products == Over(r.elements, LAMBDA p : p.base * p.factor)
    IN  [op |-> r.op, total |-> quantize(Sum(products), 10000),
         findings |-> Over(products, LAMBDA n : quantize(n, 10000))]

\* compute_facilities_cost_of_money: the sum of the products, each in cents.
compute_facilities_cost_of_money(r) ==
    LET products == Over(r.elements, LAMBDA p : quantize(p.base * p.factor, 10000))
    IN  [op |-> r.op, total |-> Sum(products), findings |-> products]

-----------------------------------------------------------------------------
(* variances *)

\* A cost_variances row; the amounts come as tenths of a cent.
Variance(standard_amount, actual_amount, variance_amount) ==
    [standard_amount |-> quantize_money(standard_amount, 10),
     actual_amount |-> quantize_money(actual_amount, 10),
     variance_amount |-> variance_amount, favorable |-> variance_amount > 0]

record_variance(standard_amount, actual_amount) ==
    Variance(standard_amount, actual_amount, quantize_money(standard_amount - actual_amount, 10))

\* labor_variances and material_variances, which differ in names only: what
\* the input cost, and how much of it there was.
entry_variances(r) ==
    LET allowed == r.units * r.standard_quantity
    IN  IF r.quantity = 0 THEN [op |-> "VarianceError"]
        ELSE [op |-> r.op,
              rate |-> record_variance(r.standard_rate * r.quantity, 10 * r.amount),
              efficiency |-> record_variance(r.standard_rate * allowed,
                                             r.standard_rate * r.quantity)]

\* The flexible budget at the hours that the actual output allows.
budgeted_overhead_at_sha(r, sha) == quantize_money(10 * r.fixed + r.variable_rate * sha, 10)

overhead_variances(r) ==
    LET sha == r.units * r.standard_quantity
        budgeted == budgeted_overhead_at_sha(r, sha)
        applied == quantize_money(sha * r.standard_rate, 10)
    IN  [op |-> r.op, spending |-> record_variance(10 * budgeted, r.actual),
         volume |-> record_variance(10 * applied, 10 * budgeted)]

-----------------------------------------------------------------------------
(* rates *)

\* The run keeps the labor and the three rates.
Snapshot(labor, fringe, overhead, ga) ==
    [direct_labor |-> labor, fringe |-> fringe, overhead |-> overhead, ga |-> ga]

\* Mutant: each stage is rounded.
FullyBurdenedByStage(s) ==
    LET stage(amount, rate) == quantize_money(amount * (10 + rate), 10)
    IN  quantize_money(stage(stage(stage(s.direct_labor, s.fringe), s.overhead), s.ga), 10)

\* DL x (1 + fringe) x (1 + overhead) x (1 + G&A), in cents at the end.
FullyBurdened(s) ==
    quantize_money(s.direct_labor * (10 + s.fringe) * (10 + s.overhead) * (10 + s.ga), 10000)

burdened_cost(r) == [op |-> r.op, result |-> FullyBurdened(r.snapshot), snapshot |-> r.snapshot]

\* true_up: what a base billed at the provisional rate is short of the final.
Delta(base, provisional, final) == quantize_money(base * (final - provisional), 100)
true_up(r) == [op |-> r.op, delta |-> Delta(r.base, r.provisional, r.final)]

-----------------------------------------------------------------------------
(* Requests and calls *)

Requests(Is(_)) ==
    \/ \E base \in Mills, technical, management, risk \in Tenths, kind \in {"cpff", "fixed"},
          facilities \in Mills, incentive \in BOOLEAN :
        Is([op |-> "profit", cost_base |-> base, technical |-> technical,
            management |-> management, contract_type_risk |-> risk, contract_type |-> kind,
            facilities |-> facilities, incentive |-> incentive])
    \/ \E equipment \in Mills, factor \in Tenths :
        Is([op |-> "facilities", equipment |-> equipment, factor |-> factor])
    \/ \E elements \in Elements, kind \in {"cpff", "fixed"} :
        Is([op |-> "realism", elements |-> elements, contract_type |-> kind])
    \/ \E elements \in Elements : Is([op |-> "cost_of_money", elements |-> elements])
    \/ \E units, needed, quantity \in Hours, rate \in Tenths, amount \in Cents :
        Is([op |-> "entry", units |-> units, standard_quantity |-> needed,
            quantity |-> quantity, standard_rate |-> rate, amount |-> amount])
    \/ \E units, needed \in Hours, rate \in Tenths, actual \in Mills :
        Is([op |-> "overhead", units |-> units, standard_quantity |-> needed,
            standard_rate |-> rate, actual |-> actual, fixed |-> 3, variable_rate |-> 7])
    \/ \E labor \in Mills, fringe, overhead, ga \in Tenths :
        Is([op |-> "burden", snapshot |-> Snapshot(labor, fringe, overhead, ga)])
    \/ \E base \in Mills, provisional, final \in Tenths :
        Is([op |-> "true_up", base |-> base, provisional |-> provisional, final |-> final])

Init == Requests(LAMBDA r : request = r) /\ answer = NoAnswer

Reply(op, F(_)) ==
    /\ request.op = op
    /\ answer = NoAnswer
    /\ answer' = F(request)
    /\ UNCHANGED request

WeightedGuidelines == Reply("profit", compute_weighted_guidelines_profit)
FacilitiesCapital == Reply("facilities", compute_facilities_capital_profit)
CostRealism == Reply("realism", assess_cost_realism)
CostOfMoney == Reply("cost_of_money", compute_facilities_cost_of_money)
EntryVariances == Reply("entry", entry_variances)
OverheadVariances == Reply("overhead", overhead_variances)
BurdenedCost == Reply("burden", burdened_cost)
TrueUp == Reply("true_up", true_up)

Next ==
    \/ WeightedGuidelines \/ FacilitiesCapital \/ CostRealism \/ CostOfMoney
    \/ EntryVariances \/ OverheadVariances
    \/ BurdenedCost \/ TrueUp

Spec == Init /\ [][Next]_asking
-----------------------------------------------------------------------------
(* Properties *)

Answered(op) == request.op = op /\ answer.op = op

\* How far an element's line and a report's lines are from footing.
LineGap(line) == Abs(line.probable - line.proposed - line.adjustment)
AdjustmentGap == Abs(answer.adjustment - Sum(Over(answer.findings, LAMBDA line : line.adjustment)))
WholeCents(elements) ==
    \A i \in DOMAIN elements : elements[i].proposed % 10 = 0 /\ Probable(elements[i]) % 10 = 0

\* A profit and a cost of money are the sums of the lines shown next to them, to
\* the cent.  The figures of a cost realism analysis are rounded each on its own:
\* the totals foot among themselves, a line to within a cent, and the lines' sum
\* is off the total by no more than a cent and half a cent for each line; with
\* amounts in whole cents nothing is off.
TotalsFoot ==
    /\ Answered("profit") =>
           answer.total = answer.performance + answer.contract_type + answer.facilities
    /\ Answered("cost_of_money") => answer.total = Sum(answer.findings)
    /\ Answered("realism") =>
           /\ answer.proposed + answer.adjustment = answer.probable
           /\ \A i \in DOMAIN answer.findings : LineGap(answer.findings[i]) <= 1
           /\ 2 * AdjustmentGap <= 2 + Cardinality(DOMAIN answer.findings)
           /\ WholeCents(request.elements) =>
                  /\ \A i \in DOMAIN answer.findings : LineGap(answer.findings[i]) = 0
                  /\ AdjustmentGap = 0

\* "standard - actual; positive = favorable": the two variances of an entry
\* split what its output should have cost less what it did cost, to within the
\* cent their roundings can lose; of overhead they split it exactly, unless the
\* actual ends in half a cent.  What is called favorable cost no more than the
\* standard; what is not may have cost a cent less, where standard, actual and
\* variance are all rounded.
VariancesSplit ==
    LET allowed == request.units * request.standard_quantity
        applied == quantize_money(request.standard_rate * allowed, 10)
        agrees(row, lost) ==
            /\ row.favorable => row.standard_amount >= row.actual_amount
            /\ ~row.favorable => row.standard_amount <= row.actual_amount + lost
    IN  /\ Answered("entry") =>
               /\ agrees(answer.rate, 0) /\ agrees(answer.efficiency, 1)
               /\ Abs(answer.rate.variance_amount + answer.efficiency.variance_amount
                      - (applied - request.amount)) <= 1
        /\ Answered("overhead") =>
               /\ agrees(answer.spending, 0) /\ agrees(answer.volume, 0)
               /\ LET gap == answer.spending.variance_amount + answer.volume.variance_amount
                             - (applied - answer.spending.actual_amount)
                  IN  Abs(gap) <= 1 /\ (request.actual % 10 # 5 => gap = 0)

\* "quantized to the cent at the END": a burdened cost is within half a cent of
\* the product, and what was billed at provisional rates and trued up is what
\* the final rate would have billed, to within a cent.
BurdenIsExact ==
    /\ Answered("burden") =>
           LET s == answer.snapshot
               exact == s.direct_labor * (10 + s.fringe) * (10 + s.overhead) * (10 + s.ga)
           IN  Abs(10000 * answer.result - exact) <= 5000
    /\ Answered("true_up") =>
           Abs(quantize_money(request.base * request.provisional, 100) + answer.delta
               - quantize_money(request.base * request.final, 100)) <= 1
=============================================================================
