--------------------------- MODULE Determinations ---------------------------
(***************************************************************************)
(* What callers ask of the decision tables: the two determinations, a      *)
(* threshold on a day, the check of a drafted rule                         *)
(* (govcon/services/rule_authoring.py); next to them the coded logic the   *)
(* tables replaced (tests/oracles/legacy_cas_tina.py).  Every request is   *)
(* an initial state and every service call one step.                       *)
(***************************************************************************)
EXTENDS Decisions

CONSTANTS
    Day,      \* award dates, action dates and dates of questions
    Value,    \* contract values and proposed values, in thousands
    Prior,    \* sequences of contracts already there
    Draft     \* drafts of a when_ast, well-formed or not

VARIABLES
    request,
    answer    \* Null until the call returns

asking == <<request, answer>>

Exception == {TINA_EXCEPTIONS[i] : i \in DOMAIN TINA_EXCEPTIONS}

Contracts ==
    [award_date : Day, value : Value, size : {"small", "other_than_small"},
     nontraditional : BOOLEAN]
Actions ==
    {flags @@ [action_date |-> day, proposed_value |-> value] :
        flags \in [Exception -> {TRUE, FALSE, Null}], day \in Day, value \in Value \union {Null}}

Requests ==
    [op : {"cas"}, contract : Contracts, contracts : Prior]
    \union [op : {"tina"}, action : Actions]
    \union [op : {"analysis"}, action : {a \in Actions : a.waiver_granted = FALSE}]
    \union [op : {"subcontract"}, prime : Value, sub : Value, day : Day]
    \union [op : {"threshold"}, name : {r.rule_name : r \in SEED_ROWS}, day : Day]
    \union [op : {"draft"}, node : Draft]

-----------------------------------------------------------------------------
(* Rule authoring *)

\* _validate_operand: an operand that is not a literal is one of the two
\* references, and not to "".
OperandValid(node, f) ==
    /\ f \in DOMAIN node
    /\ node[f].kind \in {"literal", "input", "threshold"}
    /\ node[f].kind # "literal" => node[f].key # ""

LeafValid(node) ==
    \/ node.op \in UNARY_OPS /\ OperandValid(node, "lhs")
    \/ node.op \in COMPARISON_OPS /\ OperandValid(node, "lhs") /\ OperandValid(node, "rhs")

\* Mutant: of a group, one sub-condition is enough.
NodeValidAny(node) ==
    \/ node.op = "always"
    \/ node.op \in {"all", "any"} /\ \E i \in DOMAIN node.of : LeafValid(node.of[i])
    \/ LeafValid(node)

\* _validate_node
RECURSIVE NodeValid(_)
NodeValid(node) ==
    \/ node.op = "always"
    \/ /\ node.op \in {"all", "any"} /\ node.of # <<>>
       /\ \A i \in DOMAIN node.of : NodeValid(node.of[i])
    \/ LeafValid(node)

RECURSIVE References(_, _)
References(node, kind) ==
    IF node.op \in {"all", "any"}
    THEN UNION {References(node.of[i], kind) : i \in DOMAIN node.of}
    ELSE {node[f].key : f \in {g \in DOMAIN node \ {"op"} : node[g].kind = kind}}

validate_draft_rule(node) ==
    [valid |-> NodeValid(node), inputs |-> References(node, "input"),
     thresholds |-> References(node, "threshold"), requires_human_migration |-> TRUE]

-----------------------------------------------------------------------------
(* The calls *)

Init == request \in Requests /\ answer = Null

Reply(op, value) ==
    /\ request.op = op
    /\ answer = Null
    /\ answer' = value
    /\ UNCHANGED request

DetermineCasCoverage == Reply("cas", determine_cas_coverage(request.contract, request.contracts))
DetermineTinaApplicability == Reply("tina", determine_tina_applicability(request.action))
DeterminePriceOrCostAnalysis ==
    Reply("analysis", determine_price_or_cost_analysis(request.action))
DetermineSubcontractData ==
    Reply("subcontract",
          determine_subcontract_certified_data(request.prime, request.sub, request.day))
ThresholdInForce == Reply("threshold", threshold_in_force(request.name, request.day))
ValidateDraftRule == Reply("draft", validate_draft_rule(request.node))

Next ==
    \/ DetermineCasCoverage
    \/ DetermineTinaApplicability
    \/ DeterminePriceOrCostAnalysis
    \/ DetermineSubcontractData
    \/ ThresholdInForce
    \/ ValidateDraftRule

Spec == Init /\ [][Next]_asking

-----------------------------------------------------------------------------
(* The coded logic before the tables, kept by the tests as an oracle *)

LegacyCaveats(rows) == FlattenSeq([i \in DOMAIN rows |-> status_caveat(rows[i])])

LegacyCas(contract, contracts) ==
    LET day == contract.award_date
        result(tier, ids, reasons, caveats) ==
            [error |-> Null, tier |-> tier, requires_review |-> tier = "review_nontraditional",
             disclosure_required |-> tier = "full", ids |-> ids, reasons |-> reasons,
             caveats |-> caveats]
        lookups == <<threshold_in_force("CAS_CONTRACT_TRIGGER", day),
                     threshold_in_force("CAS_FULL_COVERAGE", day)>>
        rows == [i \in 1..2 |-> CHOOSE r \in lookups[i] : TRUE]
        trigger == rows[1].value
        full == rows[2].value
        cumulative == Cumulative(contracts, day)
        found(tier, reasons) ==
            result(tier, <<rows[1].id, rows[2].id>>, reasons, LegacyCaveats(rows))
        bound == [value |-> contract.value, trigger |-> trigger, award_date |-> day]
        modified == <<"modified_coverage", bound>>
    IN  IF contract.size = "small"
        THEN result("exempt_small_business", <<Null, Null>>,
                    <<<<"small_business_exempt", <<>>>>>>, <<>>)
        ELSE IF contract.nontraditional
        THEN result("review_nontraditional", <<Null, Null>>,
                    <<<<"nontraditional_review", <<>>>>>>, <<>>)
        ELSE IF {} \in {lookups[1], lookups[2]} THEN [error |-> "LookupError"]
        ELSE IF contract.value < trigger
        THEN found("none", <<<<"below_contract_trigger", bound>>>>)
        ELSE IF contract.value >= full
        THEN found("full", <<modified, <<"full_coverage_single_award",
                                         [value |-> contract.value, full |-> full]>>>>)
        ELSE IF cumulative + contract.value >= full
        THEN found("full", <<modified, <<"full_coverage_cumulative",
                                         [value |-> contract.value, full |-> full,
                                          cumulative |-> cumulative]>>>>)
        ELSE found("modified", <<modified>>)

LegacyTina(action) ==
    LET lookup == threshold_in_force("TINA_THRESHOLD", action.action_date)
        row == CHOOSE r \in lookup : TRUE
        result(above, required, applied, unevaluated, reasons) ==
            [error |-> Null, id |-> row.id, value |-> row.value, above_threshold |-> above,
             certification_required |-> required, exception_applied |-> applied,
             unevaluated |-> unevaluated, reasons |-> reasons,
             caveats |-> LegacyCaveats(<<row>>)]
        granted == SelectSeq(TINA_EXCEPTIONS, LAMBDA e : action[e] = TRUE)
        missing == SelectSeq(TINA_EXCEPTIONS, LAMBDA e : action[e] = Null)
        bound == [proposed_value |-> action.proposed_value, th |-> row.value]
    IN  IF lookup = {} THEN [error |-> "LookupError"]
        ELSE IF action.proposed_value = Null
        THEN result(FALSE, Null, Null, <<>>, <<<<"no_proposed_value", <<>>>>>>)
        ELSE IF action.proposed_value <= row.value
        THEN result(FALSE, FALSE, Null, <<>>,
                    <<<<"at_or_below_threshold", bound @@ [action_date |-> action.action_date]>>>>)
        ELSE IF granted # <<>>
        THEN result(TRUE, FALSE, granted[1], PassedOver(action, granted[1]),
                    <<<<granted[1], <<>>>>>>)
        ELSE IF missing # <<>>
        THEN result(TRUE, Null, Null, missing,
                    <<<<"exceptions_pending", [unevaluated_count |-> Len(missing)]>>>>)
        ELSE result(TRUE, TRUE, Null, <<>>, <<<<"certification_required", bound>>>>)

-----------------------------------------------------------------------------
(* Properties *)

Answered(op) == request.op = op /\ answer # Null

SameAs(legacy, extra) ==
    IF legacy.error # Null THEN answer = legacy
    ELSE LET old(f) == IF f = "caveats"
                       THEN SelectSeq(answer.caveats, LAMBDA c : c.rule \notin extra)
                       ELSE answer[f]
         IN  \A f \in DOMAIN legacy : old(f) = legacy[f]

\* "v1 is a PARITY encoding": the tables give what the coded logic gave, for
\* every value on either side of every threshold, exception by exception and
\* on either side of every change of the law, reasons and caveats included,
\* but for the one caveat that was added.
TablesMatchLegacy ==
    /\ Answered("cas") => SameAs(LegacyCas(request.contract, request.contracts),
                                 {"full_coverage_cumulative"})
    /\ Answered("tina") => SameAs(LegacyTina(request.action), {})

\* The comparisons by size in a draft, and those of them that have a number on
\* either side.
RECURSIVE BySize(_)
BySize(node) ==
    IF node.op \in {"all", "any"} THEN UNION {BySize(node.of[i]) : i \in DOMAIN node.of}
    ELSE IF node.op \in ORDERED_OPS THEN {node} ELSE {}
OfNumbers(node, inputs, values) ==
    \A f \in {"lhs", "rhs"} : Operand(node[f], inputs, values) \intersect {Null, Text} = {}

\* "Empty errors => the AST parses against the grammar": a draft reported valid
\* evaluates wherever the inputs and aliases it is reported to reference are
\* given, be they numbers, strings or null; only a comparison by size of what is
\* not a number can still fail.
ValidDraftEvaluates ==
    Answered("draft") /\ answer.valid =>
        \A inputs \in [answer.inputs -> {0, 1, Null, Text}],
           values \in [answer.thresholds -> {0, 1, Null}] :
            (\A node \in BySize(request.node) : OfNumbers(node, inputs, values)) =>
                Matches(request.node, inputs, values) \in {"yes", "no"}

\* Only the checkpoints of the list depend on the day it is made.
Watched == reverification_items(0)
WatchedRules == {pair[2] : pair \in Watched.rules}
WatchedRows == {r.id : r \in Watched.thresholds}

\* Ground rule 3: a determination rests on a threshold or a rule that is not
\* settled only if it says so, and what it says is on the list of things to
\* verify again for as long as it is in force.
UnsettledIsSaid ==
    request.op \in {"cas", "tina", "analysis", "subcontract"} /\ answer # Null /\ answer.error = Null =>
        LET said(f) == {answer.caveats[i][f] : i \in DOMAIN answer.caveats}
            used == IF request.op = "cas" THEN {answer.ids[1], answer.ids[2]} ELSE {answer.id}
        IN  /\ \A row \in SEED_ROWS : row.id \in used /\ row.status # "final_rule"
                   => row.id \in said("row") /\ (row.superseded_date = Null => row.id \in WatchedRows)
            /\ \A i \in DOMAIN answer.fired : answer.fired[i] \in WatchedRules
                   => answer.fired[i] \in said("rule")
=============================================================================
