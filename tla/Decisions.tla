------------------------------ MODULE Decisions -----------------------------
(***************************************************************************)
(* Regulation as data: decision tables over dated thresholds, and the two  *)
(* determinations built on the tables, CAS coverage of a contract and TINA *)
(* applicability of an action (govcon/services/thresholds.py,             *)
(* decision_engine.py, cas_tina.py).                                       *)
(*                                                                         *)
(* The tables too are rows seeded by migrations and frozen by triggers.  A *)
(* reason or caveat is the rule or row it is about.                        *)
(***************************************************************************)
EXTENDS Thresholds, Sequences, SequencesExt, TLC

CONSTANT Text   \* a string, as far as a comparison looks at it

-----------------------------------------------------------------------------
(* Caveats *)

\* Mutant: a statute is taken for settled.
StatusCaveatOfRules(row) ==
    IF row.status \in {"final_rule", "statute"} THEN <<>>
    ELSE <<[row |-> row.id, rule |-> "", carried |-> row.status = "carry_forward"]>>

\* status_caveat: none for a final rule.
status_caveat(row) ==
    IF row.status = "final_rule" THEN <<>>
    ELSE <<[row |-> row.id, rule |-> "", carried |-> row.status = "carry_forward"]>>

-----------------------------------------------------------------------------
(* Rules *)

Input(key) == [kind |-> "input", key |-> key]
Alias(key) == [kind |-> "threshold", key |-> key]
Literal(value) == [kind |-> "literal", value |-> value]
Test(op, lhs) == [op |-> op, lhs |-> lhs]
Compare(op, lhs, rhs) == [op |-> op, lhs |-> lhs, rhs |-> rhs]
Always == [op |-> "always"]

\* A decision_rules row; template is the set of names its reason refers to.
Rule(key, when, outcome, template, stop, status) ==
    [rule_key |-> key, when_ast |-> when, outcome |-> outcome, template |-> template,
     stop |-> stop, status |-> status]

NoOutcome == [c \in {} |-> Null]

CasRules == <<
    Rule("small_business_exempt",
         Compare("eq", Input("contractor_size"), Literal("small")),
         [tier |-> "exempt_small_business"], {}, TRUE, Null),
    Rule("nontraditional_review",
         Test("is_true", Input("is_nontraditional_dc")),
         [tier |-> "review_nontraditional", requires_review |-> TRUE], {}, TRUE, Null),
    Rule("below_contract_trigger",
         Compare("lt", Input("value"), Alias("trigger")),
         NoOutcome, {"value", "trigger", "award_date"}, TRUE, Null),
    Rule("modified_coverage",
         Compare("ge", Input("value"), Alias("trigger")),
         [tier |-> "modified"], {"value", "trigger", "award_date"}, FALSE, Null),
    Rule("full_coverage_single_award",
         Compare("ge", Input("value"), Alias("full")),
         [tier |-> "full", disclosure_required |-> TRUE], {"value", "full"}, TRUE, Null),
    Rule("full_coverage_cumulative",
         Compare("ge", Input("cumulative_plus_value"), Alias("full")),
         [tier |-> "full", disclosure_required |-> TRUE],
         {"cumulative", "value", "full"}, TRUE, "proposed_rule")>>

TINA_EXCEPTIONS ==
    <<"adequate_price_competition", "commercial_product_service", "prices_set_by_law",
      "waiver_granted">>

ExceptionRule(name) ==
    Rule(name, Test("is_true", Input(name)),
         [certification_required |-> FALSE, exception_applied |-> name], {}, TRUE, Null)

TinaGate == <<
    Rule("no_proposed_value", Test("is_null", Input("proposed_value")), NoOutcome, {}, TRUE, Null),
    Rule("at_or_below_threshold",
         Compare("le", Input("proposed_value"), Alias("th")),
         [certification_required |-> FALSE], {"proposed_value", "th", "action_date"}, TRUE, Null),
    Rule("above_threshold",
         Compare("gt", Input("proposed_value"), Alias("th")),
         [above_threshold |-> TRUE], Null, FALSE, Null)>>

\* Mutant: the rule for pending exceptions comes before the exceptions.
TinaLadderPendingFirst == <<
    Rule("exceptions_pending",
         Compare("gt", Input("unevaluated_count"), Literal(0)),
         NoOutcome, {"unevaluated_count"}, TRUE, Null)>>
    \o [i \in DOMAIN TINA_EXCEPTIONS |-> ExceptionRule(TINA_EXCEPTIONS[i])] \o <<
    Rule("certification_required", Always, [certification_required |-> TRUE],
         {"proposed_value", "th"}, TRUE, Null)>>

TinaLadder ==
    [i \in DOMAIN TINA_EXCEPTIONS |-> ExceptionRule(TINA_EXCEPTIONS[i])] \o <<
    Rule("exceptions_pending",
         Compare("gt", Input("unevaluated_count"), Literal(0)),
         NoOutcome, {"unevaluated_count"}, TRUE, Null),
    Rule("certification_required", Always, [certification_required |-> TRUE],
         {"proposed_value", "th"}, TRUE, Null)>>

\* DECISION_TABLE_SEEDS: one version of each table, without end.
DecisionTable(name, context, resolution, initial, rules) ==
    [table_name |-> name, version |-> 1, effective_date |-> Null, superseded_date |-> Null,
     threshold_context |-> context, resolution |-> resolution, initial_outcome |-> initial,
     rules |-> rules]

DECISION_TABLES ==
    {DecisionTable("CAS_COVERAGE",
        <<<<"trigger", "CAS_CONTRACT_TRIGGER">>, <<"full", "CAS_FULL_COVERAGE">>>>, "on_first_use",
        [tier |-> "none", requires_review |-> FALSE, disclosure_required |-> FALSE], CasRules),
     DecisionTable("TINA_APPLICABILITY", <<<<"th", "TINA_THRESHOLD">>>>, "eager",
        [above_threshold |-> FALSE, certification_required |-> Null, exception_applied |-> Null],
        TinaGate \o TinaLadder)}

table_in_force(name, day) ==
    LET rows == {t \in DECISION_TABLES : t.table_name = name /\ InWindow(t, day)}
    IN  IF Cardinality(rows) = 1 THEN rows ELSE {}

-----------------------------------------------------------------------------
(* Evaluation *)

\* _Ctx.operand: the value in a singleton, {} for an authoring error.
Operand(node, inputs, values) ==
    IF node.kind = "literal" THEN {node.value}
    ELSE IF node.kind = "input" /\ node.key \in DOMAIN inputs THEN {inputs[node.key]}
    ELSE IF node.kind = "threshold" /\ node.key \in DOMAIN values THEN {values[node.key]}
    ELSE {}

Unary(op, v) ==
    CASE op = "is_true" -> v = TRUE
      [] op = "is_false" -> v = FALSE
      [] op = "is_null" -> v = Null
      [] op = "not_null" -> v # Null

Comparison(op, a, b) ==
    CASE op = "eq" -> a = b
      [] op = "ne" -> a # b
      [] op = "lt" -> a # b /\ a < b
      [] op = "le" -> a = b \/ a < b
      [] op = "gt" -> a # b /\ a > b
      [] op = "ge" -> a = b \/ a > b

UNARY_OPS == {"is_true", "is_false", "is_null", "not_null"}
ORDERED_OPS == {"lt", "le", "gt", "ge"}
COMPARISON_OPS == ORDERED_OPS \union {"eq", "ne"}

YesNo(b) == IF b THEN "yes" ELSE "no"

\* The first answer that is not the one looked past; Python's all and any stop there.
FirstOther(answers, passed) ==
    LET other == SelectSeq(answers, LAMBDA a : a # passed)
    IN  IF other = <<>> THEN passed ELSE other[1]

\* One comparison. An operand that is absent (a KeyError in the code, which nothing
\* here tells from a ValueError) is an "error", and so is ordering a null.
Leaf(node, inputs, values) ==
    LET side(f) == IF f \in DOMAIN node THEN Operand(node[f], inputs, values) ELSE {}
    IN  IF node.op \in UNARY_OPS
        THEN IF side("lhs") = {} THEN "error"
             ELSE YesNo(\E v \in side("lhs") : Unary(node.op, v))
        ELSE IF \/ node.op \notin COMPARISON_OPS \/ side("lhs") = {} \/ side("rhs") = {}
                \/ node.op \in ORDERED_OPS /\ Null \in side("lhs") \union side("rhs")
             THEN "error"
             ELSE IF /\ node.op \in ORDERED_OPS /\ side("lhs") # side("rhs")
                     /\ Text \in side("lhs") \union side("rhs")
             THEN "crash"
             ELSE YesNo(\E a \in side("lhs"), b \in side("rhs") : Comparison(node.op, a, b))

\* _matches: "yes", "no", "error" for a ValueError, or "crash" for the TypeError
\* of ordering a number and a string.
RECURSIVE Matches(_, _, _)
Matches(node, inputs, values) ==
    IF node.op = "always" THEN "yes"
    ELSE IF node.op \in {"all", "any"}
    THEN FirstOther([i \in DOMAIN node.of |-> Matches(node.of[i], inputs, values)],
                    IF node.op = "all" THEN "yes" ELSE "no")
    ELSE Leaf(node, inputs, values)

RECURSIVE ReferencesThreshold(_)
ReferencesThreshold(node) ==
    IF node.op \in {"all", "any"} THEN \E i \in DOMAIN node.of : ReferencesThreshold(node.of[i])
    ELSE \E f \in DOMAIN node \ {"op"} : node[f].kind = "threshold"

Aliases(table) == {table.threshold_context[i][1] : i \in DOMAIN table.threshold_context}

UsesThresholds(rule, table) ==
    \/ ReferencesThreshold(rule.when_ast)
    \/ rule.template # Null /\ rule.template \intersect Aliases(table) # {}

\* All of the context, in one go; a gap in the thresholds ends the evaluation.
Resolve(st, table, day) ==
    LET context == table.threshold_context
        found(i) == threshold_in_force(context[i][2], day)
        row(i) == CHOOSE r \in found(i) : TRUE
    IN  IF \E i \in DOMAIN context : found(i) = {} THEN [st EXCEPT !.error = "LookupError"]
        ELSE [st EXCEPT
                !.rows = [a \in Aliases(table) |->
                             row(CHOOSE i \in DOMAIN context : context[i][1] = a)],
                !.caveats = @ \o FlattenSeq([i \in DOMAIN context |-> status_caveat(row(i))])]

Values(st) == [a \in DOMAIN st.rows |-> st.rows[a].value]

\* A rule that matched.
Fire(st, rule, inputs) ==
    LET names == inputs @@ Values(st)
    IN  IF rule.template # Null /\ ~(rule.template \subseteq DOMAIN names)
        THEN [st EXCEPT !.error = "ValueError"]
        ELSE [st EXCEPT
                !.fired = Append(@, rule.rule_key),
                !.outcome = rule.outcome @@ @,
                !.reasons = IF rule.template = Null THEN @
                            ELSE Append(@, <<rule.rule_key, [n \in rule.template |-> names[n]]>>),
                !.caveats = IF rule.status \in {Null, "final_rule"} THEN @
                            ELSE Append(@, [row |-> 0, rule |-> rule.rule_key, carried |-> FALSE]),
                !.stopped = rule.stop]

Judge(st, rule, inputs, verdict) ==
    CASE verdict = "error" -> [st EXCEPT !.error = "ValueError"]
      [] verdict = "crash" -> [st EXCEPT !.error = "TypeError"]
      [] verdict = "no" -> st
      [] verdict = "yes" -> Fire(st, rule, inputs)

Apply(st, rule, inputs) ==
    IF st.error # Null THEN st
    ELSE Judge(st, rule, inputs, Matches(rule.when_ast, inputs, Values(st)))

EvaluateRule(st, rule, table, day, inputs) ==
    IF st.stopped \/ st.error # Null THEN st
    ELSE Apply(IF st.rows = <<>> /\ UsesThresholds(rule, table)
               THEN Resolve(st, table, day) ELSE st, rule, inputs)

Evaluate(table, day, inputs) ==
    LET start == [outcome |-> table.initial_outcome, reasons |-> <<>>, caveats |-> <<>>,
                  rows |-> <<>>, fired |-> <<>>, stopped |-> FALSE, error |-> Null]
        ready == IF table.resolution = "eager" THEN Resolve(start, table, day) ELSE start
    IN  FoldLeft(LAMBDA st, rule : EvaluateRule(st, rule, table, day, inputs), ready, table.rules)

EvaluateFound(tables, day, inputs) ==
    IF tables = {} THEN [error |-> "LookupError"]
    ELSE Evaluate(CHOOSE t \in tables : TRUE, day, inputs)

evaluate_table(name, day, inputs) == EvaluateFound(table_in_force(name, day), day, inputs)

-----------------------------------------------------------------------------
(* Determinations *)

Year(day) == day \div 10000

\* _cumulative_prior_year_cas_awards
Cumulative(contracts, day) ==
    LET counted == SelectSeq(contracts, LAMBDA c : /\ c.cas_coverage_type # "none"
                                                   /\ Year(c.award_date) = Year(day) - 1
                                                   /\ ~c.superseded)
    IN  FoldLeft(LAMBDA sum, c : sum + c.value, 0, counted)

CasInputs(contract, contracts) ==
    LET cumulative == Cumulative(contracts, contract.award_date)
    IN  [contractor_size |-> contract.size, is_nontraditional_dc |-> contract.nontraditional,
         value |-> contract.value, cumulative |-> cumulative,
         cumulative_plus_value |-> cumulative + contract.value,
         award_date |-> contract.award_date]

RowId(ev, alias) == IF alias \in DOMAIN ev.rows THEN ev.rows[alias].id ELSE Null

CasAnswer(ev) ==
    IF ev.error # Null THEN [error |-> ev.error]
    ELSE [error |-> Null, tier |-> ev.outcome.tier,
          requires_review |-> ev.outcome.requires_review,
          disclosure_required |-> ev.outcome.disclosure_required,
          ids |-> <<RowId(ev, "trigger"), RowId(ev, "full")>>,
          reasons |-> ev.reasons, caveats |-> ev.caveats, fired |-> ev.fired]

determine_cas_coverage(contract, contracts) ==
    CasAnswer(evaluate_table("CAS_COVERAGE", contract.award_date, CasInputs(contract, contracts)))

Unevaluated(action) == SelectSeq(TINA_EXCEPTIONS, LAMBDA e : action[e] = Null)

TinaInputs(action) ==
    [proposed_value |-> action.proposed_value, action_date |-> action.action_date,
     unevaluated_count |-> Len(Unevaluated(action))]
    @@ [e \in {TINA_EXCEPTIONS[i] : i \in 1..4} |-> action[e]]

\* Exceptions without an answer that come before the one applied.
PassedOver(action, applied) ==
    LET before == IF applied = Null THEN TINA_EXCEPTIONS
                  ELSE SubSeq(TINA_EXCEPTIONS, 1,
                              (CHOOSE i \in 1..4 : TINA_EXCEPTIONS[i] = applied) - 1)
    IN  SelectSeq(before, LAMBDA e : action[e] = Null)

TinaAnswer(action, ev) ==
    IF ev.error # Null THEN [error |-> ev.error]
    ELSE [error |-> Null, id |-> ev.rows["th"].id, value |-> ev.rows["th"].value,
          above_threshold |-> ev.outcome.above_threshold,
          certification_required |-> ev.outcome.certification_required,
          exception_applied |-> ev.outcome.exception_applied,
          unevaluated |-> IF ev.outcome.above_threshold
                          THEN PassedOver(action, ev.outcome.exception_applied) ELSE <<>>,
          reasons |-> ev.reasons, caveats |-> ev.caveats, fired |-> ev.fired]

determine_tina_applicability(action) ==
    TinaAnswer(action,
               evaluate_table("TINA_APPLICABILITY", action.action_date, TinaInputs(action)))

-----------------------------------------------------------------------------
(* Determinations that follow from TINA's (pricing_analysis.py) *)

AnalysisAnswer(tina) ==
    IF tina.error # Null THEN tina
    ELSE [error |-> Null, id |-> tina.id, caveats |-> tina.caveats, fired |-> tina.fired,
          analysis_required |->
              CASE tina.certification_required = TRUE -> "cost_analysis"
                [] tina.certification_required = FALSE -> "price_analysis"
                [] OTHER -> "pending"]

determine_price_or_cost_analysis(action) == AnalysisAnswer(determine_tina_applicability(action))

SUBCONTRACT_ABSOLUTE == 20000

determine_subcontract_certified_data(prime, sub, day) ==
    LET lookup == threshold_in_force("TINA_THRESHOLD", day)
        row == CHOOSE r \in lookup : TRUE
    IN  IF lookup = {} THEN [error |-> "LookupError"]
        ELSE [error |-> Null, id |-> row.id, caveats |-> status_caveat(row), fired |-> <<>>,
              certified_data_required |-> \/ sub > row.value /\ 10 * sub > prime
                                          \/ sub >= SUBCONTRACT_ABSOLUTE]

-----------------------------------------------------------------------------
(* What to look at again *)

\* reverification_items: standing items for what is not settled and not superseded.
NonFinalRows == {r \in SEED_ROWS : r.status # "final_rule" /\ r.superseded_date = Null}
NonFinalRules ==
    UNION {{<<t.table_name, t.rules[i].rule_key>> : i \in
               {j \in DOMAIN t.rules : t.rules[j].status \notin {Null, "final_rule"}}} :
           t \in {u \in DECISION_TABLES : u.superseded_date = Null}}

DATE_CHECKPOINTS == {20260723, 20260807}
CheckpointsDue(as_of) == {day \in DATE_CHECKPOINTS : as_of >= day}

reverification_items(as_of) ==
    [due |-> CheckpointsDue(as_of), thresholds |-> NonFinalRows, rules |-> NonFinalRules]
=============================================================================
