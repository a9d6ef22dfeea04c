-------------------------------- MODULE MCEdges --------------------------------
(* Model-checking instance of Application, of Reporting, and of determinations  *)
(* and the schema: a behaviour is about one of their parts (Focus).             *)
EXTENDS Application, Reporting, TLC

CONSTANTS k1, k2, MayDie, Text

VARIABLES
  dialect, stored, work, command, steps, began, halted

schema == <<dialect, stored, work, command, steps, began, halted>>
vars == <<applicationVars, asked, books, schema>>

SchemaOff == /\ dialect = Null /\ stored = Null /\ work = Null /\ command = Null
             /\ steps = Null /\ began = Null /\ halted = Null
ApplicationOff == ai = Null /\ LimiterOff /\ SpacesOff /\ excused = Null

--------------------------------------------------------------------------------
\* Dates on either side of every change of the law; values on either side of
\* every threshold, in thousands; earlier contracts that do and do not count.
Days == {20250930, 20251001, 20260630, 20260701, 20260708}
Values == {1999, 2000, 2001, 2500, 2501, 7499, 7500, 10000, 10001, 35000, 49999,
           50000, 99999, 100000}
PriorContract(value, day, type, superseded) ==
  [value |-> value, award_date |-> day, cas_coverage_type |-> type,
   superseded |-> superseded]
Priors ==
  {<<>>,
   <<PriorContract(15000, 20250501, "modified", FALSE)>>,
   <<PriorContract(65000, 20251231, "full", FALSE),
     PriorContract(50000, 20260101, "full", FALSE)>>,
   <<PriorContract(60000, 20250101, "full", TRUE),
     PriorContract(60000, 20250101, "none", FALSE),
     PriorContract(40000, 20241231, "full", FALSE)>>}

\* Drafts of up to two levels, well-formed and not.
InputOf(key) == [kind |-> "input", key |-> key]
AliasOf(key) == [kind |-> "threshold", key |-> key]
LiteralOf(value) == [kind |-> "literal", value |-> value]
Nothing == [op |-> "always"]
Operands == {InputOf("a"), AliasOf("t"), LiteralOf(1), LiteralOf(Null), LiteralOf(Text),
             InputOf(""), [kind |-> "other"]}
Leaves ==
  {[op |-> "is_null", lhs |-> o] : o \in Operands}
    \union {[op |-> "ge", lhs |-> InputOf("a"), rhs |-> o] : o \in Operands}
    \union {[op |-> "eq", lhs |-> InputOf("a")], [op |-> "is_true"],
            [op |-> "ne", lhs |-> InputOf("a"), rhs |-> LiteralOf(Null)],
            [op |-> "like", lhs |-> InputOf("a"), rhs |-> LiteralOf(1)]}
Groups(members) ==
  {[op |-> g, of |-> m] : g \in {"all", "any"},
     m \in {<<>>} \union {<<x>> : x \in members}
             \union {<<x, y>> : x \in members, y \in members}}
Drafts ==
  {Nothing} \union Leaves \union Groups(Leaves)
    \union Groups({Nothing, [op |-> "all", of |-> <<>>],
         [op |-> "any", of |-> <<[op |-> "lt", lhs |-> AliasOf("t"), rhs |-> InputOf("b")],
                                 [op |-> "is_false", lhs |-> LiteralOf(TRUE)]>>]})

D == INSTANCE Determinations
       WITH Day <- Days, Value <- Values, Prior <- Priors, Draft <- Drafts

\* Amounts that round up, down and to even, a negative one, and zero, in cents
\* and in tenths of a cent; elements of half a cent each.
Element(proposed, probable, base, factor) ==
  [proposed |-> proposed, probable |-> probable, base |-> base, factor |-> factor]
MCCents == {-25, 0, 5, 110}
MCMills == {-255, 0, 5, 1103}
MCElements ==
  {<<>>, <<Element(150, 120, 50, 150)>>,
   <<Element(155, 124, 57, 150), Element(38, 83, 70, 90)>>,
   <<Element(5, 0, 50, 100), [proposed |-> 75, base |-> 50, factor |-> 100],
     Element(5, 0, 50, 100)>>}

--------------------------------------------------------------------------------
\* Two contracts, two periods, an account of each kind, a pool that was revised
\* and one that was not, and postings on either side of the rule change.
AccountRow(code, type, pool, treatments, citation) ==
  [code |-> code, cost_type |-> type, pool_assignment |-> pool,
   treatments |-> treatments, citation |-> citation]
PoolRow(id, name, type, status, rate, base) ==
  [pool_id |-> id, pool_name |-> name, rate_type |-> type, status |-> status,
   rate |-> rate, base |-> base]
Entry(account, contract, period, amount, day) ==
  [account |-> account, contract |-> contract, period |-> period, amount |-> amount, day |-> day]
Job(contract, element, period, amount) ==
  [contract |-> contract, element |-> element, period |-> period, amount |-> amount]
Invoice(contract, period, day, amount) ==
  [contract |-> contract, period |-> period, day |-> day, amount |-> amount]

MCAccount ==
  {AccountRow("5000", "direct", Null, {"cas", "gaap"}, Null),
   AccountRow("6100", "indirect", 1, {"cas"}, Null),
   AccountRow("8000", "unallowable", Null, {}, "31.205-14")}
MCPool == {PoolRow(1, "ga", "provisional", "approved", 2, 30),
           PoolRow(2, "ga", "actual_final", "locked", 3, 20),
           PoolRow(3, "fringe", "actual_final", "approved", 5, 10)}
MCExceptions == {[id |-> 1, contract |-> k1, citation |-> "31.205-14",
                  effective_date |-> 20260807]}
MCPerformance == (k1 :> <<20260701, 20260807>>) @@ (k2 :> <<20260807, 20260809>>)
MCTransactions == {Entry("5000", k1, 1, 3, 20260806), Entry("5000", k1, 1, -3, 20260806),
                   Entry("5000", k2, 2, 3, 20260807), Entry("5000", k1, 2, 3, 20260807),
                   Entry("6100", Null, 1, 3, 20260806), Entry("6100", k1, 2, 3, 20260807),
                   Entry("8000", k1, 1, 3, 20260807)}
MCJobCosts == {Job(k1, "labor", 1, 3), Job(k1, "material", 1, 3), Job(k1, "labor", 1, -3),
               Job(k2, "labor", 2, 3), Job(k1, "labor", 2, 3)}
MCInvoices == {Invoice(k1, 1, 20260807, 3), Invoice(k1, 1, 20260810, 3),
               Invoice(k2, 2, 20260807, 2), Invoice(k2, 1, 20260807, -3)}
MCRegisters == {[period |-> 1, amount |-> 3]}

--------------------------------------------------------------------------------
\* Numbers in a citation count as amounts: "FAR 15.403-4" is $15.403 and $4.  The
\* prose is off by a dollar's rounding and cites more than was returned, quotes a
\* second result, or spells out an amount beyond all bounds.
Returns(amounts, citations) == [amounts |-> amounts, citations |-> citations]
Says(amounts, spelled, citations) ==
  [amounts |-> amounts, spelled |-> spelled, citations |-> citations]
MCPayload == {Returns({12400, 15403, 4000}, {<<"far", "15403", "-4">>}),
              Returns({35000}, {})}
MCProse == {Says({}, {}, {}), Says({11600, 15400}, {}, {<<"far", "15403", "-4", "(b)">>}),
            Says({35499}, {35000, 90000}, {}), Says({36000}, {}, {<<"15403">>})}

\* Tools of each kind and an unknown one; the ceiling is above one call and
\* below three of the dear ones.
MCModelTool == {"determine_cas_coverage", "validate_draft_rule", "lookup_glossary",
                "no_such_tool"}

\* A server without a signing source, with one, with two, and with algorithms
\* of the wrong family; two addresses of which the limiter remembers one.
NoSource == [sources |-> {}, issuer_and_audience |-> FALSE, algs |-> {},
             https |-> FALSE, required_scope |-> FALSE, shared |-> TRUE]
Signed(sources, algs) ==
  [NoSource EXCEPT !.sources = sources, !.algs = algs,
                   !.issuer_and_audience = TRUE, !.required_scope = TRUE]
MCEnvironment == {NoSource, Signed({"secret"}, {}), Signed({"secret", "public_key"}, {}),
                  Signed({"public_key"}, {"HS256"})}
TokenOf(alg, valid, scoped) ==
  [alg |-> alg, valid |-> valid, subject |-> "ann", scoped |-> scoped]
MCToken == {TokenOf("HS256", TRUE, TRUE), TokenOf("HS256", FALSE, TRUE),
            TokenOf("RS256", TRUE, FALSE)}
MCNoToken == [alg |-> "none", valid |-> FALSE, subject |-> "none", scoped |-> FALSE]

\* Databases before the first migration and before the first that rebuilds a
\* table, taken to the head, to the one after that rebuild, and to nothing.
G == INSTANCE Migrations WITH Fresh <- {0, 10}, Targets <- {0, 11, 17}

--------------------------------------------------------------------------------
MCInit ==
  \/ ApplicationInit /\ AskedOff /\ BooksOff /\ SchemaOff
  \/ focus = "determinations" /\ D!Init /\ BooksOff /\ SchemaOff /\ ApplicationOff
  \/ ReportingInit /\ SchemaOff /\ ApplicationOff
  \/ focus = "schema" /\ G!SchemaInit /\ AskedOff /\ BooksOff /\ ApplicationOff

DeterminationStep == focus = "determinations" /\ D!Next
                       /\ UNCHANGED <<applicationVars, books, schema>>
SchemaStep        == focus = "schema" /\ G!SchemaNext
                       /\ UNCHANGED <<applicationVars, asked, books>>

MCNext == \/ ApplicationNext /\ UNCHANGED <<asked, books, schema>>
          \/ ReportingNext /\ UNCHANGED <<ai, limiter, spaces, excused, schema>>
          \/ DeterminationStep \/ SchemaStep

\* The thread that serves an admitted request of the assistant goes on with it:
\* a call of the model returns or times out.
Serving == focus = "assistant" /\ A!ServerStep
             /\ UNCHANGED <<focus, limiter, spaces, excused, asked, books, schema>>

MCSpec == MCInit /\ [][MCNext]_vars /\ WF_vars(Serving)

--------------------------------------------------------------------------------
\* decision_engine.evaluate_table: the tables give what the coded logic gave, on
\* either side of every threshold and every change of the law.
TablesMatchLegacy == focus = "determinations" => D!TablesMatchLegacy

\* rule_authoring.validate_draft_rule: a draft reported valid evaluates wherever its
\* inputs and thresholds are given, unless it compares by size what is no number.
ValidDraftEvaluates == focus = "determinations" => D!ValidDraftEvaluates

\* thresholds.status_caveat: a determination that rests on an unsettled row or rule
\* says so, and the row or rule is on the re-verification list.
UnsettledIsSaid == focus = "determinations" => D!UnsettledIsSaid

\* alembic/versions and guards: a revision has one set of triggers whichever way up
\* and down it was reached, at the head the same on both backends, with one behind
\* every guard; and no migration, even one refused or killed, leaves the ledger,
\* the trail or a contract open to a rewrite while its table is there.
EnforcementStands == focus = "schema" => G!RevisionsRebuild /\ G!LedgerStaysGuarded

\* "Every rule here has a DB-level backstop (trigger/CHECK) created in migration
\* 0001, so bypassing the ORM still cannot break the rules." (db/guards.py)
BackstopStands == focus = "schema" => G!BackstopStands

\* api.app._serve_ai and its stream: a request that was admitted ends, with its
\* session closed, whatever the model and the tools do.
RequestsEnd ==
  (focus = "assistant" /\ ai.phase \notin {"idle", "over"})
    ~> (focus = "assistant" /\ ai.phase = "over" /\ ai.session = "closed")
================================================================================
