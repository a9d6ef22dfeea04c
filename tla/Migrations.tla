------------------------------ MODULE Migrations -----------------------------
(***************************************************************************)
(* The enforcement layer of the database and the migrations that build it  *)
(* (alembic/versions, alembic/env.py), next to the guards of the ORM that  *)
(* it backs (govcon/db/guards.py).  A migration is the sequence of its     *)
(* statements.  PostgreSQL runs a command's migrations in one transaction. *)
(* On SQLite the driver commits DDL at once until the first row is written *)
(* and the rest of the migration in one transaction with its stamp.        *)
(*                                                                         *)
(* Columns are left out but where a trigger compares them.  The rows that  *)
(* count are those that cite a row of a table that is rebuilt.             *)
(***************************************************************************)
EXTENDS Integers, Sequences, SequencesExt, FiniteSets

CONSTANTS
    Null,
    Targets,  \* revisions the command line asks for
    Fresh,    \* revisions of the databases there are at first
    MayDie    \* whether a migrating process may be killed

VARIABLES
    dialect,
    stored,   \* the database as committed
    work,     \* the database as the migrating connection sees it
    command,  \* the revision asked for, Null when no command runs
    steps,    \* the statements left of the migration under way
    began,    \* whether the connection is inside a transaction
    halted    \* a migration of this database stopped half way, on SQLite

schema == <<dialect, stored, work, command, steps, began, halted>>

-----------------------------------------------------------------------------
(* Triggers: on an event of a table, when a column changes or a state holds *)

Trigger(name, table, on, when) == [name |-> name, table |-> table, on |-> on, when |-> when]
NoUpdate(table) == Trigger("no_update", table, "UPDATE", {"any"})
NoDelete(table) == Trigger("no_delete", table, "DELETE", {"any"})
AppendOnly(table) == <<NoUpdate(table), NoDelete(table)>>
Frozen(name, table, columns) == Trigger(name, table, "UPDATE", columns)

\* 0001, whose DDL 0011 and 0013 repeat.
DIRECT_NEEDS_CONTRACT_TRIGGER ==
    Trigger("direct_needs_contract", "gl_transactions", "INSERT", {"direct, no contract"})

APPEND_ONLY_TRIGGERS ==
    AppendOnly("gl_transactions") \o AppendOnly("audit_trail") \o <<
    Frozen("immutable_cols", "contracts",
           {"award_date", "tina_threshold_snapshot", "tina_threshold_id",
            "cas_trigger_threshold_snapshot", "cas_trigger_threshold_id"}),
    Trigger("open_period", "gl_transactions", "INSERT", {"period not open"}),
    Trigger("open_period", "jcl_entries", "INSERT", {"period not open"}),
    DIRECT_NEEDS_CONTRACT_TRIGGER>>

PERIOD_TRIGGERS == <<
    Trigger("close_requires_reconciliation", "periods", "UPDATE", {"closed, not passed"}),
    Trigger("no_reopen", "periods", "UPDATE", {"not closed any more"})>>

TINA_BASELINES_LOCKED ==
    Frozen("locked", "tina_baselines",
           {"baseline_date", "price_agreement_date", "contract_id", "action_id"})

REVIEW_GATE == Trigger("review_gate", "audit_notifications", "UPDATE", {"submitted, not reviewed"})

IMMUTABILITY_TRIGGERS == <<
    Frozen("frozen", "standard_costs",
           {"cost_element", "operation_or_product_code", "standard_quantity",
            "standard_rate", "effective_date"}),
    Frozen("frozen", "overhead_budgets",
           {"fixed_overhead_budget", "variable_overhead_rate", "effective_date"}),
    Frozen("identity_frozen", "indirect_pools", {"pool_name", "fiscal_year", "rate_type"}),
    Frozen("locked_frozen", "indirect_pools",
           {"locked", "calculated_rate", "pool_balance", "allocation_base_amount"}),
    Frozen("frozen", "cost_accounting_practices",
           {"practice_area", "disclosed_treatment", "account_code_prefix", "effective_date"})>>

\* 0017, for PostgreSQL: blocks, blocks on a comparison, gates with a function.
UNCONDITIONAL ==
    AppendOnly("audit_trail") \o AppendOnly("gl_transactions")
    \o AppendOnly("regulatory_thresholds") \o AppendOnly("decision_tables")
    \o AppendOnly("decision_rules") \o AppendOnly("tina_sweep_findings")
    \o <<NoDelete("regulatory_suggestions")>>

CONDITIONAL == <<
    Frozen("immutable_cols", "contracts",
           {"award_date", "tina_threshold_snapshot", "tina_threshold_id",
            "cas_trigger_threshold_snapshot", "cas_trigger_threshold_id"}),
    Frozen("frozen", "cost_accounting_practices",
           {"practice_area", "disclosed_treatment", "account_code_prefix", "effective_date"}),
    Frozen("identity_frozen", "indirect_pools", {"pool_name", "fiscal_year", "rate_type"}),
    Frozen("locked_frozen", "indirect_pools",
           {"locked", "calculated_rate", "pool_balance", "allocation_base_amount"}),
    Frozen("frozen", "overhead_budgets",
           {"fixed_overhead_budget", "variable_overhead_rate", "effective_date"}),
    Frozen("frozen", "standard_costs",
           {"cost_element", "operation_or_product_code", "standard_quantity",
            "standard_rate", "effective_date"}),
    Frozen("locked", "tina_baselines",
           {"baseline_date", "price_agreement_date", "contract_id", "action_id"}),
    Trigger("close_requires_reconciliation", "periods", "UPDATE", {"closed, not passed"}),
    Trigger("no_reopen", "periods", "UPDATE", {"not closed any more"}),
    Trigger("review_gate", "audit_notifications", "UPDATE", {"submitted, not reviewed"})>>

GATE_TRIGGERS == <<
    Trigger("open_period", "gl_transactions", "INSERT", {"period not open"}),
    Trigger("open_period", "jcl_entries", "INSERT", {"period not open"}),
    Trigger("direct_needs_contract", "gl_transactions", "INSERT", {"direct, no contract"})>>

BACKSTOP == UNCONDITIONAL \o CONDITIONAL \o GATE_TRIGGERS

-----------------------------------------------------------------------------
(* Statements *)

Do(what, on) == [do |-> what, on |-> on]
CreateTables(names) == [i \in DOMAIN names |-> Do("create_table", names[i])]
DropTables(names) == [i \in DOMAIN names |-> Do("drop_table", names[i])]
CreateTriggers(list) == [i \in DOMAIN list |-> Do("create_trigger", list[i])]
DropTriggers(list) == [i \in DOMAIN list |-> Do("drop_trigger", list[i])]
OnSQLite(d, statements) == IF d = "sqlite" THEN statements ELSE <<>>

\* batch_alter_table: SQLite gets a copy of the table, renamed in its place.
Alter(d, table) ==
    IF d = "sqlite"
    THEN <<Do("create_copy", table), Do("copy_rows", table), Do("drop_table", table),
           Do("rename_copy", table)>>
    ELSE <<Do("alter_table", table)>>

M0001(d) ==
    [up |-> CreateTables(<<"audit_trail", "forward_pricing_rate_agreements", "periods", "persons",
                "regulatory_thresholds", "unallowable_cost_categories", "contracts",
                "indirect_pools", "contract_actions", "gl_accounts", "gl_transactions",
                "jcl_entries">>)
            \o OnSQLite(d, CreateTriggers(APPEND_ONLY_TRIGGERS)),
     down |-> DropTables(<<"jcl_entries", "gl_transactions", "gl_accounts", "contract_actions",
                "indirect_pools", "contracts", "unallowable_cost_categories",
                "regulatory_thresholds", "persons", "periods",
                "forward_pricing_rate_agreements", "audit_trail">>)]

M0002(d) ==
    [up |-> <<Do("insert", "regulatory_thresholds")>>,
     down |-> <<Do("delete_all", "regulatory_thresholds")>>]

M0003(d) ==
    [up |-> CreateTables(<<"gsa_per_diem_rates", "contract_clause_exceptions">>)
            \o <<Do("insert", "unallowable_cost_categories")>>,
     down |-> <<Do("delete_all", "unallowable_cost_categories")>>
            \o DropTables(<<"contract_clause_exceptions", "gsa_per_diem_rates">>)]

M0004(d) ==
    [up |-> CreateTables(<<"cost_accounting_practices", "practice_change_events">>),
     down |-> DropTables(<<"practice_change_events", "cost_accounting_practices">>)]

M0005(d) ==
    [up |-> CreateTables(<<"rate_calculation_runs", "rate_true_ups">>),
     down |-> DropTables(<<"rate_true_ups", "rate_calculation_runs">>)]

M0006(d) ==
    [up |-> CreateTables(<<"ice_schedules", "payroll_registers", "vouchers">>)
            \o OnSQLite(d, CreateTriggers(PERIOD_TRIGGERS)),
     down |-> OnSQLite(d, DropTriggers(PERIOD_TRIGGERS))
            \o DropTables(<<"vouchers", "payroll_registers", "ice_schedules">>)]

M0007(d) ==
    [up |-> CreateTables(<<"tina_baselines", "tina_baseline_assumptions", "tina_sweep_findings">>)
            \o OnSQLite(d, CreateTriggers(<<TINA_BASELINES_LOCKED>>)),
     down |-> OnSQLite(d, DropTriggers(<<TINA_BASELINES_LOCKED>>))
            \o DropTables(<<"tina_sweep_findings", "tina_baseline_assumptions",
                            "tina_baselines">>)]

M0008(d) ==
    [up |-> CreateTables(<<"eichleay_claims", "rea_cda_actions", "rea_cda_line_items">>)
            \o <<Do("insert", "regulatory_thresholds")>>,
     down |-> <<Do("delete_own", "regulatory_thresholds")>>
            \o DropTables(<<"rea_cda_line_items", "rea_cda_actions", "eichleay_claims">>)]

M0009(d) ==
    [up |-> CreateTables(<<"audit_notifications", "audit_alert_log", "audit_response_tasks",
                           "pbr_fluctuation_notes">>)
            \o OnSQLite(d, CreateTriggers(<<REVIEW_GATE>>)),
     down |-> OnSQLite(d, DropTriggers(<<REVIEW_GATE>>))
            \o DropTables(<<"pbr_fluctuation_notes", "audit_response_tasks", "audit_alert_log",
                            "audit_notifications">>)]

M0010(d) ==
    [up |-> CreateTables(<<"overhead_budgets", "standard_costs", "cost_variances">>),
     down |-> DropTables(<<"cost_variances", "standard_costs", "overhead_budgets">>)]

\* Mutant: the gate is dropped around the rebuild and not put back.
M0011GateDropped(d) ==
    [up |-> OnSQLite(d, DropTriggers(<<DIRECT_NEEDS_CONTRACT_TRIGGER>>)) \o Alter(d, "gl_accounts"),
     down |-> OnSQLite(d, DropTriggers(<<DIRECT_NEEDS_CONTRACT_TRIGGER>>))
              \o Alter(d, "gl_accounts")]

\* The gate on gl_transactions reads gl_accounts: dropped, and created again after.
AroundAccounts(d) ==
    OnSQLite(d, DropTriggers(<<DIRECT_NEEDS_CONTRACT_TRIGGER>>))
    \o Alter(d, "gl_accounts")
    \o OnSQLite(d, CreateTriggers(<<DIRECT_NEEDS_CONTRACT_TRIGGER>>))

M0011(d) == [up |-> AroundAccounts(d), down |-> AroundAccounts(d)]

M0012(d) ==
    [up |-> <<Do("insert", "regulatory_thresholds")>>,
     down |-> <<Do("delete_own", "regulatory_thresholds")>>]

APPEND_ONLY_TABLES == AppendOnly("regulatory_thresholds") \o AppendOnly("tina_sweep_findings")

M0013(d) ==
    [up |-> AroundAccounts(d)
            \o OnSQLite(d, CreateTriggers(APPEND_ONLY_TABLES \o IMMUTABILITY_TRIGGERS)),
     down |-> OnSQLite(d, DropTriggers(IMMUTABILITY_TRIGGERS \o APPEND_ONLY_TABLES))
              \o AroundAccounts(d)]

\* _rebuild_status_check, in both directions
M0014(d) ==
    LET rebuild == OnSQLite(d, DropTriggers(AppendOnly("regulatory_thresholds")))
                   \o Alter(d, "regulatory_thresholds")
                   \o OnSQLite(d, CreateTriggers(AppendOnly("regulatory_thresholds")))
    IN  [up |-> rebuild, down |-> rebuild]

M0015(d) ==
    [up |-> CreateTables(<<"decision_tables", "decision_rules">>)
            \o <<Do("insert", "decision_tables"), Do("insert", "decision_rules")>>
            \o OnSQLite(d, CreateTriggers(AppendOnly("decision_tables")
                                          \o AppendOnly("decision_rules"))),
     down |-> DropTables(<<"decision_rules", "decision_tables">>)]

M0016(d) ==
    [up |-> CreateTables(<<"regulatory_suggestions">>)
            \o OnSQLite(d, CreateTriggers(<<NoDelete("regulatory_suggestions")>>)),
     down |-> DropTables(<<"regulatory_suggestions">>)]

M0017(d) ==
    IF d = "sqlite" THEN [up |-> <<>>, down |-> <<>>]
    ELSE [up |-> CreateTriggers(BACKSTOP), down |-> DropTriggers(BACKSTOP)]

versions(d) ==
    <<M0001(d), M0002(d), M0003(d), M0004(d), M0005(d), M0006(d), M0007(d), M0008(d), M0009(d),
      M0010(d), M0011(d), M0012(d), M0013(d), M0014(d), M0015(d), M0016(d), M0017(d)>>
HEAD == 17

-----------------------------------------------------------------------------
(* What a statement does, and when the database refuses it *)

\* Foreign keys into the tables that are rebuilt; enforcement is on (env.py).
ForeignKeys == {<<"gl_transactions", "gl_accounts">>, <<"contracts", "regulatory_thresholds">>}
Cited(table, db) == \E key \in ForeignKeys : key[2] = table /\ key[1] \in db.rows

\* DROP TABLE deletes the rows first, and no foreign key may be left dangling.
\* A table is not renamed into a name that a trigger's condition reads.
Refused(s, db) ==
    CASE s.do = "create_table" -> s.on \in db.tables
      [] s.do = "create_copy" -> s.on \in db.copies
      [] s.do = "drop_table" -> s.on \notin db.tables \/ Cited(s.on, db)
      [] s.do = "rename_copy" -> s.on = "gl_accounts" /\ DIRECT_NEEDS_CONTRACT_TRIGGER \in db.triggers
      [] s.do = "create_trigger" -> s.on \in db.triggers
      [] s.do \in {"delete_own", "delete_all"} ->
            \/ NoDelete(s.on) \in db.triggers
            \/ s.do = "delete_all" /\ Cited(s.on, db)
      [] OTHER -> FALSE

Effect(s, db) ==
    CASE s.do = "create_table" -> [db EXCEPT !.tables = @ \union {s.on}]
      [] s.do = "drop_table" -> [db EXCEPT !.tables = @ \ {s.on}, !.rows = @ \ {s.on},
                                           !.triggers = {t \in @ : t.table # s.on}]
      [] s.do = "create_copy" -> [db EXCEPT !.copies = @ \union {s.on}]
      [] s.do = "rename_copy" -> [db EXCEPT !.copies = @ \ {s.on}, !.tables = @ \union {s.on}]
      [] s.do = "create_trigger" -> [db EXCEPT !.triggers = @ \union {s.on}]
      [] s.do = "drop_trigger" -> [db EXCEPT !.triggers = @ \ {s.on}]
      [] s.do = "stamp" -> [db EXCEPT !.revision = s.on]
      [] OTHER -> db

WritesRows(s) == s.do \in {"insert", "copy_rows", "delete_own", "delete_all", "stamp"}

\* The next migration on the way to the revision asked for, then its stamp.
Plan(revision, target) ==
    IF revision < target
    THEN versions(dialect)[revision + 1].up \o <<Do("stamp", revision + 1)>>
    ELSE IF revision > target
    THEN versions(dialect)[revision].down \o <<Do("stamp", revision - 1)>>
    ELSE <<>>

Empty == [revision |-> 0, tables |-> {}, copies |-> {}, triggers |-> {}, rows |-> {}]

\* A database upgraded from nothing.
Built(d, revision) ==
    FoldLeft(LAMBDA db, s : Effect(s, db), [Empty EXCEPT !.revision = revision],
             FoldLeft(LAMBDA all, m : all \o m.up, <<>>, SubSeq(versions(d), 1, revision)))

-----------------------------------------------------------------------------

SchemaInit ==
    /\ dialect \in {"sqlite", "postgresql"}
    /\ \E revision \in Fresh : stored = Built(dialect, revision)
    /\ work = stored
    /\ command = Null /\ steps = <<>> /\ began = FALSE /\ halted = FALSE

\* `alembic upgrade` and `downgrade`
StartCommand ==
    /\ command = Null
    /\ \E target \in Targets \ {stored.revision} :
          /\ command' = target
          /\ steps' = Plan(stored.revision, target)
    /\ began' = (dialect = "postgresql")
    /\ UNCHANGED <<dialect, stored, work, halted>>

Commits(s) ==
    IF dialect = "sqlite" THEN s.do = "stamp" \/ (~began /\ ~WritesRows(s))
    ELSE s.do = "stamp" /\ s.on = command

\* run_migrations
Run(s) ==
    /\ ~Refused(s, work)
    /\ work' = Effect(s, work)
    /\ stored' = IF Commits(s) THEN work' ELSE stored
    /\ began' = IF s.do = "stamp" THEN dialect = "postgresql" /\ s.on # command
                ELSE began \/ WritesRows(s)
    /\ steps' = IF s.do = "stamp" THEN Plan(s.on, command) ELSE Tail(steps)
    /\ command' = IF s.do = "stamp" /\ s.on = command THEN Null ELSE command
    /\ UNCHANGED <<dialect, halted>>

\* The transaction is rolled back; what was committed on the way stays.
Halt ==
    /\ work' = stored
    /\ command' = Null /\ steps' = <<>> /\ began' = FALSE
    /\ halted' = (halted \/ (dialect = "sqlite" /\ steps # Plan(stored.revision, command)))
    /\ UNCHANGED <<dialect, stored>>

Migrate == command # Null /\ Run(Head(steps))
Fail == command # Null /\ Refused(Head(steps), work) /\ Halt
\* The process is killed (bound: no earlier command stopped half way).
Die == MayDie /\ ~halted /\ command # Null /\ Halt

\* The application writes a row: SQLite has one writer, and on PostgreSQL the
\* locks of the DDL put the write before the command or after it.
WriteRow(table) ==
    /\ IF dialect = "sqlite" THEN ~began ELSE command = Null
    /\ table \in stored.tables
    /\ stored' = [stored EXCEPT !.rows = @ \union {table}]
    /\ work' = stored'
    /\ UNCHANGED <<dialect, command, steps, began, halted>>

AwardContract == stored.revision >= 2 /\ WriteRow("contracts")
PostTransaction == "gl_accounts" \in stored.tables /\ WriteRow("gl_transactions")

SchemaNext ==
    \/ StartCommand
    \/ Migrate
    \/ Fail
    \/ Die
    \/ AwardContract
    \/ PostTransaction

SchemaSpec == SchemaInit /\ [][SchemaNext]_schema

-----------------------------------------------------------------------------
(* Properties *)

Refusals(triggers) == {[table |-> t.table, on |-> t.on, when |-> t.when] : t \in triggers}

\* guards.py
CONTRACT_FROZEN_COLUMNS ==
    {"award_date", "tina_threshold_snapshot", "tina_threshold_id",
     "cas_trigger_threshold_snapshot", "cas_trigger_threshold_id"}
GuardRules ==
    [table : {"gl_transactions", "audit_trail"}, on : {"UPDATE", "DELETE"}, when : {{"any"}}]
    \union {[table |-> "contracts", on |-> "UPDATE", when |-> CONTRACT_FROZEN_COLUMNS],
            [table |-> "gl_transactions", on |-> "INSERT", when |-> {"period not open"}],
            [table |-> "jcl_entries", on |-> "INSERT", when |-> {"period not open"}],
            [table |-> "gl_transactions", on |-> "INSERT", when |-> {"direct, no contract"}]}

\* PostgreSQL has no triggers before 0017.
Enforced == IF dialect = "sqlite" THEN stored.revision >= 1 ELSE stored.revision = HEAD

\* Between commands a database that reached its revision by any way up and
\* down holds the triggers of one built afresh, on both backends the same
\* at the head, and every guard has its trigger.
RevisionsRebuild ==
    command = Null /\ ~halted =>
        /\ stored.triggers = Built(dialect, stored.revision).triggers
        /\ stored.revision = HEAD =>
              Refusals(stored.triggers) = Refusals(ToSet(BACKSTOP))
        /\ Enforced => GuardRules \subseteq Refusals(stored.triggers)

\* At every moment, in the middle of a migration and after one that stopped
\* half way, ledgers, audit trail and contracts keep their own triggers for as
\* long as the tables are there: only the direct-cost gate may be missing.
LedgerStaysGuarded ==
    Enforced =>
        \A rule \in GuardRules :
            rule.table \in stored.tables /\ rule.when # {"direct, no contract"}
                => rule \in Refusals(stored.triggers)

\* "Every rule here has a DB-level backstop (trigger/CHECK) created in
\* migration 0001, so bypassing the ORM still cannot break the rules."
BackstopStands == command = Null /\ Enforced => GuardRules \subseteq Refusals(stored.triggers)
=============================================================================
