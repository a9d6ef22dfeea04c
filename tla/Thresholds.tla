------------------------------ MODULE Thresholds ------------------------------
(***************************************************************************)
(* Thresholds and statuses of the law as dated rows                        *)
(* (govcon/services/thresholds.py).  Nothing here is written by the        *)
(* program: rows are seeded by migrations and frozen by triggers.  Values  *)
(* are in thousands of dollars, dates are written yyyymmdd.                *)
(***************************************************************************)
EXTENDS Integers, FiniteSets

CONSTANT Null   \* None: an open end, a column or an answer that is not there

-----------------------------------------------------------------------------
(* Dated rows *)

Threshold(id, name, value, from, until, status) ==
    [id |-> id, rule_name |-> name, value |-> value, effective_date |-> from,
     superseded_date |-> until, status |-> status]

\* SEED of the migrations 0002, 0008 and 0012, in the order of their ids.
SEED_ROWS ==
    {Threshold(1, "TINA_THRESHOLD", 2000, Null, 20251001, "final_rule"),
     Threshold(2, "TINA_THRESHOLD", 2500, 20251001, 20260701, "final_rule"),
     Threshold(3, "TINA_THRESHOLD", 10000, 20260701, Null, "class_deviation"),
     Threshold(4, "CAS_CONTRACT_TRIGGER", 7500, Null, 20260701, "final_rule"),
     Threshold(5, "CAS_CONTRACT_TRIGGER", 35000, 20260701, Null, "statute"),
     Threshold(6, "CAS_FULL_COVERAGE", 50000, Null, 20260701, "final_rule"),
     Threshold(7, "CAS_FULL_COVERAGE", 100000, 20260701, Null, "statute"),
     Threshold(8, "SAT", 350, 20251001, Null, "final_rule"),
     Threshold(9, "CAS_407_STATUS", Null, Null, Null, "proposed_rule"),
     Threshold(10, "CAS_408_STATUS", Null, 20260807, Null, "final_rule"),
     Threshold(11, "CAS_411_STATUS", Null, 20260807, Null, "final_rule"),
     Threshold(12, "CDA_CLAIM_CERT", 100, Null, Null, "statute"),
     Threshold(13, "EXEC_COMP_CAP", 646, 20240101, 20250101, "statute"),
     Threshold(14, "EXEC_COMP_CAP", 671, 20250101, 20260101, "statute")}

\* Windows are half-open.
InWindow(row, day) ==
    /\ row.effective_date = Null \/ row.effective_date <= day
    /\ row.superseded_date = Null \/ row.superseded_date > day

\* threshold_in_force: {} stands for the LookupError, of no row or of several.
threshold_in_force(name, day) ==
    LET rows == {row \in SEED_ROWS : row.rule_name = name /\ InWindow(row, day)}
    IN  IF Cardinality(rows) = 1 THEN rows ELSE {}
===============================================================================
