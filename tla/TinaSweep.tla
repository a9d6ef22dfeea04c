------------------------------ MODULE TinaSweep -----------------------------
(***************************************************************************)
(* The TINA compliance sweep (govcon/services/tina_sweep.py): one baseline *)
(* whose assumptions are compared with the ledger between the baseline     *)
(* date and the price agreement, and its certification.                    *)
(***************************************************************************)
EXTENDS UnitOfWork, Sequences, FiniteSets, Functions

CONSTANTS
    Assumptions,           \* sequence of the values of assumption_id that may be entered
    Posting,               \* ledger rows that may be posted on the contract
    BaselineValue,         \* baseline_value of each assumption
    Matches,               \* the assumptions named in a posting's source_document
    InWindow,              \* postings dated after the baseline, up to the agreement
    Amount,                \* amount of each posting
    MaterialityThreshold,
    NoMatch                \* the finding of an assumption without later activity

Assumption == {Assumptions[i] : i \in DOMAIN Assumptions}
Keys == {"baseline", "findings"} \union Assumption \union Posting

Init ==
    /\ Start([k \in Keys |->
                 IF k = "baseline" THEN [sweep |-> "not_started", certified |-> FALSE]
                 ELSE IF k = "findings" THEN {} ELSE Absent])
    /\ history = [raced |-> FALSE,   \* a sweep began while another was on
                  late |-> FALSE]    \* something was entered after a sweep

Swept(rows) == rows["baseline"].sweep = "complete"

\* An assumption is entered, or a cost is posted on the contract (the rows have
\* no service of their own and nothing asks whether the baseline is swept).
Enter(s, k) ==
    /\ Begin(s)
    /\ db[k] = Absent /\ work[k] = Absent
    /\ Write(s, Only(k, "entered"))
    /\ history' = [history EXCEPT !.late = @ \/ Swept(db) \/ Swept(work)]
    /\ UNCHANGED call

\* The ledger rows the SELECT for an assumption returns.
Matching(rows, a) ==
    {t \in Posting : rows[t] # Absent /\ t \in InWindow /\ a \in Matches[t]}

\* Mutant: an absolute difference is flagged.
FlaggedAny(variance) == variance > MaterialityThreshold \/ -variance > MaterialityThreshold

\* Only a cost below the baseline value is exposure.
Flagged(variance) == variance > MaterialityThreshold

\* The findings for an assumption; at least one, so that the log is complete.
Compare(rows, a) ==
    IF Matching(rows, a) = {}
    THEN {[assumption |-> a, posting |-> NoMatch, variance |-> 0, flagged |-> FALSE]}
    ELSE {[assumption |-> a, posting |-> t, variance |-> BaselineValue[a] - Amount[t],
           flagged |-> Flagged(BaselineValue[a] - Amount[t])] : t \in Matching(rows, a)}

MayStart(status) == status # "complete"

\* Mutant: the status is not flushed before the reads.
BeginSweepUnflushed(s) == UNCHANGED <<db, work, writer, cache>> /\ s \in Session

\* The status is written first: the sweep holds the chain's lock from here on.
BeginSweep(s) == Flush(s, Only("baseline", [Copy(s, "baseline") EXCEPT !.sweep = "in_progress"]))

\* run_sweep up to its first flush.
StartSweep(s) ==
    /\ Begin(s)
    /\ MayStart(Copy(s, "baseline").sweep)
    /\ BeginSweep(s)
    /\ call' = [call EXCEPT ![s] = [op |-> "start"]]
    /\ history' = [history EXCEPT !.raced = @ \/ Stale(s, "baseline")
                                              \/ \E t \in Session \ {s} : call[t] # Idle]

\* The SELECT of the baseline's assumptions.
ReadAssumptions(s) ==
    /\ call[s].op = "start"
    /\ call' = [call EXCEPT ![s] =
                   [op |-> "match", found |-> {},
                    todo |-> {i \in DOMAIN Assumptions : Sees(s)[Assumptions[i]] # Absent}]]
    /\ UNCHANGED <<db, work, writer, cache, calls, history>>

\* One iteration, in the order of assumption_id: the SELECT of matching
\* postings and the findings it gives.
MatchNext(s) ==
    /\ call[s].op = "match"
    /\ \E i \in call[s].todo :
          /\ \A j \in call[s].todo : i <= j
          /\ call' = [call EXCEPT ![s] =
                         [op |-> "match",
                          found |-> call[s].found \union Compare(Sees(s), Assumptions[i]),
                          todo |-> call[s].todo \ {i}]]
    /\ UNCHANGED <<db, work, writer, cache, calls, history>>

\* The findings are inserted and the status is complete.  Findings are told
\* apart by the sweep they belong to.
FinishSweep(s) ==
    LET sweep == 1 + Cardinality({f.sweep : f \in Sees(s)["findings"]})
        done == [Copy(s, "baseline") EXCEPT !.sweep = "complete"]
        log == Sees(s)["findings"] \union {[sweep |-> sweep, row |-> r] : r \in call[s].found}
    IN  /\ call[s].op = "match" /\ call[s].todo = {}
        /\ writer \in {NoSession, s}
        /\ writer' = s
        /\ work' = [Flushed(s, Only("baseline", done)) EXCEPT !["findings"] = log]
        /\ cache' = Keep(s, Only("baseline", done))
        /\ call' = [call EXCEPT ![s] = Idle]
        /\ UNCHANGED <<db, calls, history>>

MayCertify(status) == status = "complete"

GenerateCertification(s) ==
    /\ Begin(s)
    /\ MayCertify(Copy(s, "baseline").sweep)
    /\ Flush(s, Only("baseline", [Copy(s, "baseline") EXCEPT !.certified = TRUE]))
    /\ UNCHANGED <<call, history>>

Next ==
    \/ SessionStep({"baseline"})
    \/ \E s \in Session :
        \/ \E k \in Assumption \union Posting : Enter(s, k)
        \/ StartSweep(s)
        \/ ReadAssumptions(s)
        \/ MatchNext(s)
        \/ FinishSweep(s)
        \/ GenerateCertification(s)

Spec == Init /\ [][Next]_vars

-----------------------------------------------------------------------------
(* Properties *)

Findings(rows, n) == {f.row : f \in {g \in rows["findings"] : g.sweep = n}}
Sweeps(rows) == {f.sweep : f \in rows["findings"]}

Comparisons(rows) == UNION {Compare(rows, a) : a \in {b \in Assumption : rows[b] # Absent}}

\* "The full set of rows for a baseline IS the sweep log": the findings a
\* transaction commits have a row for every assumption, and compare it with
\* every posting, that had been committed by then, although they were read one
\* by one.
SweepLogComplete ==
    \A n \in Sweeps(db') \ Sweeps(db) :
        /\ \A a \in Assumption : db[a] # Absent =>
              \E f \in Findings(db', n) : f.assumption = a
        /\ {c \in Comparisons(db) : c.posting # NoMatch} \subseteq Findings(db', n)

\* "Refuses to re-run a completed sweep", unless it began from a stale copy or
\* next to another one; findings once committed are never changed.
SweptOnce ==
    /\ db["findings"] \subseteq db'["findings"]
    /\ ~history'.raced => Cardinality(Sweeps(db')) <= 1

\* sweep_delta_report
sweep_delta_report(rows) ==
    LET flagged == {f \in rows["findings"] : f.row.flagged}
    IN  [flagged_count |-> Cardinality(flagged),
         total |-> SumFunction([f \in flagged |-> f.row.variance])]

\* The pairs the government would have bargained over.
Exposed(rows) ==
    {p \in Assumption \X Posting :
        /\ rows[p[1]] # Absent /\ rows[p[2]] # Absent
        /\ p[2] \in InWindow /\ p[1] \in Matches[p[2]]
        /\ Amount[p[2]] + MaterialityThreshold < BaselineValue[p[1]]}

\* "certifying un-swept data is the defective-pricing failure": behind a
\* certificate stands a report that counts each overstated assumption against
\* each posting once, unless something was entered after the sweep or sweeps
\* raced.
CertificateHoldsReport ==
    db["baseline"].certified /\ history = [raced |-> FALSE, late |-> FALSE] =>
        sweep_delta_report(db) =
            [flagged_count |-> Cardinality(Exposed(db)),
             total |-> SumFunction([p \in Exposed(db) |-> BaselineValue[p[1]] - Amount[p[2]]])]
=============================================================================
