------------------------------- MODULE Services -------------------------------
(***************************************************************************)
(* The services that stand on UnitOfWork.  They touch different tables, so *)
(* a behaviour is about one of them: focus, chosen at the start, says      *)
(* which.                                                                  *)
(***************************************************************************)
EXTENDS Integers, FiniteSets

CONSTANTS
    Session, NoSession, NotLoaded, Absent,
    MaxCalls,                                  \* bounds, by focus
    Point, Task, DaysBefore, Window, Day,      \* AuditResponse
    Assumptions, Posting, BaselineValue, Matches, InWindow, PostingAmount,
    MaterialityThreshold, NoMatch,             \* TinaSweep
    MaxVersions, Treatment,                    \* Lineages
    ItemAmount, Threshold, Receipt, None,      \* Claims
    Paid, Spent, Corrected, Cap, PerDiem,      \* LedgerAdjustments
    Suggestion, Target, Documents, Malformed   \* RegulationWatch

ASSUME SessionAssumption == NoSession \notin Session

\* What stands for no row is no row: no suggestion, notification, task, baseline,
\* contract, practice or claim.
ASSUME NullAssumption ==
    \A null \in {Absent, NotLoaded} :
        /\ null \notin [status : {"new", "reviewed", "dismissed"}, rows : {1}]
        /\ null \notin [status : {"notification_received", "document_collection",
                                "management_review", "submitted", "follow_up", "closed"},
                      days : Window, reviewed : BOOLEAN]
        /\ null \notin [status : {"open", "complete", "overdue"}, due : Day]
        /\ null \notin [sweep : {"not_started", "in_progress", "complete"}, certified : BOOLEAN]
        /\ null \notin [version : Nat, terms : Treatment, superseded_by : Nat]
        /\ null \notin [type : {"rea", "cda_claim"}, increase : Int, decrease : Int,
                      required : BOOLEAN \union {None}, status : {"pending", "not_required"},
                      received : Receipt \union {None}, deadline : Int \union {None},
                      interest : Receipt \union {None}]

ASSUME AlertAssumption ==
    /\ Point \intersect Task = {}
    /\ "notification" \notin Point \union Task

ASSUME BaselineAssumption ==
    \A k \in {"baseline", "findings"} : k \notin Posting \union {Assumptions[i] : i \in DOMAIN Assumptions}

\* Values and amounts are in cents; there are finitely many rows to compare.
ASSUME SweepAssumption ==
    /\ IsFiniteSet(DOMAIN Assumptions) /\ IsFiniteSet(Posting)
    /\ \A i \in DOMAIN Assumptions : BaselineValue[Assumptions[i]] \in Int
    /\ \A t \in Posting : PostingAmount[t] \in Int
    /\ MaterialityThreshold \in Int

ASSUME DocumentAssumption ==
    \A i \in DOMAIN Target : \A j \in DOMAIN Documents[Target[i]] :
        Documents[Target[i]][j] \in Suggestion \union {Malformed}

ASSUME VersionsAssumption == MaxVersions \in Nat \ {0}

\* Amounts are in cents, of either sign; days are counted.
ASSUME ClaimAssumption ==
    /\ ItemAmount \subseteq Int
    /\ Threshold \in [{"SAT", "CDA_CLAIM_CERT"} -> Int]
    /\ Receipt \subseteq Int

\* So are what the ledger is posted and corrected with, its cap and the per diem.
ASSUME LedgerAssumption ==
    /\ Paid \subseteq Int /\ Spent \subseteq Int /\ Corrected \subseteq Int
    /\ Cap \in Int /\ PerDiem \in Int

VARIABLES focus, db, work, writer, cache, call, calls, history

vars == <<focus, db, work, writer, cache, call, calls, history>>

Response == INSTANCE AuditResponse WITH MaxCalls <- MaxCalls["response"]
Tina == INSTANCE TinaSweep WITH Amount <- PostingAmount, MaxCalls <- MaxCalls["tina"]
Versions == INSTANCE Lineages WITH MaxCalls <- MaxCalls["versions"]
Claim == INSTANCE Claims WITH Amount <- ItemAmount, MaxCalls <- MaxCalls["claim"]
Ledger == INSTANCE LedgerAdjustments WITH MaxCalls <- MaxCalls["ledger"]
Watch == INSTANCE RegulationWatch WITH MaxCalls <- MaxCalls["watch"]

Init ==
    \/ focus = "response" /\ Response!Init
    \/ focus = "tina" /\ Tina!Init
    \/ focus = "versions" /\ Versions!Init
    \/ focus = "claim" /\ Claim!Init
    \/ focus = "ledger" /\ Ledger!Init
    \/ focus = "watch" /\ Watch!Init

ResponseStep == focus = "response" /\ Response!Next /\ UNCHANGED focus
TinaStep == focus = "tina" /\ Tina!Next /\ UNCHANGED focus
VersionsStep == focus = "versions" /\ Versions!Next /\ UNCHANGED focus
ClaimStep == focus = "claim" /\ Claim!Next /\ UNCHANGED focus
LedgerStep == focus = "ledger" /\ Ledger!Next /\ UNCHANGED focus
WatchStep == focus = "watch" /\ Watch!Next /\ UNCHANGED focus

Next == ResponseStep \/ TinaStep \/ VersionsStep \/ ClaimStep \/ LedgerStep \/ WatchStep

Spec == Init /\ [][Next]_vars

-----------------------------------------------------------------------------
(* Properties *)

\* audit_response.fire_due_alerts: a point fires at most once for a notification,
\* unless two sessions were firing at the same time.
AlertsFireOnce == focus = "response" => Response!AlertsFireOnce

\* audit_response.advance_status and sweep_overdue_tasks: what is committed only
\* moves forward, and beyond the management review only with its sign-off, unless
\* a session worked from a stale copy; a task committed as complete is not shown as
\* overdue again, unless the sweep had selected it before.
WorkflowOnlyAdvances ==
  [][focus = "response" => Response!OnlyForward /\ Response!CompletedStays]_vars

\* tina_sweep.run_sweep: the findings a transaction commits cover every assumption
\* and every matching posting committed by then, though read one by one; a baseline
\* is swept once, unless sweeps raced, and no finding is ever lost.
SweepsAreWhole ==
  [][focus = "tina" => Tina!SweepLogComplete /\ Tina!SweptOnce]_vars

\* tina_sweep.generate_certification: behind a certificate stands a report that
\* counts each overstated assumption against each posting once, unless something
\* was entered after the sweep or sweeps raced.
CertificateHoldsReport == focus = "tina" => Tina!CertificateHoldsReport

\* versioning.supersede_contract and cas_consistency.record_practice_change: the versions
\* of a row are one chain with one current end, unless a superseded row was
\* superseded again, and every version of a practice after the first came with
\* exactly one change event, which names the row it replaced.
OneHistory ==
  focus = "versions" => Versions!OneChain /\ Versions!EveryChangeHasItsEvent

\* rea_cda: in every committed state the totals are the sums of all line items,
\* whichever session added them; and what certification_test and record_co_receipt
\* left on the action fits its items, unless items came later or a call worked on a
\* stale copy.
ClaimFitsItems ==
  focus = "claim" => Claim!TotalsAreSums /\ Claim!TestAndDatesFitTheItems

\* corrections, travel and compensation: every account adds up to the rows that
\* stand, as long as no row is adjusted twice; and however often reclassify_excess
\* runs, it never moves more than the excess over the cap, unless two runs overlap
\* or pay was reduced.
AdjustmentsStand ==
  focus = "ledger" => Ledger!LedgerAddsUp /\ Ledger!NeverMoreThanExcess

\* compensation.reclassify_excess: "nets out what prior runs already moved to the
\* unallowable account and posts only the remaining delta": a run that posts nothing
\* has nothing left to move.
ExcessIsMoved == [][focus = "ledger" => Ledger!ExcessIsMoved]_vars

\* regulation_watch: a suggestion is recorded once, never lost, and a verdict on
\* it outlives every scan.
VerdictsStay == [][focus = "watch" => Watch!VerdictsStay]_vars

\* regulation_watch.scan: what a scan that returned found is recorded; after a
\* clash with another scan's suggestion it may have lost what its own transaction
\* had recorded, and nothing else.
ScanIsComplete == focus = "watch" => Watch!ScanIsComplete

\* regulation_watch._record_doc: "absorb it as already known via a savepoint rather
\* than poisoning the whole transaction": a scan that met a suggestion another one
\* recorded returns with everything it found there.
ScanSurvivesClash == focus = "watch" => Watch!ScanSurvivesClash
=============================================================================
