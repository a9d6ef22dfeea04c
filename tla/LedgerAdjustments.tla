-------------------------- MODULE LedgerAdjustments -------------------------
(***************************************************************************)
(* What is done to the append-only general ledger after the fact:          *)
(* corrections (govcon/services/corrections.py), per diem splits           *)
(* (travel.py) and the reclassification of executive compensation over the *)
(* cap (compensation.py).  Each is a series of post_transaction calls, one *)
(* flush each, in the caller's transaction.                                *)
(***************************************************************************)
EXTENDS UnitOfWork, Sequences, FiniteSets, Functions

CONSTANTS
    Paid,         \* compensation payments that may be posted
    Spent,        \* travel expenses that may be submitted
    Corrected,    \* amounts a correction may put in place of a posted one
    Cap,          \* EXEC_COMP_CAP in force, positive
    PerDiem       \* the cap of a trip: rates times nights

NoOriginal == 0

Init ==
    /\ Start(Only("ledger", <<>>))
    /\ history = [raced |-> FALSE,     \* two reclassifications at the same time
                  twice |-> FALSE,     \* a reversal or a row already superseded was adjusted
                  reduced |-> FALSE]   \* compensation went down after a payment

Ledger(s) == Sees(s)["ledger"]

\* A row: superseded_by is on the new rows and names the row they replace; note
\* is what its source_document begins with.
Entry(account, amount, original, note) ==
    [account |-> account, amount |-> amount, superseded_by |-> original, note |-> note]

\* The rows of an account, and what some of the rows add up to.
OnAccount(rows, account) == {i \in DOMAIN rows : rows[i].account = account}
AddUp(rows, set) == SumFunctionOnSet([i \in DOMAIN rows |-> rows[i].amount], set)

\* The call's rows are posted one after the other.
Post(s, rows) == call' = [call EXCEPT ![s] = [op |-> "post", rows |-> rows]]

PostTransaction(s) ==
    /\ call[s].op = "post"
    /\ Write(s, Only("ledger", Append(Ledger(s), Head(call[s].rows))))
    /\ call' = [call EXCEPT ![s] = IF Len(@.rows) = 1 THEN Idle
                                   ELSE [op |-> "post", rows |-> Tail(@.rows)]]
    /\ UNCHANGED <<calls, history>>

\* Payments, one that is taken back as a negative amount among them, ...
PostPayment(s) ==
    /\ Begin(s)
    /\ \E amount \in Paid :
          /\ Post(s, <<Entry("compensation", amount, NoOriginal, "entry")>>)
          /\ history' = [history EXCEPT !.reduced = @ \/ amount < 0]
    /\ UNCHANGED <<db, work, writer, cache>>

\* ... and expenses.
PostExpense(s) ==
    /\ Begin(s)
    /\ \E amount \in Spent : Post(s, <<Entry("travel", amount, NoOriginal, "entry")>>)
    /\ UNCHANGED <<db, work, writer, cache, history>>

Adjusted(rows, i) == \E j \in DOMAIN rows : rows[j].superseded_by = i

\* Two adjustments of a row, one of them perhaps under way.
NoteAdjustment(s, i) ==
    history' = [history EXCEPT
        !.twice = @ \/ Ledger(s)[i].note = "reversal"
                    \/ Adjusted(db["ledger"], i) \/ Adjusted(work["ledger"], i)
                    \/ \E t \in Session : call[t].op = "post" /\ call[t].rows[1].superseded_by = i,
        !.reduced = @ \/ Ledger(s)[i].account = "compensation"]

\* Mutant: the reversal is not negated.
ReversalKept(row, i) == Entry(row.account, row.amount, i, "reversal")
Reversal(row, i) == Entry(row.account, -row.amount, i, "reversal")

\* post_correction: the reversal and the replacement, on the original's account.
PostCorrection(s, i) ==
    LET original == Ledger(s)[i]
    IN  /\ i \in DOMAIN Ledger(s) /\ Begin(s)
        /\ \E amount \in Corrected :
              Post(s, <<Reversal(original, i), Entry(original.account, amount, i, "entry")>>)
        /\ NoteAdjustment(s, i)
        /\ UNCHANGED <<db, work, writer, cache>>

\* split_travel_expense: nothing within per diem; else a reversal, the allowable
\* part and the excess.
SplitTravelExpense(s, i) ==
    LET original == Ledger(s)[i]
    IN  /\ i \in DOMAIN Ledger(s) /\ Begin(s)
        /\ original.account = "travel"
        /\ original.amount > PerDiem
        /\ Post(s, <<Reversal(original, i), Entry("travel", PerDiem, i, "entry"),
                        Entry("unallowable", original.amount - PerDiem, i, "entry")>>)
        /\ NoteAdjustment(s, i)
        /\ UNCHANGED <<db, work, writer, cache>>

Excess(rows) ==
    LET over == AddUp(rows, OnAccount(rows, "compensation")) - Cap
    IN  IF over > 0 THEN over ELSE 0

\* The rows of earlier reclassifications, by their note.
Already(rows) ==
    AddUp(rows, {i \in OnAccount(rows, "unallowable") : rows[i].note = "reclass"})

\* reclassify_excess up to its first flush: the year's compensation and what
\* has been reclassified are read.  The unallowable account is no compensation
\* account.
ReclassifyExcess(s) ==
    LET remaining == Excess(Ledger(s)) - Already(Ledger(s))
    IN  /\ Begin(s)
        /\ IF remaining <= 0 THEN UNCHANGED call
           ELSE Post(s, <<Entry("compensation", -remaining, NoOriginal, "reclass"),
                             Entry("unallowable", remaining, NoOriginal, "reclass")>>)
        /\ history' = [history EXCEPT
               !.raced = @ \/ (writer \notin {NoSession, s})
                           \/ \E t \in Session : call[t].op = "post"]
        /\ UNCHANGED <<db, work, writer, cache>>

Next ==
    \/ SessionStep({})
    \/ \E s \in Session :
        \/ PostTransaction(s)
        \/ PostPayment(s)
        \/ PostExpense(s)
        \/ \E i \in DOMAIN Ledger(s) : PostCorrection(s, i) \/ SplitTravelExpense(s, i)
        \/ ReclassifyExcess(s)

Spec == Init /\ [][Next]_vars

-----------------------------------------------------------------------------
(* Properties *)

\* Rows that stand: not replaced, and not there to take one back.
Standing(rows) == {i \in DOMAIN rows : ~Adjusted(rows, i) /\ rows[i].note # "reversal"}

\* "Correct a posted transaction in one unit of work": on every account the
\* ledger adds up to the rows that stand, however corrections and splits follow
\* each other, as long as no row is adjusted twice and no reversal is.
LedgerAddsUp ==
    LET rows == db["ledger"]
    IN  ~history.twice =>
          \A account \in {"compensation", "travel", "unallowable"} :
             AddUp(rows, OnAccount(rows, account)) =
                AddUp(rows, OnAccount(rows, account) \intersect Standing(rows))

\* What the person was paid, however it is classified now.
PaidOut(rows) ==
    AddUp(rows, {i \in OnAccount(rows, "compensation") : rows[i].note # "reclass"})

Over(rows) == IF PaidOut(rows) > Cap THEN PaidOut(rows) - Cap ELSE 0

\* "Idempotent": however often it is run, never more than the excess over the
\* cap is moved to the unallowable account, unless two runs were under way at
\* once or compensation was corrected afterwards.
NeverMoreThanExcess ==
    ~history.raced /\ ~history.reduced => Already(db["ledger"]) <= Over(db["ledger"])

\* "nets out what prior runs already moved to the unallowable account and posts
\* only the remaining delta": a run that posts nothing has nothing left to move;
\* everything paid over the cap is on the unallowable account.
ExcessIsMoved ==
    \A s \in Session :
        ReclassifyExcess(s) /\ call'[s] = Idle => Already(Ledger(s)) >= Over(Ledger(s))
=============================================================================
