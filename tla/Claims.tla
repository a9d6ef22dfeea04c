------------------------------- MODULE Claims -------------------------------
(***************************************************************************)
(* A request for equitable adjustment or a CDA claim                       *)
(* (govcon/services/rea_cda.py): its line items, the totals computed from  *)
(* them, the certification test and the dates of the CO's receipt.         *)
(***************************************************************************)
EXTENDS UnitOfWork, Sequences, Functions

CONSTANTS
    Amount,       \* amounts of line items, increases and decreases
    Threshold,    \* threshold in force, by rule
    Receipt,      \* days on which the CO may receive the claim
    None          \* a column that is null

CDA_DECISION_WINDOW_DAYS == 60

Keys == {"action", "items"}

Init ==
    /\ \E type \in {"rea", "cda_claim"} :
          Start([k \in Keys |->
                    IF k = "items" THEN <<>>
                    ELSE [type |-> type, increase |-> 0, decrease |-> 0,
                          required |-> None, status |-> "pending", received |-> None,
                          deadline |-> None, interest |-> None]])
    /\ history = [stale |-> FALSE,   \* a call used a copy the row had left behind
                  late |-> FALSE]    \* an item was added after a test or a receipt

Abs(n) == IF n < 0 THEN -n ELSE n

\* The line items that increase the price and those that decrease it, by number.
Positive(items) == {i \in DOMAIN items : items[i] > 0}
Negative(items) == {i \in DOMAIN items : items[i] < 0}

\* Mutant: totals are carried on from the copy in hand.
TotalsCarried(copy, items) ==
    LET last == items[Len(items)]
    IN  [copy EXCEPT !.increase = @ + (IF last > 0 THEN last ELSE 0),
                     !.decrease = @ + (IF last < 0 THEN last ELSE 0)]

\* recompute_totals
Totals(copy, items) ==
    [copy EXCEPT !.increase = SumFunctionOnSet(items, Positive(items)),
                 !.decrease = SumFunctionOnSet(items, Negative(items))]

\* add_line_item: the item is flushed, ...
AddLineItem(s) ==
    /\ Begin(s)
    /\ \E amount \in Amount : Write(s, Only("items", Append(Sees(s)["items"], amount)))
    /\ call' = [call EXCEPT ![s] = [op |-> "totals"]]
    /\ history' = [history EXCEPT !.late = @ \/ Sees(s)["action"].required # None
                                             \/ Sees(s)["action"].received # None]

\* ... then the totals are recomputed from the table.
RecomputeTotals(s) ==
    /\ call[s].op = "totals"
    /\ Flush(s, Only("action", Totals(Copy(s, "action"), Sees(s)["items"])))
    /\ call' = [call EXCEPT ![s] = Idle]
    /\ UNCHANGED <<calls, history>>

\* "never the net"
Magnitude(copy) == Abs(copy.increase) + Abs(copy.decrease)

Rule(copy) == IF copy.type = "rea" THEN "SAT" ELSE "CDA_CLAIM_CERT"

\* A status once NOT_REQUIRED stays so when a later test requires the
\* certification.
Tested(copy) ==
    LET required == Magnitude(copy) > Threshold[Rule(copy)]
    IN  [copy EXCEPT !.required = required,
                     !.status = IF required THEN @ ELSE "not_required"]

NoteStale(s) == history' = [history EXCEPT !.stale = @ \/ Stale(s, "action")]

CertificationTest(s) ==
    /\ Begin(s)
    /\ Flush(s, Only("action", Tested(Copy(s, "action"))))
    /\ NoteStale(s)
    /\ UNCHANGED call

Deadline(copy, day) ==
    IF Magnitude(copy) <= Threshold["CDA_CLAIM_CERT"] THEN day + CDA_DECISION_WINDOW_DAYS
    ELSE None   \* the CO must set a firm date

Received(copy, day) ==
    IF copy.type = "rea" THEN [copy EXCEPT !.received = day]
    ELSE [copy EXCEPT !.received = day, !.interest = day, !.deadline = Deadline(copy, day)]

RecordCOReceipt(s) ==
    /\ Begin(s)
    /\ \E day \in Receipt : Flush(s, Only("action", Received(Copy(s, "action"), day)))
    /\ NoteStale(s)
    /\ UNCHANGED call

Next ==
    \/ SessionStep({"action"})
    \/ \E s \in Session : \/ AddLineItem(s)
                          \/ RecomputeTotals(s)
                          \/ CertificationTest(s)
                          \/ RecordCOReceipt(s)

Spec == Init /\ [][Next]_vars

-----------------------------------------------------------------------------
(* Properties *)

\* "Totals are sums over line items": of all of them, in every committed
\* state, whichever sessions added them from whatever copies of the action.
TotalsAreSums ==
    /\ db["action"].increase + db["action"].decrease = SumFunction(db["items"])
    /\ db["action"].increase = SumFunctionOnSet(db["items"], Positive(db["items"]))

\* The sum of absolute values of the items.
Gross(items) == SumFunction([i \in DOMAIN items |-> Abs(items[i])])

\* "ABS(increases) + ABS(decreases), NEVER the net": what the test and the
\* receipt left on the action is right for its items, unless items were added
\* later or a call worked on a stale copy; an REA never gets a deadline or
\* interest, not even then.
TestAndDatesFitTheItems ==
    LET action == db["action"]
        small == Gross(db["items"]) <= Threshold[Rule(action)]
    IN  /\ action.type = "rea" => action.deadline = None /\ action.interest = None
        /\ ~history.late /\ ~history.stale =>
             /\ action.required # None => action.required = ~small
             /\ action.type = "cda_claim" /\ action.received # None =>
                   /\ action.interest = action.received
                   /\ action.deadline = IF small THEN action.received + 60 ELSE None
=============================================================================
