--------------------------- MODULE RegulationWatch --------------------------
(***************************************************************************)
(* The regulation watch (govcon/services/regulation_watch.py): scans that  *)
(* record what the Federal Register has on the watched rules, and people   *)
(* who review the suggestions.                                             *)
(***************************************************************************)
EXTENDS UnitOfWork, Sequences

CONSTANTS
    Suggestion,   \* (source, document, watched rule)
    Target,       \* sequence of the watched rules that have a search term
    Documents,    \* what the source offers on each rule, as a sequence
    Malformed     \* a document without number or with an unreadable date

Keys == Suggestion

Init ==
    /\ Start([k \in Keys |-> Absent])
    /\ history = [reported |-> {}]   \* what scans that came to their end looked at

\* A search either fails, which is reported and leaves the rule out, or gives
\* the documents on it: a scan goes through places <<rule, document>> in order.
Places(up) == UNION {{i} \X DOMAIN Documents[Target[i]] : i \in up}
At(p) == Documents[Target[p[1]]][p[2]]
Before(p, q) == p[1] < q[1] \/ (p[1] = q[1] /\ p[2] < q[2])

Known(s) == {k \in Suggestion : Sees(s)[k] # Absent}

\* scan up to its first document: what is known is read once.  Searches do
\* not depend on the database.  lost is for the properties: what a clash takes
\* back of the transaction's own suggestions.
StartScan(s) ==
    /\ Begin(s)
    /\ \E up \in SUBSET (DOMAIN Target) :
          call' = [call EXCEPT ![s] = [op |-> "scan", known |-> Known(s), todo |-> Places(up),
                                       page |-> {At(p) : p \in Places(up)} \ {Malformed},
                                       lost |-> {}]]
    /\ UNCHANGED <<db, work, writer, cache, history>>

\* Mutant: no unique constraint.
ClashesNever(s, k) == k = Malformed /\ call[s].op = "scan"

\* uq_regulatory_suggestions_doc_rule
Clashes(s, k) == Sees(s)[k] # Absent

New(row) == [status |-> "new", rows |-> IF row = Absent THEN 1 ELSE row.rows + 1]

\* Mutant: the first document that is skipped ends the scan.
RestNone(todo, p) == {}
Rest(todo, p) == todo \ {p}

\* The next place of a scan.
IsNext(s, p) == p \in call[s].todo /\ \A q \in call[s].todo \ {p} : Before(p, q)

\* A document without number, or known, is skipped.
SkipDocument(s) ==
    /\ call[s].op \in {"scan", "poisoned"}
    /\ \E p \in call[s].todo :
          /\ IsNext(s, p) /\ At(p) \in call[s].known \union {Malformed}
          /\ call' = [call EXCEPT ![s].todo = Rest(@, p)]
    /\ UNCHANGED <<db, work, writer, cache, calls, history>>

RecordDocument(s) ==
    /\ call[s].op = "scan"
    /\ \E p \in call[s].todo :
          /\ IsNext(s, p) /\ At(p) \notin call[s].known \union {Malformed}
          /\ ~Clashes(s, At(p))
          /\ Write(s, Only(At(p), New(Sees(s)[At(p)])))
          /\ call' = [call EXCEPT ![s].todo = @ \ {p}, ![s].known = @ \union {At(p)}]
    /\ UNCHANGED <<calls, history>>

\* What the session's transaction has recorded and not committed.
Unsaved(s) == {k \in Suggestion : Sees(s)[k] # Absent /\ db[k] = Absent}

\* Somebody else recorded the document.  begin_nested flushes what is pending
\* before it sets the savepoint, so the error takes the transaction with it:
\* the document counts as known, and the session refuses everything but a
\* rollback, at the next document or at the commit.
DuplicateDocument(s) ==
    /\ call[s].op = "scan"
    /\ \E p \in call[s].todo :
          /\ IsNext(s, p) /\ At(p) \notin call[s].known \union {Malformed}
          /\ Clashes(s, At(p))
          /\ call' = [call EXCEPT ![s].op = "poisoned", ![s].todo = @ \ {p},
                                  ![s].known = @ \union {At(p)}, ![s].lost = Unsaved(s)]
    /\ writer \in {NoSession, s}
    /\ work' = IF writer = s THEN db ELSE work
    /\ writer' = NoSession
    /\ UNCHANGED <<db, cache, calls, history>>

\* scan returns its result.
ReturnScan(s) ==
    /\ call[s].op = "scan" /\ call[s].todo = {}
    /\ call' = [call EXCEPT ![s] = Idle]
    /\ history' = IF writer = s THEN history
                  ELSE [history EXCEPT !.reported = @ \union call[s].page]
    /\ UNCHANGED <<db, work, writer, cache, calls>>

\* scan returns a result in a session that a clash left without transaction: all
\* that is left to the caller is to roll back.
ReturnPoisoned(s) ==
    /\ call[s].op = "poisoned" /\ call[s].todo = {}
    /\ call' = [call EXCEPT ![s].op = "over"]
    /\ UNCHANGED <<db, work, writer, cache, calls, history>>

FinishScan(s) == ReturnScan(s) \/ ReturnPoisoned(s)

\* review_suggestion: never back to "new", but from either verdict to the other.
ReviewSuggestion(s, k) ==
    /\ Sees(s)[k] # Absent /\ Begin(s)
    /\ \E verdict \in {"reviewed", "dismissed"} :
          Flush(s, Only(k, [Copy(s, k) EXCEPT !.status = verdict]))
    /\ UNCHANGED <<call, history>>

Next ==
    \/ SessionStep({})
    \/ \E s \in Session : \/ StartScan(s)
                          \/ SkipDocument(s)
                          \/ RecordDocument(s)
                          \/ DuplicateDocument(s)
                          \/ FinishScan(s)
                          \/ \E k \in Suggestion : ReviewSuggestion(s, k)

Spec == Init /\ [][Next]_vars

-----------------------------------------------------------------------------
(* Properties *)

\* "INSERT-only", and "a suggestion never transitions back to new": each
\* document is recorded once for a rule, is never lost, and a person's verdict
\* on it outlives every later scan, also one that was under way.
VerdictsStay ==
    \A k \in Suggestion : db[k] # Absent =>
        /\ db'[k] # Absent /\ db'[k].rows = 1
        /\ db[k].status # "new" => db'[k].status # "new"

\* What a scan that has returned found is recorded: in its transaction, or for
\* good when there was nothing for it to add.  One that returned after a clash
\* has lost no more than what its transaction had recorded itself.
ScanIsComplete ==
    /\ \A k \in history.reported : db[k] # Absent
    /\ \A s \in Session : call[s].op = "scan" /\ call[s].todo = {} =>
          \A k \in call[s].page : Sees(s)[k] # Absent
    /\ \A s \in Session : call[s].op = "over" =>
          \A k \in call[s].page \ call[s].lost : db[k] # Absent

\* "absorb it as already known via a savepoint rather than poisoning the whole
\* transaction": what a scan that returned found is there, also after a clash.
ScanSurvivesClash ==
    \A s \in Session : call[s].op = "over" => \A k \in call[s].page : Sees(s)[k] # Absent

=============================================================================
