----------------------------- MODULE MCServices -----------------------------
(* Model-checking instance of Services. *)
EXTENDS Services, TLC

\* Two sessions, interchangeable.
SessionSymmetry == Permutations(Session)

MCMaxCalls == [response |-> 5, tina |-> 5, versions |-> 3, claim |-> 4, ledger |-> 4, watch |-> 3]

\* One alert point that fits the window, one task, dates on both sides of it.
MCDaysBefore == [t_7 |-> 7]

\* A posting that matches both assumptions and one that matches the first; the
\* one is below the baseline value, the other above it.
MCAssumptions == <<"a1", "a2">>
MCBaselineValue == [a1 |-> 5, a2 |-> 5]
MCMatches == [t1 |-> {"a1", "a2"}, t2 |-> {"a1"}]
MCPostingAmount == [t1 |-> 3, t2 |-> 8]

\* Amounts of both signs, one above the REA threshold, both together above the
\* claim's.
MCItemAmount == {-2, 3}
MCThreshold == [SAT |-> 2, CDA_CLAIM_CERT |-> 3]

\* A payment below the cap, one above it and one that takes pay back; an expense
\* above the per diem.
MCPaid == {-1, 1, 4}

\* Two watched rules; one has two documents and a malformed one between them.
MCTarget == <<"r1", "r2">>
MCDocuments == [r1 |-> <<"a1", "bad", "a2">>, r2 |-> <<"b1">>]
=============================================================================
