--------------------------- MODULE ApplicationProofs ---------------------------
(* Proofs about Application, for any addresses, environments, tokens, workspace *)
(* names, callers, tools and costs, and for any limits and caps.                *)
EXTENDS Application, Sequences, FiniteSets, FiniteSetTheorems, SequenceTheorems,
        WellFoundedInduction, TLAPS

--------------------------------------------------------------------------------
(* The assistant *)

Amounts   == UNION {payload.amounts : payload \in Payload}
Citations == UNION {payload.citations : payload \in Payload}

Request == [
  phase : {"idle", "model", "tools", "verify", "closing", "over"},
  mode : Mode \union {"synthetic"}, client : Client \union {"none"},
  pattern : A!Patterns, stream : BOOLEAN, turn : Nat, uses : Int,
  text : Prose \union {A!NoText},
  ledger : [amounts : SUBSET Amounts, citations : SUBSET Citations],
  determinations : SUBSET [is_error : BOOLEAN, result : Payload],
  usd : Nat, calls : Nat, session : {"open", "closed"},
  sent : {"nothing", "unavailable", "cost_exceeded", "error", "result", "cut"},
  prose : Prose \union {A!NoText}]

\* What is in a ledger was returned by a tool, as one of these results.
Results(determinations) == {d.result : d \in {r \in determinations : ~ r.is_error}}
Learned(ledger, determinations) ==
  /\ \A amount \in ledger.amounts : \E payload \in Results(determinations) :
       amount \in payload.amounts
  /\ \A citation \in ledger.citations : \E payload \in Results(determinations) :
       citation \in payload.citations

\* What a text says is near what these results hold (ShippedIsGrounded).
Near(text, determinations) ==
  /\ \A amount \in text.amounts \union {a \in text.spelled : a <= MAX_SANE} :
       \E payload \in Results(determinations) : \E known \in payload.amounts :
         amount - known \in -1000 .. 1000
  /\ \A citation \in text.citations :
       \E payload \in Results(determinations) : \E known \in payload.citations :
         citation \in A!SubSeqs(known) \/ known \in A!SubSeqs(citation)

\* The ledger holds what tools returned, and prose is near it.
Grounded == Learned(ai.ledger, ai.determinations) /\ Near(ai.prose, ai.determinations)

\* While a request is at work it has not spent more than the ceiling, and each
\* turn was one call.
Spending ==
  /\ ai.phase \in {"model", "tools", "verify"} => ai.usd <= Ceiling /\ ai.calls = ai.turn
  /\ ai.phase = "model" => ai.turn < MAX_TURNS
  /\ ai.turn <= MAX_TURNS
  /\ A!SpendIsBounded

AssistantInv == ai \in Request /\ Grounded /\ Spending

\* Nothing was spent before the first request.
LEMMA AssistantStarts == A!AssistantInit => AssistantInv
BY CostAssumption DEF A!AssistantInit, A!Idle, AssistantInv, Request, Grounded, Spending,
                      A!SpendIsBounded, A!Patterns, A!NoLedger, A!NoText, Learned, Near

\* What a post, a call of the model and a tool change of a request.
Posted(request, pattern, mode, stream, client) ==
  [request EXCEPT !.pattern = pattern, !.mode = mode, !.stream = stream, !.client = client]
Begun(request, phase, session, sent) ==
  [request EXCEPT !.phase = phase, !.session = session, !.sent = sent]
Charged(request, usd, calls) == [request EXCEPT !.usd = usd, !.calls = calls]
Replied(request, text, uses, turn, phase) ==
  [request EXCEPT !.text = text, !.uses = uses, !.turn = turn, !.phase = phase]
Used(request, uses, ledger, determinations) ==
  [request EXCEPT !.uses = uses, !.ledger = ledger, !.determinations = determinations]

\* The fields the invariant is about, for each of them.
Same(new, old) ==
  /\ new.turn = old.turn /\ new.usd = old.usd /\ new.calls = old.calls
  /\ new.ledger = old.ledger /\ new.determinations = old.determinations /\ new.prose = old.prose

\* Posting a question leaves what was spent, learned and said.
LEMMA PostedFields ==
  ASSUME NEW request \in Request, NEW pattern \in A!Patterns, NEW mode \in Mode,
         NEW stream \in BOOLEAN, NEW client \in Client
  PROVE  /\ Posted(request, pattern, mode, stream, client) \in Request
         /\ Same(Posted(request, pattern, mode, stream, client), request)
         /\ Posted(request, pattern, mode, stream, client).session = request.session
         /\ Posted(request, pattern, mode, stream, client).sent = request.sent
BY DEF Request, Posted, Same

\* So does opening its session, or answering that there is no model.
LEMMA BegunFields ==
  ASSUME NEW request \in Request, NEW phase \in {"over", "model"},
         NEW session \in {"open", "closed"}, NEW sent \in {"nothing", "unavailable"}
  PROVE  /\ Begun(request, phase, session, sent) \in Request
         /\ Same(Begun(request, phase, session, sent), request)
         /\ Begun(request, phase, session, sent).phase = phase
BY DEF Request, Begun, Same

\* A call adds to the spend only.
LEMMA ChargedFields ==
  ASSUME NEW request \in Request, NEW usd \in Nat, NEW calls \in Nat
  PROVE  LET spent == Charged(request, usd, calls)
         IN  /\ spent \in Request /\ spent.usd = usd /\ spent.calls = calls
             /\ spent.turn = request.turn /\ spent.ledger = request.ledger
             /\ spent.determinations = request.determinations /\ spent.prose = request.prose
BY DEF Request, Charged

\* A reply of the model spends nothing by itself.
LEMMA RepliedFields ==
  ASSUME NEW request \in Request, NEW text \in Prose, NEW uses \in Int,
         NEW turn \in Nat, NEW phase \in {"verify", "tools"}
  PROVE  LET replied == Replied(request, text, uses, turn, phase)
         IN  /\ replied \in Request /\ replied.phase = phase /\ replied.turn = turn
             /\ replied.usd = request.usd /\ replied.calls = request.calls
             /\ replied.ledger = request.ledger /\ replied.determinations = request.determinations
             /\ replied.prose = request.prose
BY DEF Request, Replied

\* A tool adds to the ledger and to the determinations only.
LEMMA UsedFields ==
  ASSUME NEW request \in Request, NEW uses \in Int, 
         NEW ledger \in [amounts : SUBSET Amounts, citations : SUBSET Citations],
         NEW determinations \in SUBSET [is_error : BOOLEAN, result : Payload]
  PROVE  LET used == Used(request, uses, ledger, determinations)
         IN  /\ used \in Request /\ used.turn = request.turn
             /\ used.usd = request.usd /\ used.calls = request.calls
             /\ used.ledger = ledger /\ used.determinations = determinations
             /\ used.prose = request.prose /\ used.sent = request.sent
BY DEF Request, Used

\* A request answered at once, or admitted, starts with nothing spent.
LEMMA AssistantPost == ASSUME AssistantInv, A!Post PROVE AssistantInv'
<1>1. PICK pattern \in A!Patterns, stream \in BOOLEAN, mode \in Mode, client \in Client :
        LET request == [A!Idle EXCEPT !.pattern = pattern, !.mode = mode,
                            !.stream = stream /\ pattern \in A!STREAMABLE, !.client = client]
        IN  ai' = IF client = "none" \/ ~ A!data_mode_allows(mode, client)
                    THEN A!Unavailable(request)
                    ELSE [request EXCEPT !.phase = "model", !.session = "open"]
  BY DEF A!Post
<1> DEFINE flows == stream /\ pattern \in A!STREAMABLE
           request == Posted(A!Idle, pattern, mode, flows, client)
<1>2. /\ A!Idle \in Request /\ A!Idle.turn = 0 /\ A!Idle.usd = 0 /\ A!Idle.calls = 0
      /\ A!Idle.ledger = A!NoLedger /\ A!Idle.determinations = {} /\ A!Idle.prose = A!NoText
      /\ A!Idle.session = "closed" /\ A!Idle.sent = "nothing"
  BY DEF A!Idle, Request, A!Patterns, A!NoLedger
<1>3. request \in Request /\ Same(request, A!Idle)
        /\ request.session = "closed" /\ request.sent = "nothing"
  <2>1. flows \in BOOLEAN
    OBVIOUS
  <2> HIDE DEF flows
  <2> QED
    BY <2>1, <1>2, PostedFields
<1>4. request = [A!Idle EXCEPT !.pattern = pattern, !.mode = mode,
                            !.stream = stream /\ pattern \in A!STREAMABLE, !.client = client]
  BY DEF Posted
<1> HIDE DEF request
<1>5. ai' = [request EXCEPT !.phase = "over", !.sent = "unavailable"]
        \/ ai' = [request EXCEPT !.phase = "model", !.session = "open"]
  BY <1>1, <1>4 DEF A!Unavailable
<1>6. ai' = Begun(request, "over", "closed", "unavailable")
        \/ ai' = Begun(request, "model", "open", "nothing")
  BY <1>3, <1>5, ZenonT(60) DEF Begun, Request
<1>7. /\ ai' \in Request /\ Same(ai', request) /\ ai'.phase \in {"over", "model"}
  BY <1>3, <1>6, BegunFields
<1>8. Grounded'
  <2>1. ai'.ledger = A!NoLedger /\ ai'.prose = A!NoText /\ ai'.determinations = {}
    BY <1>2, <1>3, <1>7 DEF Same
  <2> QED
    BY <2>1 DEF Grounded, Learned, Near, A!NoLedger, A!NoText
<1> QED
  BY <1>2, <1>3, <1>7, <1>8, CostAssumption
     DEF AssistantInv, Spending, A!SpendIsBounded, Same, Request

\* A failure keeps what was spent, learned and said.
LEMMA Degrades ==
  ASSUME NEW request \in Request, NEW error \in {"cost_exceeded", "error"}
  PROVE  LET degraded == A!Degrade(request, error)
         IN  /\ degraded \in Request /\ degraded.phase \in {"closing", "over"}
             /\ degraded.sent = error
             /\ degraded.turn = request.turn
             /\ degraded.usd = request.usd /\ degraded.calls = request.calls
             /\ degraded.ledger = request.ledger /\ degraded.determinations = request.determinations
             /\ degraded.prose = request.prose
BY ZenonT(60) DEF Request, A!Degrade

\* A call of the model spends before the ceiling is looked at.
LEMMA AssistantCalls == ASSUME AssistantInv, A!CallModel PROVE AssistantInv'
<1>1. PICK cost \in CallCost, text \in Prose, uses \in 0 .. MaxUses :
        ai' = IF A!Exceeded(A!record(ai, cost), cost)
                THEN A!Degrade(A!record(ai, cost), "cost_exceeded")
                ELSE [A!record(ai, cost) EXCEPT !.text = text, !.uses = uses,
                        !.turn = A!record(ai, cost).turn + 1,
                        !.phase = IF uses = 0 THEN "verify" ELSE "tools"]
  BY DEF A!CallModel
<1>2. /\ ai \in Request /\ ai.phase = "model" /\ ai.turn < MAX_TURNS
      /\ ai.usd <= Ceiling /\ ai.calls = ai.turn
  BY DEF AssistantInv, Spending, A!CallModel
<1>3. cost \in Nat /\ Ceiling \in Nat /\ MAX_TURNS \in Nat /\ CallCost \subseteq Nat
  BY CostAssumption
<1> DEFINE spent == A!record(ai, cost)
<1>4. /\ spent \in Request /\ spent.usd = ai.usd + cost /\ spent.calls = ai.calls + 1
      /\ spent.turn = ai.turn /\ spent.ledger = ai.ledger /\ spent.determinations = ai.determinations
      /\ spent.prose = ai.prose
  <2>1. ai.usd + cost \in Nat /\ ai.calls + 1 \in Nat
    BY <1>2, <1>3 DEF Request
  <2>2. spent = Charged(ai, ai.usd + cost, ai.calls + 1)
    BY DEF A!record, Charged
  <2> HIDE DEF spent
  <2> QED
    BY <1>2, <2>1, <2>2, ChargedFields, ZenonT(60)
<1>5. \A most \in CallCost : (\A other \in CallCost : other <= most) => ai.usd + cost <= Ceiling + most
  BY <1>2, <1>3 DEF Request
<1>6. Learned(ai.ledger, ai.determinations) /\ Near(ai.prose, ai.determinations)
  BY DEF AssistantInv, Grounded
<1>7. CASE A!Exceeded(spent, cost)
  <2>1. ai' = A!Degrade(spent, "cost_exceeded")
    BY <1>1, <1>7
  <2>2. /\ ai' \in Request /\ ai'.phase \in {"closing", "over"} /\ ai'.sent = "cost_exceeded"
        /\ ai'.turn = ai.turn /\ ai'.usd = ai.usd + cost /\ ai'.calls = ai.calls + 1
        /\ ai'.ledger = ai.ledger /\ ai'.determinations = ai.determinations /\ ai'.prose = ai.prose
    BY <2>1, <1>4, Degrades
  <2> QED
    BY <2>2, <1>2, <1>3, <1>5, <1>6 DEF AssistantInv, Grounded, Spending, A!SpendIsBounded, Request
<1>8. CASE ~A!Exceeded(spent, cost)
  <2>1. ai' = [spent EXCEPT !.text = text, !.uses = uses, !.turn = spent.turn + 1,
                            !.phase = IF uses = 0 THEN "verify" ELSE "tools"]
    BY <1>1, <1>8
  <2>2. /\ ai' \in Request /\ ai'.phase \in {"verify", "tools"}
        /\ ai'.turn = ai.turn + 1 /\ ai'.usd = ai.usd + cost /\ ai'.calls = ai.calls + 1
        /\ ai'.ledger = ai.ledger /\ ai'.determinations = ai.determinations /\ ai'.prose = ai.prose
    <3>1. spent.turn + 1 \in Nat /\ uses \in Int /\ text \in Prose
      BY <1>2, <1>4 DEF Request
    <3>2. (IF uses = 0 THEN "verify" ELSE "tools") \in {"verify", "tools"}
      OBVIOUS
    <3>3. ai' = Replied(spent, text, uses, spent.turn + 1, IF uses = 0 THEN "verify" ELSE "tools")
      BY <2>1 DEF Replied
    <3> HIDE DEF spent
    <3> QED
      BY <1>4, <3>1, <3>2, <3>3, RepliedFields
  <2>3. ai.usd + cost <= Ceiling
    BY <1>8, <1>4, <1>3, <1>2 DEF A!Exceeded, Request
  <2> QED
    BY <2>2, <2>3, <1>2, <1>3, <1>5, <1>6
       DEF AssistantInv, Grounded, Spending, A!SpendIsBounded, Request
<1> QED
  BY <1>7, <1>8

\* A determination more takes no result away, and adds its own when it is no error.
LEMMA ResultsGrow ==
  ASSUME NEW determinations \in SUBSET [is_error : BOOLEAN, result : Payload],
         NEW payload \in Payload, NEW error \in BOOLEAN
  PROVE  LET more == determinations \union {[is_error |-> error, result |-> payload]}
         IN  /\ more \in SUBSET [is_error : BOOLEAN, result : Payload]
             /\ Results(determinations) \subseteq Results(more)
             /\ ~ error => payload \in Results(more)
<1> DEFINE added == [is_error |-> error, result |-> payload]
           more  == determinations \union {added}
<1>1. more \in SUBSET [is_error : BOOLEAN, result : Payload]
  OBVIOUS
<1>2. added.is_error = error /\ added.result = payload /\ added \in more
  OBVIOUS
<1>3. ASSUME NEW shown \in Results(determinations) PROVE shown \in Results(more)
  <2>1. PICK d \in determinations : ~ d.is_error /\ shown = d.result
    BY <1>3 DEF Results
  <2>2. d \in more
    OBVIOUS
  <2> HIDE DEF more
  <2> QED
    BY <2>1, <2>2 DEF Results
<1>4. ASSUME ~ error PROVE payload \in Results(more)
  <2> HIDE DEF added, more
  <2> QED
    BY <1>2, <1>4 DEF Results
<1> QED
  BY <1>1, <1>3, <1>4

\* What is learned stays among the results when it grows by one of them, and what
\* was said near them.
LEMMA Absorbs ==
  ASSUME NEW ledger \in [amounts : SUBSET Amounts, citations : SUBSET Citations],
         NEW determinations, NEW more, Results(determinations) \subseteq Results(more),
         NEW text, Learned(ledger, determinations), Near(text, determinations),
         NEW payload \in Payload, NEW learned,
         \/ learned = ledger
         \/ /\ payload \in Results(more)
            /\ learned = [amounts |-> ledger.amounts \union payload.amounts,
                          citations |-> ledger.citations \union payload.citations]
  PROVE  /\ learned \in [amounts : SUBSET Amounts, citations : SUBSET Citations]
         /\ Learned(learned, more) /\ Near(text, more)
<1>1. payload.amounts \subseteq Amounts /\ payload.citations \subseteq Citations
  BY DEF Amounts, Citations
<1>2. learned \in [amounts : SUBSET Amounts, citations : SUBSET Citations]
  BY <1>1
<1>3. ASSUME NEW amount \in learned.amounts
      PROVE  \E shown \in Results(more) : amount \in shown.amounts
  BY <1>3 DEF Learned
<1>4. ASSUME NEW citation \in learned.citations
      PROVE  \E shown \in Results(more) : citation \in shown.citations
  BY <1>4 DEF Learned
<1>5. Near(text, more)
  BY DEF Near
<1> QED
  BY <1>2, <1>3, <1>4, <1>5 DEF Learned

\* Rounding moves an amount by half of what it is rounded to.
LEMMA RoundsNear ==
  ASSUME NEW n \in Nat
  PROVE  /\ A!quantize(n, 10) \in Int /\ 10 * A!quantize(n, 10) - n \in -5 .. 5
         /\ A!quantize(n, 1000) \in Int /\ 1000 * A!quantize(n, 1000) - n \in -500 .. 500
<1>1. A!quantize(n, 10) \in Int /\ 10 * A!quantize(n, 10) - n \in -5 .. 5
  <2>1. PICK below \in Int, rest \in 0 .. 9 : below = n \div 10 /\ rest = n % 10 /\ n = 10 * below + rest
    OBVIOUS
  <2>2. \/ A!quantize(n, 10) = below /\ rest <= 5
        \/ A!quantize(n, 10) = below + 1 /\ rest >= 5
    BY <2>1 DEF A!quantize
  <2> QED
    BY <2>1, <2>2
<1>2. A!quantize(n, 1000) \in Int /\ 1000 * A!quantize(n, 1000) - n \in -500 .. 500
  <2>1. PICK below \in Int, rest \in 0 .. 999 :
          below = n \div 1000 /\ rest = n % 1000 /\ n = 1000 * below + rest
    OBVIOUS
  <2>2. \/ A!quantize(n, 1000) = below /\ rest <= 500
        \/ A!quantize(n, 1000) = below + 1 /\ rest >= 500
    BY <2>1 DEF A!quantize
  <2> QED
    BY <2>1, <2>2
<1> QED
  BY <1>1, <1>2

\* Amounts that share a form are within a dollar of each other.
LEMMA FormsAreNear ==
  ASSUME NEW n \in Nat, NEW m \in Nat, A!Forms(n) \intersect A!Forms(m) # {}
  PROVE  n - m \in -1000 .. 1000
<1>1. PICK form : form \in A!Forms(n) /\ form \in A!Forms(m)
  OBVIOUS
<1>2. /\ form = <<"cents", A!quantize(n, 10)>> \/ form = <<"dollars", A!quantize(n, 1000)>>
      /\ form = <<"cents", A!quantize(m, 10)>> \/ form = <<"dollars", A!quantize(m, 1000)>>
  BY <1>1 DEF A!Forms
<1>3. A!quantize(n, 10) = A!quantize(m, 10) \/ A!quantize(n, 1000) = A!quantize(m, 1000)
  BY <1>2
<1>4. \A k \in {n, m} : /\ A!quantize(k, 10) \in Int /\ 10 * A!quantize(k, 10) - k \in -5 .. 5
                        /\ A!quantize(k, 1000) \in Int
                        /\ 1000 * A!quantize(k, 1000) - k \in -500 .. 500
  BY RoundsNear
<1>5. CASE A!quantize(n, 10) = A!quantize(m, 10)
  <2>1. PICK rounded \in Int : rounded = A!quantize(n, 10) /\ rounded = A!quantize(m, 10)
    BY <1>4, <1>5
  <2>2. 10 * rounded - n \in -5 .. 5 /\ 10 * rounded - m \in -5 .. 5
    BY <1>4, <2>1
  <2> QED
    BY <2>2
<1>6. CASE A!quantize(n, 1000) = A!quantize(m, 1000)
  <2>1. PICK rounded \in Int : rounded = A!quantize(n, 1000) /\ rounded = A!quantize(m, 1000)
    BY <1>4, <1>6
  <2>2. 1000 * rounded - n \in -500 .. 500 /\ 1000 * rounded - m \in -500 .. 500
    BY <1>4, <2>1
  <2> QED
    BY <2>2
<1> QED
  BY <1>3, <1>5, <1>6

\* Prose that passes the check is near what the tools returned.
LEMMA VerifiedIsNear ==
  ASSUME NEW ledger \in [amounts : SUBSET Amounts, citations : SUBSET Citations],
         NEW determinations, Learned(ledger, determinations),
         NEW text \in Prose \union {A!NoText}, A!verify(text, ledger)
  PROVE  Near(text, determinations)
<1>1. /\ text.amounts \subseteq Nat /\ text.spelled \subseteq Nat /\ MAX_SANE \in Nat
      /\ ledger.amounts \subseteq Nat
  BY TextAssumption DEF Amounts, A!NoText
<1>2. ASSUME NEW amount \in Nat, A!Forms(amount) \intersect A!_ledger_numeric(ledger) # {}
      PROVE  \E payload \in Results(determinations) : \E known \in payload.amounts :
               amount - known \in -1000 .. 1000
  <2>1. PICK form : form \in A!Forms(amount) /\ form \in A!_ledger_numeric(ledger)
    BY <1>2
  <2>2. PICK known \in ledger.amounts : form \in A!Forms(known)
    BY <2>1 DEF A!_ledger_numeric
  <2>3. amount - known \in -1000 .. 1000
    <3>1. A!Forms(amount) \intersect A!Forms(known) # {}
      BY <2>1, <2>2
    <3>2. known \in Nat
      BY <2>2, <1>1
    <3> QED
      BY <3>1, <3>2, <1>2, FormsAreNear
  <2> QED
    BY <2>2, <2>3 DEF Learned
<1>3. ASSUME NEW amount \in text.amounts \union {a \in text.spelled : a <= MAX_SANE}
      PROVE  \E payload \in Results(determinations) : \E known \in payload.amounts :
               amount - known \in -1000 .. 1000
  <2>1. amount \in Nat
    BY <1>1, <1>3
  <2>2. CASE amount \in text.amounts
    BY <2>1, <2>2, <1>2 DEF A!verify
  <2>3. CASE amount \in text.spelled /\ amount <= MAX_SANE
    <3>1. ~ (amount > MAX_SANE)
      BY <2>1, <2>3, <1>1
    <3>2. <<"cents", A!quantize(amount, 10)>> \in A!Forms(amount)
      BY <3>1 DEF A!Forms
    <3>3. A!Forms(amount) # {}
      BY <3>2
    <3>4. A!Forms(amount) \intersect A!_ledger_numeric(ledger) # {}
      BY <2>3, <3>3 DEF A!verify
    <3> QED
      BY <2>1, <3>4, <1>2
  <2> QED
    BY <1>3, <2>2, <2>3
<1>4. ASSUME NEW citation \in text.citations
      PROVE  \E payload \in Results(determinations) : \E known \in payload.citations :
               citation \in A!SubSeqs(known) \/ known \in A!SubSeqs(citation)
  <2>1. PICK known \in ledger.citations :
          citation \in A!SubSeqs(known) \/ known \in A!SubSeqs(citation)
    BY <1>4 DEF A!verify
  <2> QED
    BY <2>1 DEF Learned
<1> QED
  BY <1>3, <1>4 DEF Near

\* Nothing said is near anything.
LEMMA SilenceIsNear == ASSUME NEW determinations PROVE Near(A!NoText, determinations)
BY DEF Near, A!NoText

\* A tool's result is among the determinations when it enters the ledger.
LEMMA AssistantDispatches == ASSUME AssistantInv, A!Dispatch PROVE AssistantInv'
<1>1. /\ ai \in Request /\ ai.phase = "tools" /\ ai.usd <= Ceiling /\ ai.calls = ai.turn
      /\ ai.turn <= MAX_TURNS /\ A!SpendIsBounded
      /\ Learned(ai.ledger, ai.determinations) /\ Near(ai.prose, ai.determinations)
  BY DEF AssistantInv, Spending, Grounded, A!Dispatch
<1>2. Ceiling \in Nat /\ MAX_TURNS \in Nat
  BY CostAssumption
<1>3. CASE ai' = A!Degrade(ai, "error")
  <2>1. /\ ai' \in Request /\ ai'.phase \in {"closing", "over"} /\ ai'.sent = "error"
        /\ ai'.turn = ai.turn /\ ai'.usd = ai.usd /\ ai'.calls = ai.calls
        /\ ai'.ledger = ai.ledger /\ ai'.determinations = ai.determinations
        /\ ai'.prose = ai.prose
    BY <1>1, <1>3, Degrades
  <2> QED
    BY <2>1, <1>1, <1>2 DEF AssistantInv, Grounded, Spending, A!SpendIsBounded, Request
<1>4. ASSUME NEW payload \in Payload, NEW outcome,
             ai' = LET used == [ai EXCEPT
                         !.uses = ai.uses - 1,
                         !.ledger = A!Absorbed(ai.ledger, outcome, payload),
                         !.determinations = ai.determinations
                            \union {[is_error |-> outcome = "error", result |-> payload]}]
                   IN [used EXCEPT !.phase = A!AfterTool(used)]
      PROVE  AssistantInv'
  <2>1. PICK error \in BOOLEAN : error = (outcome = "error")
    OBVIOUS
  <2> DEFINE ledger == A!Absorbed(ai.ledger, outcome, payload)
             more == ai.determinations \union {[is_error |-> error, result |-> payload]}
             used == [ai EXCEPT !.uses = ai.uses - 1, !.ledger = ledger, !.determinations = more]
  <2>2. ai' = [used EXCEPT !.phase = A!AfterTool(used)]
    BY <1>4, <2>1
  <2>3. /\ ledger \in [amounts : SUBSET Amounts, citations : SUBSET Citations]
        /\ more \in SUBSET [is_error : BOOLEAN, result : Payload]
        /\ Learned(ledger, more) /\ Near(ai.prose, more)
    <3>1. /\ ai.ledger \in [amounts : SUBSET Amounts, citations : SUBSET Citations]
          /\ ai.determinations \in SUBSET [is_error : BOOLEAN, result : Payload]
      BY <1>1 DEF Request
    <3>2. /\ more \in SUBSET [is_error : BOOLEAN, result : Payload]
          /\ Results(ai.determinations) \subseteq Results(more)
          /\ ~ error => payload \in Results(more)
      BY <3>1, ResultsGrow
    <3>3. \/ ledger = ai.ledger
          \/ /\ ~ error
             /\ ledger = [amounts |-> ai.ledger.amounts \union payload.amounts,
                          citations |-> ai.ledger.citations \union payload.citations]
      BY <2>1 DEF A!Absorbed, A!absorb
    <3>4. Learned(ai.ledger, ai.determinations) /\ Near(ai.prose, ai.determinations)
      BY <1>1
    <3> HIDE DEF ledger, more
    <3> QED
      BY <3>1, <3>2, <3>3, <3>4, Absorbs
  <2> HIDE DEF ledger, more
  <2>4. /\ used \in Request
        /\ used.turn = ai.turn /\ used.usd = ai.usd /\ used.calls = ai.calls
        /\ used.ledger = ledger /\ used.determinations = more
        /\ used.prose = ai.prose /\ used.sent = ai.sent
    <3>1. ai.uses - 1 \in Int
      BY <1>1 DEF Request
    <3>2. used = Used(ai, ai.uses - 1, ledger, more)
      BY DEF Used
    <3> HIDE DEF used
    <3> QED
      BY <1>1, <2>3, <3>1, <3>2, UsedFields
  <2>5. A!AfterTool(used) \in {"tools", "model", "verify"}
        /\ (A!AfterTool(used) = "model" => used.turn < MAX_TURNS)
    BY DEF A!AfterTool
  <2> HIDE DEF used
  <2>6. /\ ai' \in Request /\ ai'.phase = A!AfterTool(used)
        /\ ai'.turn = ai.turn /\ ai'.usd = ai.usd /\ ai'.calls = ai.calls
        /\ ai'.ledger = ledger /\ ai'.determinations = more
        /\ ai'.prose = ai.prose /\ ai'.sent = ai.sent
    BY <2>2, <2>4, <2>5 DEF Request
  <2> QED
    BY <2>3, <2>4, <2>5, <2>6, <1>1 DEF AssistantInv, Grounded, Spending, A!SpendIsBounded
<1> QED
  BY <1>3, <1>4 DEF A!Dispatch

\* What is served is in the ledger, and what is cut off was served by then.
LEMMA AssistantEnds ==
  ASSUME AssistantInv, A!ModelFails \/ A!Serve \/ A!SendDone \/ A!Disconnect
  PROVE  AssistantInv'
<1>1. /\ ai \in Request /\ A!SpendIsBounded /\ ai.turn <= MAX_TURNS
      /\ Learned(ai.ledger, ai.determinations) /\ Near(ai.prose, ai.determinations)
      /\ ai.phase \in {"model", "verify"} => ai.usd <= Ceiling
  BY DEF AssistantInv, Spending, Grounded
<1>2. Ceiling \in Nat /\ MAX_TURNS \in Nat
  BY CostAssumption
<1>3. CASE A!ModelFails
  <2>1. /\ ai' \in Request /\ ai'.phase \in {"closing", "over"} /\ ai'.sent = "error"
        /\ ai'.turn = ai.turn /\ ai'.usd = ai.usd /\ ai'.calls = ai.calls
        /\ ai'.ledger = ai.ledger /\ ai'.determinations = ai.determinations /\ ai'.prose = ai.prose
    BY <1>1, <1>3, Degrades DEF A!ModelFails
  <2> QED
    BY <2>1, <1>1, <1>2, <1>3
       DEF AssistantInv, Grounded, Spending, A!SpendIsBounded, Request, A!ModelFails
<1>4. CASE A!Serve
  <2>1. A!Withheld(ai.text, ai.ledger) \in Prose \union {A!NoText}
        /\ Near(A!Withheld(ai.text, ai.ledger), ai.determinations)
    <3>1. /\ ai.text \in Prose \union {A!NoText}
          /\ ai.ledger \in [amounts : SUBSET Amounts, citations : SUBSET Citations]
      BY <1>1 DEF Request
    <3> QED
      BY <1>1, <3>1, VerifiedIsNear, SilenceIsNear DEF A!Withheld
  <2>2. /\ ai' \in Request /\ ai'.phase \in {"closing", "over"}
        /\ ai'.turn = ai.turn /\ ai'.usd = ai.usd /\ ai'.calls = ai.calls
        /\ ai'.ledger = ai.ledger /\ ai'.determinations = ai.determinations
        /\ ai'.prose = A!Withheld(ai.text, ai.ledger)
    BY <2>1, <1>1, <1>4, ZenonT(60) DEF A!Serve, Request
  <2> QED
    BY <2>1, <2>2, <1>1, <1>2, <1>4
       DEF AssistantInv, Grounded, Spending, A!SpendIsBounded, Request, A!Serve
<1>5. CASE A!SendDone \/ A!Disconnect
  <2>1. /\ ai' \in Request /\ ai'.phase = "over" /\ ai'.sent \in {ai.sent, "cut"}
        /\ ai'.turn = ai.turn /\ ai'.usd = ai.usd /\ ai'.calls = ai.calls
        /\ ai'.ledger = ai.ledger /\ ai'.determinations = ai.determinations /\ ai'.prose = ai.prose
    BY <1>1, <1>5, ZenonT(60) DEF A!SendDone, A!Disconnect, Request
  <2> QED
    BY <2>1, <1>1, <1>2 DEF AssistantInv, Grounded, Spending, A!SpendIsBounded, Request
<1> QED
  BY <1>3, <1>4, <1>5

\* Every step of a request keeps the assistant's invariant.
LEMMA AssistantNext == ASSUME AssistantInv, A!AssistantNext PROVE AssistantInv'
BY AssistantPost, AssistantCalls, AssistantDispatches, AssistantEnds
   DEF A!AssistantNext, A!ServerStep

--------------------------------------------------------------------------------
(* Workspaces *)

WorkspaceTypes ==
  /\ file \in [Name -> {"none", "empty", "partial", "whole"}]
  /\ maker \in [Maker -> [name : Name, phase : {"idle", "checked", "migrating", "created",
                                               "refused", "failed", "dead"}]]
  /\ factories \in Seq(Name)

\* A workspace nobody raced on: one call makes it, which saw that there was no
\* file before its migration began; otherwise its file is absent or whole.
OneMaker ==
  \A n \in Name \ excused :
    /\ \A a, b \in W!Making(n) : a = b
    /\ W!Making(n) = {} => file[n] \in {"none", "whole"}
    /\ \A m \in Maker : maker[m].name = n =>
         /\ maker[m].phase = "checked" => file[n] = "none"
         /\ maker[m].phase = "migrating" => file[n] = "partial"
         /\ maker[m].phase = "created" => file[n] = "whole"

Distinct == \A i, j \in 1 .. Len(factories) : factories[i] = factories[j] => i = j
Held == \A i \in 1 .. Len(factories) : factories[i] \notin excused => file[factories[i]] = "whole"

WorkspacesInv ==
  /\ WorkspaceTypes /\ OneMaker
  /\ Len(factories) <= MAX_CACHED_WORKSPACES /\ Distinct /\ Held

\* Before the first call there are no files.
LEMMA WorkspacesStart == W!WorkspacesInit => WorkspacesInv
BY CapAssumption
   DEF W!WorkspacesInit, W!Call, W!Making, WorkspacesInv, WorkspaceTypes, OneMaker, Distinct, Held

\* What the properties say follows.
LEMMA WorkspacesStand == WorkspacesInv => W!NoHusk /\ W!CacheServesWhole
BY DEF WorkspacesInv, WorkspaceTypes, OneMaker, Distinct, Held, W!NoHusk, W!CacheServesWhole,
       W!Call, W!IsInjective

\* One call of create goes on.
LEMMA MakerSteps ==
  ASSUME WorkspacesInv, NEW m \in Maker,
         W!CheckPath(m) \/ W!StartMigration(m) \/ W!Created(m) \/ W!MigrationFails(m)
           \/ W!MakerDies(m) \/ W!Retry(m)
  PROVE  WorkspacesInv'
<1>0. PICK name \in Name : name = maker[m].name
  BY DEF WorkspacesInv, WorkspaceTypes
<1>1. WorkspaceTypes /\ OneMaker /\ Distinct /\ Held /\ name = maker[m].name
      /\ Len(factories) <= MAX_CACHED_WORKSPACES
  BY <1>0 DEF WorkspacesInv
<1>2. /\ WorkspaceTypes' /\ factories' = factories /\ excused \subseteq excused'
      /\ \A a \in Maker \ {m} : maker'[a] = maker[a]
      /\ \A n \in Name \ {name} : file'[n] = file[n]
  BY <1>1 DEF WorkspaceTypes, W!CheckPath, W!StartMigration, W!Created, W!MigrationFails,
              W!MakerDies, W!Retry, W!Leftover, W!Call
<1>3. Distinct' /\ Len(factories') <= MAX_CACHED_WORKSPACES
  BY <1>1, <1>2 DEF Distinct
\* Who is at work on a workspace of another name, or on this one, afterwards.
<1>4. /\ \A n \in Name \ {name} : W!Making(n)' = W!Making(n)
      /\ W!Making(name)' = IF maker'[m].phase \in {"checked", "migrating"}
                           THEN W!Making(name) \union {m} ELSE W!Making(name) \ {m}
  <2>1. /\ maker'[m].phase \in {"checked", "migrating"} => maker'[m].name = name
        /\ maker'[m].name # name => maker[m].phase \notin {"checked", "migrating"}
    BY <1>1 DEF WorkspaceTypes, W!CheckPath, W!StartMigration, W!Created,
                W!MigrationFails, W!MakerDies, W!Retry, W!Call
  <2>2. ASSUME NEW n \in Name \ {name} PROVE W!Making(n)' = W!Making(n)
    BY <1>1, <1>2, <2>1, <2>2 DEF W!Making
  <2>3. ASSUME NEW a \in Maker, a # m PROVE a \in W!Making(name)' <=> a \in W!Making(name)
    BY <1>2, <2>3 DEF W!Making
  <2>4. m \in W!Making(name)' <=> maker'[m].phase \in {"checked", "migrating"}
    BY <2>1 DEF W!Making
  <2>5. W!Making(name)' \subseteq Maker /\ W!Making(name) \subseteq Maker
    BY DEF W!Making
  <2> QED
    BY <2>2, <2>3, <2>4, <2>5
<1>5. ASSUME NEW n \in Name \ excused', n # name
      PROVE  /\ \A a, b \in W!Making(n)' : a = b
             /\ W!Making(n)' = {} => file'[n] \in {"none", "whole"}
             /\ \A a \in Maker : maker'[a].name = n =>
                  /\ maker'[a].phase = "checked" => file'[n] = "none"
                  /\ maker'[a].phase = "migrating" => file'[n] = "partial"
                  /\ maker'[a].phase = "created" => file'[n] = "whole"
  <2>1. maker'[m].name = n => maker'[m].phase = "idle"
    BY <1>1, <1>5 DEF WorkspaceTypes, W!CheckPath, W!StartMigration, W!Created,
                      W!MigrationFails, W!MakerDies, W!Retry, W!Call
  <2> QED
    BY <1>1, <1>2, <1>4, <1>5, <2>1 DEF OneMaker
<1>6. ASSUME name \notin excused'
      PROVE  /\ \A a, b \in W!Making(name)' : a = b
             /\ W!Making(name)' = {} => file'[name] \in {"none", "whole"}
             /\ \A a \in Maker : maker'[a].name = name =>
                  /\ maker'[a].phase = "checked" => file'[name] = "none"
                  /\ maker'[a].phase = "migrating" => file'[name] = "partial"
                  /\ maker'[a].phase = "created" => file'[name] = "whole"
             /\ file[name] = "whole" => file'[name] = "whole"
  <2>1. /\ \A a, b \in W!Making(name) : a = b
        /\ W!Making(name) = {} => file[name] \in {"none", "whole"}
        /\ \A a \in Maker : maker[a].name = name =>
             /\ maker[a].phase = "checked" => file[name] = "none"
             /\ maker[a].phase = "migrating" => file[name] = "partial"
             /\ maker[a].phase = "created" => file[name] = "whole"
    BY <1>1, <1>2, <1>6 DEF OneMaker
  <2>2. \A a \in W!Making(name) : a \in Maker /\ maker[a].name = name
                                    /\ maker[a].phase \in {"checked", "migrating"}
    BY DEF W!Making
  <2>3. maker[m].phase \in {"checked", "migrating"} => W!Making(name) = {m}
    BY <1>1, <2>1 DEF W!Making
  <2>4. CASE W!CheckPath(m)
    <3>1. maker[m].phase = "idle" /\ file' = file /\ m \notin W!Making(name)
      BY <2>4, <2>2 DEF W!CheckPath
    <3>2. CASE W!exists(name)
      <4>1. maker'[m].phase = "refused" /\ maker'[m].name = name
        BY <1>1, <2>4, <3>2 DEF W!CheckPath, WorkspaceTypes
      <4> QED
        BY <1>2, <1>4, <2>1, <3>1, <4>1
    <3>3. CASE ~W!exists(name)
      <4>1. maker'[m].phase = "checked" /\ maker'[m].name = name /\ W!Making(name) = {}
        BY <1>1, <1>6, <2>4, <3>3 DEF W!CheckPath, WorkspaceTypes
      <4> QED
        BY <1>2, <1>4, <2>1, <2>2, <3>1, <3>3, <4>1 DEF W!exists, W!Making
    <3> QED
      BY <3>2, <3>3
  <2>5. CASE W!StartMigration(m)
    <3>1. /\ maker'[m].phase = "migrating" /\ maker'[m].name = name
          /\ file[name] = "none" /\ file'[name] = "partial" /\ W!Making(name)' = {m}
      BY <1>1, <1>4, <2>1, <2>3, <2>5 DEF W!StartMigration, WorkspaceTypes
    <3> QED
      BY <1>2, <2>1, <2>3, <2>5, <3>1 DEF W!Making, W!StartMigration
  <2>6. CASE W!Created(m)
    <3>1. /\ maker'[m].phase = "created" /\ maker'[m].name = name
          /\ file[name] = "partial" /\ file'[name] = "whole" /\ W!Making(name)' = {}
      BY <1>1, <1>4, <2>1, <2>3, <2>6 DEF W!Created, WorkspaceTypes
    <3> QED
      BY <1>2, <2>1, <2>3, <2>6, <3>1 DEF W!Making, W!Created
  <2>7. CASE W!MigrationFails(m)
    <3>1. /\ maker'[m].phase = "failed" /\ maker'[m].name = name
          /\ file[name] = "partial" /\ file'[name] = "none" /\ W!Making(name)' = {}
      BY <1>1, <1>4, <2>1, <2>3, <2>7 DEF W!MigrationFails, W!Leftover, WorkspaceTypes
    <3> QED
      BY <1>2, <2>1, <2>3, <2>7, <3>1 DEF W!Making, W!MigrationFails
  <2>8. CASE W!MakerDies(m)
    BY <1>1, <1>6, <2>8 DEF W!MakerDies
  <2>9. CASE W!Retry(m)
    <3>1. maker'[m].phase = "idle" /\ file' = file /\ m \notin W!Making(name)
      BY <1>1, <2>2, <2>9 DEF W!Retry, WorkspaceTypes, W!Call
    <3> QED
      BY <1>2, <1>4, <2>1, <3>1
  <2> QED
    BY <2>4, <2>5, <2>6, <2>7, <2>8, <2>9
<1>7. OneMaker'
  <2> SUFFICES ASSUME NEW n \in Name, n \notin excused'
               PROVE  /\ \A a, b \in W!Making(n)' : a = b
                      /\ W!Making(n)' = {} => file'[n] \in {"none", "whole"}
                      /\ \A a \in Maker : maker'[a].name = n =>
                           /\ maker'[a].phase = "checked" => file'[n] = "none"
                           /\ maker'[a].phase = "migrating" => file'[n] = "partial"
                           /\ maker'[a].phase = "created" => file'[n] = "whole"
    BY DEF OneMaker
  <2>1. CASE n = name
    BY <1>6, <2>1
  <2>2. CASE n # name
    BY <1>5, <2>2
  <2> QED
    BY <2>1, <2>2
<1>8. Held'
  BY <1>1, <1>2, <1>6 DEF Held, WorkspaceTypes
<1> QED
  BY <1>2, <1>3, <1>7, <1>8 DEF WorkspacesInv

\* A sequence without one of its elements.
LEMMA Removed ==
  ASSUME NEW Elements, NEW s \in Seq(Elements), NEW i \in 1 .. Len(s)
  PROVE  LET left == SubSeq(s, 1, i - 1) \o SubSeq(s, i + 1, Len(s))
         IN  /\ left \in Seq(Elements) /\ Len(left) = Len(s) - 1
             /\ \A j \in 1 .. Len(left) : left[j] = IF j < i THEN s[j] ELSE s[j + 1]
<1> DEFINE front == SubSeq(s, 1, i - 1)
           back == SubSeq(s, i + 1, Len(s))
           left == front \o back
<1>1. /\ front \in Seq(Elements) /\ Len(front) = i - 1
      /\ \A j \in 1 .. i - 1 : front[j] = s[j]
  OBVIOUS
<1>2. /\ back \in Seq(Elements) /\ Len(back) = Len(s) - i
      /\ \A j \in 1 .. Len(s) - i : back[j] = s[j + i]
  OBVIOUS
<1> HIDE DEF front, back
<1>3. /\ left \in Seq(Elements) /\ Len(left) = Len(s) - 1
      /\ \A j \in 1 .. Len(left) : left[j] = IF j <= i - 1 THEN front[j] ELSE back[j - (i - 1)]
  <2>1. /\ left \in Seq(Elements) /\ Len(left) = Len(front) + Len(back)
        /\ \A j \in 1 .. Len(front) + Len(back) :
             left[j] = IF j <= Len(front) THEN front[j] ELSE back[j - Len(front)]
    BY <1>1, <1>2, ConcatProperties
  <2> HIDE DEF left
  <2> QED
    BY <1>1, <1>2, <2>1
<1> HIDE DEF left
<1>4. ASSUME NEW j \in 1 .. Len(left)
      PROVE  left[j] = IF j < i THEN s[j] ELSE s[j + 1]
  <2>1. CASE j < i
    BY <1>1, <1>3, <2>1
  <2>2. CASE ~(j < i)
    <3>1. /\ j - (i - 1) \in 1 .. Len(s) - i /\ j - (i - 1) + i = j + 1 /\ ~(j <= i - 1)
      BY <1>3, <2>2
    <3>2. left[j] = back[j - (i - 1)]
      BY <1>3, <3>1
    <3> QED
      BY <1>2, <2>2, <3>1, <3>2
  <2> QED
    BY <2>1, <2>2
<1> QED
  BY <1>3, <1>4 DEF left, front, back

\* A request is routed at a workspace.
LEMMA RouteSteps == ASSUME WorkspacesInv, NEW name \in Name, W!Route(name) PROVE WorkspacesInv'
<1>1. /\ WorkspaceTypes /\ OneMaker /\ Distinct /\ Held /\ maker' = maker
      /\ Len(factories) <= MAX_CACHED_WORKSPACES /\ MAX_CACHED_WORKSPACES \in Nat
  BY CapAssumption DEF WorkspacesInv, W!Route
<1>2. /\ excused \subseteq excused'
      /\ name \notin excused' => name \notin excused /\ W!Making(name) = {}
      /\ file' = [file EXCEPT ![name] = IF file[name] = "none" THEN "empty" ELSE file[name]]
  BY DEF W!Route
<1>3. name \notin excused' => file' = file /\ file[name] = "whole"
  <2> SUFFICES ASSUME name \notin excused' PROVE file' = file /\ file[name] = "whole"
    OBVIOUS
  <2>1. file[name] \in {"none", "whole"}
    BY <1>1, <1>2 DEF OneMaker
  <2>2. file[name] = "whole"
    BY <1>1, <1>2, <2>1 DEF W!Route, W!Known, W!exists, Held
  <2> QED
    BY <1>1, <1>2, <2>2 DEF WorkspaceTypes
<1>4. \A n \in Name : W!Making(n)' = W!Making(n)
  BY <1>1 DEF W!Making
<1>5. OneMaker'
  BY <1>1, <1>2, <1>3, <1>4 DEF OneMaker, WorkspaceTypes
<1>6. \A n \in Name : n \notin excused' /\ file[n] = "whole" => file'[n] = "whole"
  BY <1>1, <1>2, <1>3 DEF WorkspaceTypes
<1>7. /\ factories' \in Seq(Name) /\ Len(factories') <= MAX_CACHED_WORKSPACES
      /\ Distinct'
      /\ \A i \in 1 .. Len(factories') : \/ factories'[i] = name
                                          \/ \E j \in 1 .. Len(factories) : factories'[i] = factories[j]
  <2>1. factories \in Seq(Name) /\ Len(factories) \in Nat
    BY <1>1 DEF WorkspaceTypes
  <2>2. CASE W!Known(name)
    <3>1. /\ W!Cached(name) \in 1 .. Len(factories) /\ factories[W!Cached(name)] = name
          /\ factories' = Append(W!RemoveAt(factories, W!Cached(name)), name)
      BY <2>2 DEF W!Known, W!Cached, W!Route
    <3>2. PICK i \in 1 .. Len(factories) : factories[i] = name
                                           /\ factories' = Append(W!RemoveAt(factories, i), name)
      BY <3>1
    <3> DEFINE left == W!RemoveAt(factories, i)
    <3>3. /\ left \in Seq(Name) /\ Len(left) = Len(factories) - 1
          /\ \A j \in 1 .. Len(left) : left[j] = IF j < i THEN factories[j] ELSE factories[j + 1]
      BY <2>1, <3>2, Removed DEF W!RemoveAt
    <3> HIDE DEF left
    <3>4. \A j \in 1 .. Len(left) : left[j] # name
      BY <1>1, <2>1, <3>2, <3>3 DEF Distinct
    <3>5. ASSUME NEW j \in 1 .. Len(left), NEW k \in 1 .. Len(left), left[j] = left[k]
          PROVE  j = k
      <4> DEFINE place(x) == IF x < i THEN x ELSE x + 1
      <4>1. /\ place(j) \in 1 .. Len(factories) /\ place(k) \in 1 .. Len(factories)
            /\ factories[place(j)] = left[j] /\ factories[place(k)] = left[k]
        BY <2>1, <3>2, <3>3
      <4>2. place(j) = place(k)
        BY <1>1, <3>5, <4>1 DEF Distinct
      <4> QED
        BY <2>1, <3>2, <3>3, <4>2
    <3>6. /\ factories' = Append(left, name) /\ Len(factories') = Len(left) + 1
          /\ factories' \in Seq(Name)
          /\ \A j \in 1 .. Len(left) : factories'[j] = left[j]
          /\ factories'[Len(left) + 1] = name
      BY <3>2, <3>3 DEF left
    <3>7. Distinct'
      BY <3>3, <3>4, <3>5, <3>6 DEF Distinct
    <3> QED
      BY <1>1, <2>1, <3>2, <3>3, <3>6, <3>7
  <2>3. CASE ~W!Known(name)
    <3> DEFINE more == Append(factories, name)
    <3>1. /\ more \in Seq(Name) /\ Len(more) = Len(factories) + 1
          /\ \A j \in 1 .. Len(factories) : more[j] = factories[j]
          /\ more[Len(factories) + 1] = name
      BY <2>1
    <3>2. \A j, k \in 1 .. Len(more) : more[j] = more[k] => j = k
      BY <1>1, <2>1, <2>3, <3>1 DEF Distinct, W!Known
    <3>3. factories' = IF Len(more) > MAX_CACHED_WORKSPACES THEN Tail(more) ELSE more
      BY <2>3 DEF W!Route, W!Capped
    <3> HIDE DEF more
    <3>4. CASE Len(more) > MAX_CACHED_WORKSPACES
      <4>1. /\ factories' \in Seq(Name) /\ Len(factories') = Len(more) - 1
            /\ \A j \in 1 .. Len(factories') : factories'[j] = more[j + 1]
        BY <2>1, <3>1, <3>3, <3>4
      <4>2. Distinct'
        <5>1. \A j \in 1 .. Len(factories') : j + 1 \in 1 .. Len(more) /\ j \in Int
          BY <2>1, <3>1, <4>1
        <5>2. ASSUME NEW j \in 1 .. Len(factories'), NEW k \in 1 .. Len(factories'),
                     factories'[j] = factories'[k]
              PROVE  j = k
          <6>1. j + 1 = k + 1
            BY <3>2, <4>1, <5>1, <5>2
          <6> QED
            BY <5>1, <6>1
        <5> QED
          BY <5>2 DEF Distinct
      <4> QED
        BY <1>1, <2>1, <3>1, <4>1, <4>2
    <3>5. CASE ~(Len(more) > MAX_CACHED_WORKSPACES)
      <4>1. factories' = more
        BY <3>3, <3>5
      <4> QED
        BY <1>1, <2>1, <3>1, <3>2, <3>5, <4>1 DEF Distinct
    <3> QED
      BY <3>4, <3>5
  <2> QED
    BY <2>2, <2>3
<1>8. WorkspaceTypes'
  BY <1>1, <1>2, <1>7 DEF WorkspaceTypes
<1>9. Held'
  BY <1>1, <1>2, <1>3, <1>6, <1>7 DEF Held, WorkspaceTypes
<1> QED
  BY <1>5, <1>7, <1>8, <1>9 DEF WorkspacesInv

\* Every step of a call and every request keeps the workspaces' invariant.
LEMMA WorkspacesNext == ASSUME WorkspacesInv, W!WorkspacesNext PROVE WorkspacesInv'
BY MakerSteps, RouteSteps DEF W!WorkspacesNext

--------------------------------------------------------------------------------
(* The server's limiter *)

Grant == [key : Address, at : Int]
ServerTypes ==
  /\ clock \in Int
  /\ hits \in Seq([key : Address, at : Seq(Int)])
  /\ granted \in Seq(Grant)
  /\ DOMAIN served = Thread
  /\ \A t \in Thread : served[t] = S!NoRequest \/ served[t] \in [key : Address, now : Int]

\* The limiter has one entry for an address.
OneEntry == \A i, j \in 1 .. Len(hits) : hits[i].key = hits[j].key => i = j

Grants(key) == {i \in 1 .. Len(granted) : granted[i].key = key}
Since(key, from) == {i \in Grants(key) : granted[i].at >= from}
\* No grant of the address is younger than a request that is decided with the
\* cutoff: the clock of its thread is not older.
Current(key, cutoff) == \A i \in Grants(key) : granted[i].at <= cutoff + Window

\* What the limiter has forgotten of an address does not matter any more: with a
\* cutoff it may still meet, it counts every admission since or refuses anyway.
Counts(key, cutoff) ==
  LET counted == Len(S!Trim(S!HitsOf(key), cutoff))
  IN  Limit <= counted \/ Cardinality(Since(key, cutoff)) <= counted
Remembers ==
  \A key \in Address \ excused : \A cutoff \in Int :
    Current(key, cutoff) => Counts(key, cutoff)

\* No window has more admissions than the limit.
Within ==
  \A key \in Address \ excused : \A to \in Int :
    Cardinality(S!GrantsWithin(key, to - Window, to)) <= Limit

LimiterInv == ServerTypes /\ OneEntry /\ Remembers /\ Within

\* Every set of numbers has a least one.
LEMMA LeastNumber ==
  ASSUME NEW Numbers, Numbers \subseteq Nat, Numbers # {}
  PROVE  \E n \in Numbers : \A m \in Numbers : n <= m
<1>1. PICK n \in Numbers : \A m \in Numbers : ~(<<m, n>> \in OpToRel(<, Nat))
  BY NatLessThanWellFounded, WFMin
<1>2. \A m \in Numbers : ~(m < n)
  BY <1>1 DEF OpToRel
<1> QED
  BY <1>2

\* RateLimiter.allow keeps everything from the first entry that is not older than
\* the cutoff on: it drops a number of leading entries, all of them older.
Dropped(at, cutoff, n) ==
  /\ n \in 0 .. Len(at)
  /\ \A i \in 1 .. n : at[i] < cutoff
  /\ n < Len(at) => at[n + 1] >= cutoff

\* Some number of entries is dropped, and the others keep their order.
LEMMA Trimmed ==
  ASSUME NEW at \in Seq(Int), NEW cutoff \in Int
  PROVE  \E n \in 0 .. Len(at) :
            /\ Dropped(at, cutoff, n)
            /\ S!Trim(at, cutoff) \in Seq(Int)
            /\ Len(S!Trim(at, cutoff)) = Len(at) - n
            /\ \A i \in 1 .. Len(at) - n : S!Trim(at, cutoff)[i] = at[i + n]
<1> DEFINE kept == {i \in 1 .. Len(at) : at[i] >= cutoff}
<1>1. CASE kept = {}
  <2>1. S!Trim(at, cutoff) = <<>>
    BY <1>1 DEF S!Trim
  <2>2. Dropped(at, cutoff, Len(at))
    BY <1>1 DEF Dropped
  <2> QED
    BY <2>1, <2>2
<1>2. CASE kept # {}
  <2>0. kept \subseteq Nat
    OBVIOUS
  <2>1. PICK least \in kept : \A i \in kept : least <= i
    <3> HIDE DEF kept
    <3> QED
      BY <1>2, <2>0, LeastNumber
  <2>2. S!Min(kept) = least
    BY <2>1 DEF S!Min
  <2>3. S!Trim(at, cutoff) = SubSeq(at, least, Len(at))
    BY <1>2, <2>2 DEF S!Trim
  <2>4. least \in 1 .. Len(at) /\ at[least] >= cutoff
    BY <2>1
  <2>5. \A i \in 1 .. least - 1 : at[i] < cutoff
    BY <2>1, <2>4
  <2>6. Dropped(at, cutoff, least - 1)
    BY <2>4, <2>5 DEF Dropped
  <2>7. /\ SubSeq(at, least, Len(at)) \in Seq(Int)
        /\ Len(SubSeq(at, least, Len(at))) = Len(at) - (least - 1)
        /\ \A i \in 1 .. Len(at) - (least - 1) : SubSeq(at, least, Len(at))[i] = at[i + (least - 1)]
    BY <2>4
  <2>8. least - 1 \in 0 .. Len(at)
    BY <2>4
  <2> HIDE DEF kept
  <2> QED
    BY <2>3, <2>6, <2>7, <2>8
<1> QED
  BY <1>1, <1>2

\* How many are dropped is determined by the entries and the cutoff.
LEMMA DroppedOnce ==
  ASSUME NEW at \in Seq(Int), NEW cutoff \in Int, NEW n, Dropped(at, cutoff, n),
         NEW m, Dropped(at, cutoff, m)
  PROVE  n = m
<1>1. ~(n < m)
  BY DEF Dropped
<1>2. ~(m < n)
  BY DEF Dropped
<1> QED
  BY <1>1, <1>2 DEF Dropped

\* Trimming drops that many.
LEMMA TrimLength ==
  ASSUME NEW at \in Seq(Int), NEW cutoff \in Int, NEW n, Dropped(at, cutoff, n)
  PROVE  Len(S!Trim(at, cutoff)) = Len(at) - n
BY Trimmed, DroppedOnce

\* Trimming with a later cutoff makes up for an earlier one.
LEMMA TrimTwice ==
  ASSUME NEW at \in Seq(Int), NEW first \in Int, NEW second \in Int, first <= second
  PROVE  Len(S!Trim(S!Trim(at, first), second)) = Len(S!Trim(at, second))
<1> DEFINE once == S!Trim(at, first)
<1>1. PICK n \in 0 .. Len(at) : /\ Dropped(at, first, n) /\ once \in Seq(Int)
                               /\ Len(once) = Len(at) - n
                               /\ \A i \in 1 .. Len(at) - n : once[i] = at[i + n]
  BY Trimmed
<1> HIDE DEF once
<1>2. PICK m \in 0 .. Len(once) : Dropped(once, second, m)
                                 /\ Len(S!Trim(once, second)) = Len(once) - m
  BY <1>1, Trimmed
<1>3. Dropped(at, second, n + m)
  <2>1. n + m \in 0 .. Len(at)
    BY <1>1, <1>2
  <2>2. ASSUME NEW i \in 1 .. n + m PROVE at[i] < second
    <3>1. CASE i <= n
      BY <1>1, <3>1 DEF Dropped
    <3>2. CASE i > n
      <4>1. i - n \in 1 .. m /\ i - n \in 1 .. Len(at) - n /\ (i - n) + n = i
        BY <1>1, <1>2, <3>2
      <4> QED
        BY <1>1, <1>2, <4>1 DEF Dropped
    <3> QED
      BY <1>1, <1>2, <3>1, <3>2
  <2>3. ASSUME n + m < Len(at) PROVE at[(n + m) + 1] >= second
    <3>1. m < Len(once) /\ m + 1 \in 1 .. Len(at) - n /\ (m + 1) + n = (n + m) + 1
      BY <1>1, <1>2, <2>3
    <3>2. once[m + 1] >= second
      BY <1>2, <3>1 DEF Dropped
    <3>3. once[m + 1] = at[(m + 1) + n]
      BY <1>1, <3>1
    <3> QED
      BY <3>1, <3>2, <3>3
  <2> QED
    BY <2>1, <2>2, <2>3 DEF Dropped
<1>4. Len(S!Trim(at, second)) = Len(at) - (n + m)
  BY <1>3, TrimLength
<1> QED
  BY <1>1, <1>2, <1>4 DEF once

\* Trimming again with an earlier cutoff drops nothing more.
LEMMA TrimBefore ==
  ASSUME NEW at \in Seq(Int), NEW first \in Int, NEW second \in Int, second <= first
  PROVE  Len(S!Trim(S!Trim(at, first), second)) = Len(S!Trim(at, first))
<1> DEFINE once == S!Trim(at, first)
<1>1. PICK n \in 0 .. Len(at) : /\ Dropped(at, first, n) /\ once \in Seq(Int)
                               /\ Len(once) = Len(at) - n
                               /\ \A i \in 1 .. Len(at) - n : once[i] = at[i + n]
  BY Trimmed
<1> HIDE DEF once
<1>2. Dropped(once, second, 0)
  <2> SUFFICES ASSUME 0 < Len(once) PROVE once[0 + 1] >= second
    BY <1>1 DEF Dropped
  <2>1. 1 \in 1 .. Len(at) - n /\ 1 + n = n + 1 /\ n < Len(at) /\ n + 1 \in 1 .. Len(at)
    BY <1>1
  <2>2. once[1] = at[n + 1] /\ at[n + 1] >= first
    BY <1>1, <2>1 DEF Dropped
  <2> QED
    BY <2>1, <2>2
<1>3. Len(S!Trim(once, second)) = Len(once) - 0
  BY <1>1, <1>2, TrimLength
<1> QED
  BY <1>1, <1>3 DEF once

\* An entry that is added behind and is not older than the cutoff is kept.
LEMMA TrimAppend ==
  ASSUME NEW at \in Seq(Int), NEW now \in Int, NEW cutoff \in Int, cutoff <= now
  PROVE  Len(S!Trim(Append(at, now), cutoff)) = Len(S!Trim(at, cutoff)) + 1
<1> DEFINE more == Append(at, now)
<1>1. /\ more \in Seq(Int) /\ Len(more) = Len(at) + 1 /\ more[Len(at) + 1] = now
      /\ \A i \in 1 .. Len(at) : more[i] = at[i]
  OBVIOUS
<1>2. PICK n \in 0 .. Len(at) : Dropped(at, cutoff, n)
                               /\ Len(S!Trim(at, cutoff)) = Len(at) - n
  BY Trimmed
<1> HIDE DEF more
<1>3. Dropped(more, cutoff, n)
  <2>1. CASE n < Len(at)
    <3>1. n + 1 \in 1 .. Len(at) /\ at[n + 1] >= cutoff
      BY <1>2, <2>1 DEF Dropped
    <3>2. more[n + 1] = at[n + 1]
      BY <1>1, <3>1
    <3>4. n \in 0 .. Len(more)
      BY <1>1, <1>2, <2>1
    <3>3. ASSUME NEW i \in 1 .. n PROVE more[i] < cutoff
      <4>1. i \in 1 .. Len(at) /\ at[i] < cutoff
        BY <1>2 DEF Dropped
      <4> QED
        BY <1>1, <4>1
    <3> QED
      BY <3>1, <3>2, <3>3, <3>4 DEF Dropped
  <2>2. CASE n = Len(at)
    BY <1>1, <1>2, <2>2 DEF Dropped
  <2> QED
    BY <1>2, <2>1, <2>2
<1>4. Len(S!Trim(more, cutoff)) = Len(more) - n
  BY <1>1, <1>3, TrimLength
<1> QED
  BY <1>1, <1>2, <1>4 DEF more

\* What an address has in a sequence of entries.
Entry == [key : Address, at : Seq(Int)]
Unique(entries) ==
  \A i, j \in 1 .. Len(entries) : entries[i].key = entries[j].key => i = j
Holds(entries, e) == \E i \in 1 .. Len(entries) : entries[i] = e

\* The limiter's other entries, without the address.
LEMMA OtherEntries ==
  ASSUME hits \in Seq(Entry), OneEntry, NEW key \in Address
  PROVE  /\ S!Others(key) \in Seq(Entry) /\ Unique(S!Others(key))
         /\ \A e : Holds(S!Others(key), e) <=> Holds(hits, e) /\ e.key # key
<1>1. CASE S!Seen(key)
  <2>1. PICK i \in 1 .. Len(hits) : hits[i].key = key /\ S!Others(key) = S!RemoveAt(hits, i)
    BY <1>1 DEF S!Seen, S!Place, S!Others
  <2> DEFINE left == S!Others(key)
  <2>2. /\ left \in Seq(Entry) /\ Len(left) = Len(hits) - 1
        /\ \A j \in 1 .. Len(left) : left[j] = IF j < i THEN hits[j] ELSE hits[j + 1]
    BY <2>1, Removed, ZenonT(60) DEF S!RemoveAt
  <2> HIDE DEF left
  <2> DEFINE place(x) == IF x < i THEN x ELSE x + 1
             before(x) == IF x < i THEN x ELSE x - 1
  <2>3. ASSUME NEW j \in 1 .. Len(left)
        PROVE  /\ place(j) \in 1 .. Len(hits) /\ place(j) # i /\ left[j] = hits[place(j)]
    BY <2>1, <2>2
  <2>4. ASSUME NEW j \in 1 .. Len(hits), j # i
        PROVE  /\ before(j) \in 1 .. Len(left) /\ left[before(j)] = hits[j]
    BY <2>1, <2>2, <2>4
  <2>5. Unique(left)
    <3> SUFFICES ASSUME NEW j \in 1 .. Len(left), NEW k \in 1 .. Len(left),
                        left[j].key = left[k].key
                 PROVE  j = k
      BY DEF Unique
    <3>1. place(j) = place(k)
      BY <2>3 DEF OneEntry
    <3> QED
      BY <2>1, <2>2, <3>1
  <2>6. ASSUME NEW e, Holds(left, e) PROVE Holds(hits, e) /\ e.key # key
    <3>1. PICK j \in 1 .. Len(left) : left[j] = e
      BY <2>6 DEF Holds
    <3>2. place(j) \in 1 .. Len(hits) /\ place(j) # i /\ hits[place(j)] = e
      BY <2>3, <3>1
    <3> HIDE DEF place
    <3> QED
      BY <2>1, <3>2 DEF Holds, OneEntry
  <2>7. ASSUME NEW e, Holds(hits, e), e.key # key PROVE Holds(left, e)
    <3>1. PICK j \in 1 .. Len(hits) : hits[j] = e
      BY <2>7 DEF Holds
    <3>2. j # i
      BY <2>1, <2>7, <3>1
    <3>3. before(j) \in 1 .. Len(left) /\ left[before(j)] = e
      BY <2>4, <3>1, <3>2
    <3> HIDE DEF before
    <3> QED
      BY <3>3 DEF Holds
  <2> QED
    BY <2>2, <2>5, <2>6, <2>7 DEF left
<1>2. CASE ~S!Seen(key)
  <2>1. S!Others(key) = hits
    BY <1>2 DEF S!Others
  <2>2. \A e : Holds(hits, e) => e.key # key
    BY <1>2 DEF S!Seen, Holds
  <2> QED
    BY <2>1, <2>2 DEF Unique, OneEntry
<1> QED
  BY <1>1, <1>2

\* The entries after a decision: the address's own comes last, and the first one
\* may be evicted, which excuses its address.
Seen(key, own) == S!Others(key) \o <<own>>
Remembered(seen) == \/ hits' = seen
                    \/ hits' = Tail(seen) /\ seen[1].key \in excused'

\* Every address that is not excused is held as before, but for the one decided.
LEMMA EntriesAfter ==
  ASSUME hits \in Seq(Entry), OneEntry, NEW key \in Address, NEW own \in Entry, own.key = key,
         Remembered(Seen(key, own))
  PROVE  /\ hits' \in Seq(Entry) /\ OneEntry'
         /\ \A e : e.key \notin excused' =>
              (Holds(hits', e) <=> (Holds(hits, e) /\ e.key # key) \/ e = own)
<1>0. PICK seen : seen = S!Others(key) \o <<own>>
                    /\ (hits' = seen \/ (hits' = Tail(seen) /\ seen[1].key \in excused'))
  BY DEF Seen, Remembered
<1> DEFINE others == S!Others(key)
<1>1. /\ others \in Seq(Entry) /\ Unique(others)
      /\ \A e : Holds(others, e) <=> Holds(hits, e) /\ e.key # key
  BY OtherEntries
<1>2. own \in Entry /\ own.key = key
  OBVIOUS
<1> HIDE DEF others
<1>3. /\ seen \in Seq(Entry) /\ Len(seen) = Len(others) + 1 /\ Len(others) \in Nat
      /\ \A i \in 1 .. Len(others) : seen[i] = others[i]
      /\ seen[Len(others) + 1] = own
  <2>1. seen = Append(others, own)
    BY <1>0, <1>1, <1>2 DEF others
  <2>2. /\ Append(others, own) \in Seq(Entry)
        /\ Len(Append(others, own)) = Len(others) + 1 /\ Len(others) \in Nat
        /\ \A i \in 1 .. Len(others) : Append(others, own)[i] = others[i]
        /\ Append(others, own)[Len(others) + 1] = own
    BY <1>1, <1>2
  <2> QED
    BY <2>1, <2>2
<1>4. \A i \in 1 .. Len(others) : others[i].key # key
  BY <1>1 DEF Holds
<1>5. ASSUME NEW i \in 1 .. Len(seen), NEW j \in 1 .. Len(seen), seen[i].key = seen[j].key
      PROVE  i = j
  BY <1>1, <1>2, <1>3, <1>4, <1>5 DEF Unique
<1>6. \A e : Holds(seen, e) <=> Holds(others, e) \/ e = own
  <2>1. ASSUME NEW e, Holds(seen, e) PROVE Holds(others, e) \/ e = own
    BY <1>3, <2>1 DEF Holds
  <2>2. ASSUME NEW e, Holds(others, e) PROVE Holds(seen, e)
    BY <1>3, <2>2 DEF Holds
  <2>3. Len(others) + 1 \in 1 .. Len(seen)
    BY <1>3
  <2>4. Holds(seen, own)
    BY <1>3, <2>3 DEF Holds
  <2> QED
    BY <2>1, <2>2, <2>4
<1>7. CASE hits' = Tail(seen) /\ seen[1].key \in excused'
  <2>1. /\ hits' \in Seq(Entry) /\ Len(hits') = Len(seen) - 1
        /\ \A i \in 1 .. Len(hits') : hits'[i] = seen[i + 1]
    BY <1>3, <1>7
  <2>2. \A i \in 1 .. Len(hits') : i + 1 \in 1 .. Len(seen) /\ i \in Int
    BY <1>3, <2>1
  <2>3. OneEntry'
    <3> SUFFICES ASSUME NEW i \in 1 .. Len(hits'), NEW j \in 1 .. Len(hits'),
                        hits'[i].key = hits'[j].key
                 PROVE  i = j
      BY DEF OneEntry
    <3>1. /\ i + 1 \in 1 .. Len(seen) /\ j + 1 \in 1 .. Len(seen)
          /\ hits'[i] = seen[i + 1] /\ hits'[j] = seen[j + 1]
      BY <2>1, <2>2
    <3>2. i + 1 = j + 1
      BY <1>5, <3>1
    <3> QED
      BY <2>2, <3>2
  <2>4. ASSUME NEW e, e.key # seen[1].key PROVE Holds(hits', e) <=> Holds(seen, e)
    <3>1. ASSUME Holds(hits', e) PROVE Holds(seen, e)
      BY <2>1, <2>2, <3>1 DEF Holds
    <3>2. ASSUME Holds(seen, e) PROVE Holds(hits', e)
      <4>1. PICK i \in 1 .. Len(seen) : seen[i] = e
        BY <3>2 DEF Holds
      <4>2. i - 1 \in 1 .. Len(hits') /\ (i - 1) + 1 = i
        BY <1>3, <2>1, <2>4, <4>1
      <4>3. hits'[i - 1] = e
        BY <2>1, <4>1, <4>2
      <4> QED
        BY <4>2, <4>3 DEF Holds
    <3> QED
      BY <3>1, <3>2
  <2> QED
    BY <1>1, <1>6, <1>7, <2>1, <2>3, <2>4
<1>8. CASE hits' = seen
  BY <1>1, <1>3, <1>5, <1>6, <1>8 DEF OneEntry
<1> QED
  BY <1>0, <1>7, <1>8

\* What the limiter remembers of an address is what its entry holds.
Hits(entries, key) ==
  IF \E i \in 1 .. Len(entries) : entries[i].key = key
    THEN entries[CHOOSE i \in 1 .. Len(entries) : entries[i].key = key].at
    ELSE <<>>

\* HitsOf is what the entries hold of the address.
LEMMA HitsBefore == ASSUME NEW key PROVE S!HitsOf(key) = Hits(hits, key)
BY DEF S!HitsOf, S!Seen, S!Place, Hits

\* So it is after a step.
LEMMA HitsAfter == ASSUME NEW CONSTANT key PROVE S!HitsOf(key)' = Hits(hits', key)
BY DEF S!HitsOf, S!Seen, S!Place, Hits

\* The address of an entry has what the entry holds.
LEMMA HitsHeld ==
  ASSUME NEW entries, Unique(entries), NEW e, Holds(entries, e) PROVE Hits(entries, e.key) = e.at
<1>1. PICK i \in 1 .. Len(entries) : entries[i] = e
  BY DEF Holds
<1> DEFINE place == CHOOSE j \in 1 .. Len(entries) : entries[j].key = e.key
<1>2. place \in 1 .. Len(entries) /\ entries[place].key = e.key
  BY <1>1
<1>3. place = i
  BY <1>1, <1>2 DEF Unique
<1> QED
  BY <1>1, <1>3 DEF Hits

\* An address without an entry has nothing.
LEMMA HitsNone ==
  ASSUME NEW entries, NEW key, \A e : Holds(entries, e) => e.key # key
  PROVE  Hits(entries, key) = <<>>
BY DEF Holds, Hits

\* What an address has is a sequence of times.
LEMMA HitsType ==
  ASSUME NEW entries \in Seq(Entry), Unique(entries), NEW key PROVE Hits(entries, key) \in Seq(Int)
<1>1. CASE \E e : Holds(entries, e) /\ e.key = key
  <2>1. PICK e : Holds(entries, e) /\ e.key = key
    BY <1>1
  <2>2. e \in Entry
    BY <2>1 DEF Holds
  <2> QED
    BY <2>1, <2>2, HitsHeld DEF Entry
<1>2. CASE ~\E e : Holds(entries, e) /\ e.key = key
  <2>1. Hits(entries, key) = <<>>
    BY <1>2, HitsNone
  <2> QED
    BY <2>1
<1> QED
  BY <1>1, <1>2

\* Admissions are numbered, so there are finitely many.
LEMMA GrantsFinite ==
  ASSUME granted \in Seq(Grant), NEW Numbers, Numbers \subseteq 1 .. Len(granted)
  PROVE  IsFiniteSet(Numbers) /\ Cardinality(Numbers) \in Nat
         /\ S!Cardinality(Numbers) = Cardinality(Numbers)
<1>1. IsFiniteSet(1 .. Len(granted))
  BY FS_Interval
<1>2. IsFiniteSet(Numbers)
  BY <1>1, FS_Subset
<1> QED
  BY <1>2, FS_CardinalityType DEF Cardinality, S!Cardinality

\* With one admission more there is at most one more.
LEMMA OneMore ==
  ASSUME NEW Fewer, IsFiniteSet(Fewer), NEW x, NEW More, More \subseteq Fewer \union {x}
  PROVE  Cardinality(More) <= Cardinality(Fewer) + 1
         /\ Cardinality(More) \in Nat /\ Cardinality(Fewer) \in Nat
<1>1. IsFiniteSet(Fewer \union {x}) /\ Cardinality(Fewer \union {x}) <= Cardinality(Fewer) + 1
  <2>1. Cardinality(Fewer) \in Nat
    BY FS_CardinalityType
  <2>2. /\ IsFiniteSet(Fewer \union {x})
        /\ Cardinality(Fewer \union {x}) \in {Cardinality(Fewer), Cardinality(Fewer) + 1}
    BY FS_AddElement
  <2> QED
    BY <2>1, <2>2
<1>2. IsFiniteSet(More) /\ Cardinality(More) <= Cardinality(Fewer \union {x})
  BY <1>1, FS_Subset
<1> QED
  BY <1>1, <1>2, FS_CardinalityType

\* What a decision makes of the limiter.
LEMMA Decided ==
  ASSUME LimiterInv, NEW t \in Thread, S!allow(t)
  PROVE  \E key \in Address, now \in Int, new \in Seq(Int) :
           LET at == S!Trim(S!HitsOf(key), now - Window) IN
           /\ key = served[t].key /\ now = served[t].now
           /\ new = IF Len(at) < Limit THEN Append(at, now) ELSE at
           /\ granted' = IF Len(at) < Limit THEN Append(granted, [key |-> key, at |-> now])
                         ELSE granted
           /\ excused \subseteq excused'
           /\ key \notin excused' => Current(key, now - Window)
           /\ hits' \in Seq(Entry) /\ OneEntry'
           /\ \A k \in Address \ excused' : k # key => S!HitsOf(k)' = S!HitsOf(k)
           /\ key \notin excused' => S!HitsOf(key)' = new
<1>1. /\ hits \in Seq(Entry) /\ OneEntry /\ granted \in Seq(Grant)
      /\ served[t] \in [key : Address, now : Int] /\ Window \in Int
  BY LimitAssumption DEF LimiterInv, ServerTypes, Entry, S!allow
<1>2. PICK key \in Address, now \in Int : key = served[t].key /\ now = served[t].now
  BY <1>1
<1> DEFINE at == S!Trim(S!HitsOf(key), now - Window)
           own == [key |-> key, at |-> IF Len(at) < Limit THEN Append(at, now) ELSE at]
           seen == S!Others(key) \o <<own>>
           full == Len(seen) > MAX_KEYS
           older == \E i \in 1 .. Len(granted) : granted[i].key = key /\ granted[i].at > now
<1>3. /\ hits' = IF full THEN Tail(seen) ELSE seen
      /\ granted' = IF Len(at) < Limit THEN Append(granted, [key |-> key, at |-> now])
                    ELSE granted
      /\ excused' = excused \union (IF full THEN {seen[1].key} ELSE {})
                            \union (IF older THEN {key} ELSE {})
  BY <1>2 DEF S!allow
<1>4. at \in Seq(Int)
  <2>1. S!HitsOf(key) \in Seq(Int) /\ now - Window \in Int
    BY <1>1, HitsType, HitsBefore DEF OneEntry, Unique
  <2> QED
    BY <2>1, Trimmed
<1>5. key \notin excused' => Current(key, now - Window)
  <2> SUFFICES ASSUME key \notin excused', NEW i \in Grants(key)
               PROVE  granted[i].at <= (now - Window) + Window
    BY DEF Current
  <2>1. i \in 1 .. Len(granted) /\ granted[i].key = key /\ granted[i].at \in Int
    <3>1. i \in 1 .. Len(granted) /\ granted[i].key = key
      BY DEF Grants
    <3>2. granted[i] \in Grant
      BY <1>1, <3>1
    <3> QED
      BY <3>1, <3>2 DEF Grant
  <2>2. ~older
    BY <1>3
  <2>3. ~(granted[i].at > now)
    BY <2>1, <2>2
  <2> QED
    BY <1>1, <1>2, <2>1, <2>3
<1> HIDE DEF at
<1>6. PICK new \in Seq(Int) : new = IF Len(at) < Limit THEN Append(at, now) ELSE at
  <2>1. Append(at, now) \in Seq(Int)
    BY <1>2, <1>4
  <2> QED
    BY <1>4, <2>1
<1>7. own = [key |-> key, at |-> new] /\ own \in Entry /\ own.key = key
  BY <1>2, <1>6 DEF Entry
<1> HIDE DEF own
<1>8. excused \subseteq excused'
  BY <1>3
<1>9. \/ hits' = seen
      \/ hits' = Tail(seen) /\ seen[1].key \in excused'
  <2>1. CASE full
    BY <1>3, <2>1
  <2>2. CASE ~full
    BY <1>3, <2>2
  <2> QED
    BY <2>1, <2>2
<1>10. Remembered(Seen(key, own))
  BY <1>9 DEF Remembered, Seen
<1>11. /\ hits' \in Seq(Entry) /\ OneEntry'
       /\ \A e : e.key \notin excused' =>
            (Holds(hits', e) <=> (Holds(hits, e) /\ e.key # key) \/ e = own)
  <2> HIDE DEF seen
  <2> QED
    BY <1>1, <1>2, <1>7, <1>10, EntriesAfter
<1> HIDE DEF seen, full
<1>12. Unique(hits) /\ Unique(hits')
  BY <1>1, <1>11 DEF OneEntry, Unique
<1>13. ASSUME NEW k \in Address \ excused', k # key PROVE Hits(hits', k) = Hits(hits, k)
  <2>1. \A e : e.key = k => (Holds(hits', e) <=> Holds(hits, e))
    BY <1>7, <1>11, <1>13
  <2>2. CASE \E e : Holds(hits, e) /\ e.key = k
    <3>1. PICK e : Holds(hits, e) /\ e.key = k /\ Holds(hits', e)
      BY <2>1, <2>2
    <3> QED
      BY <1>12, <3>1, HitsHeld
  <2>3. CASE ~\E e : Holds(hits, e) /\ e.key = k
    <3>1. /\ \A e : Holds(hits, e) => e.key # k
          /\ \A e : Holds(hits', e) => e.key # k
      BY <2>1, <2>3
    <3>2. Hits(hits, k) = <<>> /\ Hits(hits', k) = <<>>
      BY <3>1, HitsNone
    <3> QED
      BY <3>2
  <2> QED
    BY <2>2, <2>3
<1>14. key \notin excused' => Hits(hits', key) = new
  <2> SUFFICES ASSUME key \notin excused' PROVE Hits(hits', key) = new
    OBVIOUS
  <2>1. own.key = key /\ own.at = new
    BY <1>7
  <2>2. Holds(hits', own)
    BY <1>11, <2>1
  <2> QED
    BY <1>12, <2>1, <2>2, HitsHeld
<1>15. /\ \A k \in Address \ excused' : k # key => S!HitsOf(k)' = S!HitsOf(k)
       /\ key \notin excused' => S!HitsOf(key)' = new
  <2>1. S!HitsOf(key)' = Hits(hits', key)
    BY HitsAfter
  <2>2. ASSUME NEW k \in Address PROVE S!HitsOf(k)' = Hits(hits', k) /\ S!HitsOf(k) = Hits(hits, k)
    BY HitsAfter, HitsBefore
  <2> QED
    BY <1>13, <1>14, <2>1, <2>2
<1> QED
  <2>1. /\ key = served[t].key /\ now = served[t].now
        /\ new = IF Len(at) < Limit THEN Append(at, now) ELSE at
        /\ granted' = IF Len(at) < Limit THEN Append(granted, [key |-> key, at |-> now])
                      ELSE granted
        /\ excused \subseteq excused'
        /\ key \notin excused' => Current(key, now - Window)
        /\ hits' \in Seq(Entry) /\ OneEntry'
        /\ \A k \in Address \ excused' : k # key => S!HitsOf(k)' = S!HitsOf(k)
        /\ key \notin excused' => S!HitsOf(key)' = new
    BY <1>2, <1>3, <1>5, <1>6, <1>8, <1>11, <1>15
  <2>2. key \in Address /\ now \in Int /\ new \in Seq(Int)
    BY <1>2, <1>6
  <2> QED
    BY <2>1, <2>2 DEF at

\* A decision leaves the clock, and the other threads' requests.
LEMMA Typed ==
  ASSUME ServerTypes, NEW t \in Thread, S!allow(t), hits' \in Seq(Entry), granted' \in Seq(Grant)
  PROVE  ServerTypes'
BY DEF ServerTypes, Entry, S!allow

\* An admission is one more in the windows it falls into, and in no others.
LEMMA Admission ==
  ASSUME granted \in Seq(Grant), NEW key \in Address, NEW now \in Int, Window \in Int,
         granted' = Append(granted, [key |-> key, at |-> now])
  PROVE  /\ granted' \in Seq(Grant)
         /\ \A k \in Address, c \in Int : Current(k, c)' => Current(k, c)
         /\ \A c \in Int : Current(key, c)' => now <= c + Window
         /\ \A k \in Address, from \in Int :
              k # key \/ now < from => Since(k, from)' = Since(k, from)
         /\ \A from \in Int : Since(key, from)' \subseteq Since(key, from) \union {Len(granted) + 1}
         /\ \A k \in Address, from, to \in Int : k # key \/ now < from \/ now > to =>
              S!GrantsWithin(k, from, to)' = S!GrantsWithin(k, from, to)
         /\ \A from, to \in Int : S!GrantsWithin(key, from, to)' \subseteq
              S!GrantsWithin(key, from, to) \union {Len(granted) + 1}
<1> DEFINE new == [key |-> key, at |-> now]
<1>1. new \in Grant /\ new.key = key /\ new.at = now
  BY DEF Grant
<1> HIDE DEF new
<1>2. /\ granted' \in Seq(Grant) /\ Len(granted') = Len(granted) + 1 /\ Len(granted) \in Nat
      /\ \A i \in 1 .. Len(granted) : granted'[i] = granted[i]
      /\ granted'[Len(granted) + 1] = new
  BY <1>1 DEF new
<1>3. \A i \in 1 .. Len(granted') : i \in 1 .. Len(granted) \/ i = Len(granted) + 1
  BY <1>2
<1>4. \A i \in 1 .. Len(granted) : i \in 1 .. Len(granted') /\ i # Len(granted) + 1
  BY <1>2
<1>5. Len(granted) + 1 \in 1 .. Len(granted')
  BY <1>2
<1>6. ASSUME NEW k \in Address
      PROVE  Grants(k)' = IF k = key THEN Grants(k) \union {Len(granted) + 1} ELSE Grants(k)
  BY <1>1, <1>2, <1>3, <1>4, <1>5 DEF Grants
<1>7. \A k \in Address : \A i \in Grants(k) : granted'[i] = granted[i]
  BY <1>2 DEF Grants
<1>8. ASSUME NEW k \in Address, NEW from \in Int
      PROVE  Since(k, from)' = IF k = key /\ now >= from
                               THEN Since(k, from) \union {Len(granted) + 1} ELSE Since(k, from)
  <2>1. CASE k = key
    BY <1>1, <1>2, <1>6, <1>7, <2>1, ZenonT(60) DEF Since
  <2>2. CASE k # key
    BY <1>6, <1>7, <2>2 DEF Since
  <2> QED
    BY <2>1, <2>2
<1>9. ASSUME NEW k \in Address, NEW from \in Int, NEW to \in Int
      PROVE  S!GrantsWithin(k, from, to)' =
               IF k = key /\ now >= from /\ now <= to
               THEN S!GrantsWithin(k, from, to) \union {Len(granted) + 1}
               ELSE S!GrantsWithin(k, from, to)
  BY <1>1, <1>2, <1>3, <1>4, <1>5 DEF S!GrantsWithin
<1>10. ASSUME NEW k \in Address, NEW c \in Int, Current(k, c)' PROVE Current(k, c)
  <2> SUFFICES ASSUME NEW i \in Grants(k) PROVE granted[i].at <= c + Window
    BY DEF Current
  <2>1. i \in Grants(k)'
    BY <1>6
  <2> QED
    BY <1>7, <1>10, <2>1 DEF Current
<1>11. ASSUME NEW c \in Int, Current(key, c)' PROVE now <= c + Window
  <2>1. Len(granted) + 1 \in Grants(key)'
    BY <1>6
  <2> QED
    BY <1>1, <1>2, <1>11, <2>1 DEF Current
<1>12. ASSUME NEW k \in Address, NEW from \in Int, k # key \/ now < from
       PROVE  Since(k, from)' = Since(k, from)
  <2>1. ~(k = key /\ now >= from)
    BY <1>12
  <2> QED
    BY <1>8, <2>1
<1>13. ASSUME NEW from \in Int
       PROVE  Since(key, from)' \subseteq Since(key, from) \union {Len(granted) + 1}
  BY <1>8
<1>14. ASSUME NEW k \in Address, NEW from \in Int, NEW to \in Int, k # key \/ now < from \/ now > to
       PROVE  S!GrantsWithin(k, from, to)' = S!GrantsWithin(k, from, to)
  <2>1. ~(k = key /\ now >= from /\ now <= to)
    BY <1>14
  <2> QED
    BY <1>9, <2>1
<1>15. ASSUME NEW from \in Int, NEW to \in Int
       PROVE  S!GrantsWithin(key, from, to)' \subseteq
                S!GrantsWithin(key, from, to) \union {Len(granted) + 1}
  BY <1>9
<1> QED
  BY <1>2, <1>10, <1>11, <1>12, <1>13, <1>14, <1>15

\* A decision keeps what the limiter remembers, and the limit.
LEMMA LimiterDecides == ASSUME LimiterInv, NEW t \in Thread, S!allow(t) PROVE LimiterInv'
<1>1. PICK key \in Address, now \in Int, new \in Seq(Int) :
        LET at == S!Trim(S!HitsOf(key), now - Window) IN
        /\ key = served[t].key /\ now = served[t].now
        /\ new = IF Len(at) < Limit THEN Append(at, now) ELSE at
        /\ granted' = IF Len(at) < Limit THEN Append(granted, [key |-> key, at |-> now])
                      ELSE granted
        /\ excused \subseteq excused'
        /\ key \notin excused' => Current(key, now - Window)
        /\ hits' \in Seq(Entry) /\ OneEntry'
        /\ \A k \in Address \ excused' : k # key => S!HitsOf(k)' = S!HitsOf(k)
        /\ key \notin excused' => S!HitsOf(key)' = new
  BY Decided
<1>2. PICK at : at = S!Trim(S!HitsOf(key), now - Window)
  OBVIOUS
<1>3. /\ new = IF Len(at) < Limit THEN Append(at, now) ELSE at
      /\ granted' = IF Len(at) < Limit THEN Append(granted, [key |-> key, at |-> now])
                    ELSE granted
      /\ excused \subseteq excused'
      /\ key \notin excused' => Current(key, now - Window)
      /\ hits' \in Seq(Entry) /\ OneEntry'
      /\ \A k \in Address \ excused' : k # key => S!HitsOf(k)' = S!HitsOf(k)
      /\ key \notin excused' => S!HitsOf(key)' = new
  BY <1>1, <1>2
<1>4. /\ hits \in Seq(Entry) /\ Unique(hits) /\ granted \in Seq(Grant)
      /\ Window \in Int /\ Limit \in Int /\ now - Window \in Int
  BY <1>1, LimitAssumption DEF LimiterInv, ServerTypes, OneEntry, Unique, Entry
<1>5. S!HitsOf(key) \in Seq(Int) /\ at \in Seq(Int) /\ Len(at) \in Nat
  <2>1. S!HitsOf(key) \in Seq(Int)
    BY <1>4, HitsType, HitsBefore
  <2>2. at \in Seq(Int)
    BY <1>2, <1>4, <2>1, Trimmed
  <2> QED
    BY <2>1, <2>2
<1>6. CASE Len(at) < Limit
  <2>1. new = Append(at, now) /\ granted' = Append(granted, [key |-> key, at |-> now])
    BY <1>3, <1>6
  <2>2. /\ granted' \in Seq(Grant)
        /\ \A k \in Address, c \in Int : Current(k, c)' => Current(k, c)
        /\ \A c \in Int : Current(key, c)' => now <= c + Window
        /\ \A k \in Address, from \in Int :
             k # key \/ now < from => Since(k, from)' = Since(k, from)
        /\ \A from \in Int : Since(key, from)' \subseteq Since(key, from) \union {Len(granted) + 1}
        /\ \A k \in Address, from, to \in Int : k # key \/ now < from \/ now > to =>
             S!GrantsWithin(k, from, to)' = S!GrantsWithin(k, from, to)
        /\ \A from, to \in Int : S!GrantsWithin(key, from, to)' \subseteq
             S!GrantsWithin(key, from, to) \union {Len(granted) + 1}
    BY <1>1, <1>4, <2>1, Admission
  <2>3. Remembers'
    <3> SUFFICES ASSUME NEW k \in Address, k \notin excused', NEW cutoff \in Int,
                        Current(k, cutoff)'
                 PROVE  Counts(k, cutoff)'
      BY DEF Remembers
    <3>1. Counts(k, cutoff)
      <4>1. k \in Address \ excused /\ Current(k, cutoff)
        BY <1>3, <2>2
      <4> QED
        BY <4>1 DEF LimiterInv, Remembers
    <3>2. CASE k # key
      <4>1. S!HitsOf(k)' = S!HitsOf(k) /\ Since(k, cutoff)' = Since(k, cutoff)
        BY <1>3, <2>2, <3>2
      <4> QED
        BY <3>1, <4>1 DEF Counts
    <3>3. CASE k = key
      <4>1. S!HitsOf(k)' = Append(at, now) /\ now <= cutoff + Window
              /\ Current(k, now - Window)
        BY <1>3, <2>1, <2>2, <3>3
      <4>2. CASE cutoff > now
        <5>1. Since(k, cutoff)' = Since(k, cutoff)
          BY <1>1, <2>2, <4>2
        <5>2. Since(k, cutoff) = {}
          <6> SUFFICES ASSUME NEW i \in Since(k, cutoff) PROVE FALSE
            OBVIOUS
          <6>1. i \in Grants(k) /\ granted[i].at >= cutoff /\ i \in 1 .. Len(granted)
            BY DEF Since, Grants
          <6>2. granted[i].at <= (now - Window) + Window
            BY <4>1, <6>1 DEF Current
          <6>3. granted[i].at \in Int
            <7>1. granted[i] \in Grant
              BY <1>4, <6>1
            <7> QED
              BY <7>1 DEF Grant
          <6> QED
            BY <1>1, <1>4, <4>2, <6>1, <6>2, <6>3
        <5>3. Cardinality(Since(k, cutoff)') = 0
          BY <5>1, <5>2, FS_EmptySet
        <5>4. Len(S!Trim(S!HitsOf(k)', cutoff)) \in Nat
          <6>1. Append(at, now) \in Seq(Int)
            BY <1>1, <1>5
          <6>2. S!Trim(Append(at, now), cutoff) \in Seq(Int)
            BY <6>1, Trimmed
          <6> QED
            BY <4>1, <6>2
        <5> QED
          BY <5>3, <5>4 DEF Counts
      <4>3. CASE cutoff <= now
        <5>1. Len(S!Trim(Append(at, now), cutoff)) = Len(S!Trim(at, cutoff)) + 1
          BY <1>1, <1>5, <4>3, TrimAppend
        <5>2. Len(S!Trim(at, cutoff)) = Len(S!Trim(S!HitsOf(k), cutoff))
          <6>1. now - Window <= cutoff
            BY <1>1, <1>4, <4>1
          <6> QED
            BY <1>2, <1>4, <1>5, <3>3, <6>1, TrimTwice
        <5>3. PICK counted : counted = Len(S!Trim(S!HitsOf(k), cutoff)) /\ counted \in Nat
          <6>1. S!Trim(S!HitsOf(k), cutoff) \in Seq(Int)
            BY <1>5, <3>3, Trimmed
          <6> QED
            BY <6>1
        <5>4. Limit <= counted \/ Cardinality(Since(k, cutoff)) <= counted
          BY <3>1, <5>3 DEF Counts
        <5>5. Cardinality(Since(k, cutoff)') <= Cardinality(Since(k, cutoff)) + 1
                /\ Cardinality(Since(k, cutoff)') \in Nat /\ Cardinality(Since(k, cutoff)) \in Nat
          <6>1. Since(k, cutoff) \subseteq 1 .. Len(granted)
            BY DEF Since, Grants
          <6>2. IsFiniteSet(Since(k, cutoff))
            BY <1>4, <6>1, GrantsFinite
          <6>3. Since(k, cutoff)' \subseteq Since(k, cutoff) \union {Len(granted) + 1}
            BY <2>2, <3>3
          <6> QED
            BY <6>2, <6>3, OneMore
        <5>6. Len(S!Trim(S!HitsOf(k)', cutoff)) = counted + 1
          BY <4>1, <5>1, <5>2, <5>3
        <5>7. Limit <= counted + 1 \/ Cardinality(Since(k, cutoff)') <= counted + 1
          BY <1>4, <5>3, <5>4, <5>5
        <5> QED
          BY <5>6, <5>7 DEF Counts
      <4> QED
        BY <1>1, <4>2, <4>3
    <3> QED
      BY <3>2, <3>3
  <2>4. Within'
    <3> SUFFICES ASSUME NEW k \in Address, k \notin excused', NEW to \in Int
                 PROVE  Cardinality(S!GrantsWithin(k, to - Window, to)') <= Limit
      BY DEF Within
    <3>1. CASE k # key \/ now < to - Window \/ now > to
      <4>1. S!GrantsWithin(k, to - Window, to)' = S!GrantsWithin(k, to - Window, to)
        BY <1>4, <2>2, <3>1
      <4>2. k \in Address \ excused
        BY <1>3
      <4> QED
        BY <4>1, <4>2 DEF LimiterInv, Within
    <3>2. CASE k = key /\ now >= to - Window /\ now <= to
      <4> DEFINE since == Since(key, now - Window)
      <4>1. Cardinality(since) <= Len(at)
        <5>1. Counts(key, now - Window)
          <6>1. Current(key, now - Window) /\ key \in Address \ excused
            BY <1>1, <1>3, <3>2
          <6> QED
            BY <1>4, <6>1 DEF LimiterInv, Remembers
        <5>2. ~(Limit <= Len(at))
          BY <1>4, <1>5, <1>6
        <5>3. Len(S!Trim(S!HitsOf(key), now - Window)) = Len(at)
          BY <1>2
        <5> QED
          BY <5>1, <5>2, <5>3 DEF Counts
      <4>2. IsFiniteSet(since)
        <5>1. since \subseteq 1 .. Len(granted)
          BY DEF Since, Grants
        <5> QED
          BY <1>4, <5>1, GrantsFinite
      <4>3. S!GrantsWithin(k, to - Window, to) \subseteq since
        <5> SUFFICES ASSUME NEW i \in S!GrantsWithin(k, to - Window, to) PROVE i \in since
          OBVIOUS
        <5>1. i \in 1 .. Len(granted) /\ granted[i].key = key /\ granted[i].at >= to - Window
          BY <3>2 DEF S!GrantsWithin
        <5>2. granted[i].at \in Int
          <6>1. granted[i] \in Grant
            BY <1>4, <5>1
          <6> QED
            BY <6>1 DEF Grant
        <5>3. granted[i].at >= now - Window
          <6>1. now - Window <= to - Window /\ now - Window \in Int /\ to - Window \in Int
            BY <1>1, <1>4, <3>2
          <6>2. PICK admitted \in Int : admitted = granted[i].at
            BY <5>2
          <6> QED
            BY <5>1, <6>1, <6>2
        <5> QED
          BY <5>1, <5>3 DEF Since, Grants
      <4>4. S!GrantsWithin(k, to - Window, to)' \subseteq
              S!GrantsWithin(k, to - Window, to) \union {Len(granted) + 1}
        <5>1. to - Window \in Int
          BY <1>4
        <5> QED
          BY <2>2, <3>2, <5>1
      <4>5. S!GrantsWithin(k, to - Window, to)' \subseteq since \union {Len(granted) + 1}
        BY <4>3, <4>4
      <4> HIDE DEF since
      <4>6. Cardinality(S!GrantsWithin(k, to - Window, to)') <= Cardinality(since) + 1
              /\ Cardinality(S!GrantsWithin(k, to - Window, to)') \in Nat
              /\ Cardinality(since) \in Nat
        BY <4>2, <4>5, OneMore
      <4> QED
        BY <1>4, <1>5, <1>6, <4>1, <4>6
    <3>3. to - Window \in Int
      BY <1>4
    <3> QED
      BY <1>1, <3>1, <3>2, <3>3
  <2> QED
    BY <2>2, <2>3, <2>4, Typed, <1>3 DEF LimiterInv
<1>7. CASE ~(Len(at) < Limit)
  <2>1. new = at /\ granted' = granted
    BY <1>3, <1>7
  <2>2. /\ \A k, c : Current(k, c)' <=> Current(k, c)
        /\ \A k, from : Since(k, from)' = Since(k, from)
        /\ \A k, from, to : S!GrantsWithin(k, from, to)' = S!GrantsWithin(k, from, to)
    BY <2>1 DEF Current, Since, Grants, S!GrantsWithin
  <2>3. Remembers'
    <3> SUFFICES ASSUME NEW k \in Address, k \notin excused', NEW cutoff \in Int,
                        Current(k, cutoff)'
                 PROVE  Counts(k, cutoff)'
      BY DEF Remembers
    <3>1. Counts(k, cutoff)
      <4>1. k \in Address \ excused /\ Current(k, cutoff)
        BY <1>3, <2>2
      <4> QED
        BY <4>1 DEF LimiterInv, Remembers
    <3>2. CASE k # key
      <4>1. S!HitsOf(k)' = S!HitsOf(k) /\ Since(k, cutoff)' = Since(k, cutoff)
        BY <1>3, <2>2, <3>2
      <4> QED
        BY <3>1, <4>1 DEF Counts
    <3>3. CASE k = key /\ now - Window <= cutoff
      <4>1. Len(S!Trim(at, cutoff)) = Len(S!Trim(S!HitsOf(k), cutoff))
        BY <1>2, <1>4, <1>5, <3>3, TrimTwice
      <4>2. S!HitsOf(k)' = at /\ Since(k, cutoff)' = Since(k, cutoff)
        BY <1>3, <2>1, <2>2, <3>3
      <4> QED
        BY <3>1, <4>1, <4>2 DEF Counts
    <3>4. CASE k = key /\ ~(now - Window <= cutoff)
      <4>1. Len(S!Trim(at, cutoff)) = Len(at)
        <5>1. cutoff <= now - Window
          BY <1>4, <3>4
        <5> QED
          BY <1>2, <1>4, <1>5, <3>4, <5>1, TrimBefore
      <4>2. S!HitsOf(k)' = at
        BY <1>3, <2>1, <3>4
      <4>3. Limit <= Len(at)
        BY <1>4, <1>5, <1>7
      <4> QED
        BY <4>1, <4>2, <4>3 DEF Counts
    <3> QED
      BY <3>2, <3>3, <3>4
  <2>4. Within'
    <3> SUFFICES ASSUME NEW k \in Address, k \notin excused', NEW to \in Int
                 PROVE  Cardinality(S!GrantsWithin(k, to - Window, to)') <= Limit
      BY DEF Within
    <3>1. k \in Address \ excused
      BY <1>3
    <3> QED
      BY <2>2, <3>1 DEF LimiterInv, Within
  <2> QED
    BY <2>1, <2>3, <2>4, <1>3, <1>4, Typed DEF LimiterInv
<1> QED
  BY <1>6, <1>7

\* What the limiter remembers is about its entries and the admissions only.
LEMMA SameEntries ==
  ASSUME OneEntry, Remembers, Within, hits' = hits, granted' = granted, excused' = excused
  PROVE  OneEntry' /\ Remembers' /\ Within'
<1>1. ASSUME NEW k \in Address PROVE S!HitsOf(k)' = S!HitsOf(k)
  <2>1. S!HitsOf(k)' = Hits(hits', k) /\ S!HitsOf(k) = Hits(hits, k)
    BY HitsAfter, HitsBefore
  <2> QED
    BY <2>1
<1>2. ASSUME NEW k \in Address, NEW c \in Int
      PROVE  Since(k, c)' = Since(k, c) /\ (Current(k, c)' <=> Current(k, c))
  BY DEF Since, Current, Grants
<1>3. ASSUME NEW k \in Address, NEW c \in Int, Counts(k, c) PROVE Counts(k, c)'
  BY <1>1, <1>2, <1>3 DEF Counts
<1>4. Remembers'
  BY <1>2, <1>3 DEF Remembers
<1>5. ASSUME NEW k \in Address, NEW to \in Int
      PROVE  S!GrantsWithin(k, to - Window, to)' = S!GrantsWithin(k, to - Window, to)
  BY DEF S!GrantsWithin
<1>6. Within'
  BY <1>5 DEF Within
<1>7. OneEntry'
  BY DEF OneEntry
<1> QED
  BY <1>4, <1>6, <1>7

\* Time passes and requests come in: the limiter stands.
LEMMA LimiterStands ==
  ASSUME LimiterInv, S!TimePasses \/ \E t \in Thread : S!Receive(t) PROVE LimiterInv'
<1>1. hits' = hits /\ granted' = granted /\ excused' = excused
  BY DEF S!TimePasses, S!Receive
<1>2. ServerTypes'
  <2>1. CASE S!TimePasses
    BY <2>1 DEF LimiterInv, ServerTypes, S!TimePasses
  <2>2. ASSUME NEW t \in Thread, S!Receive(t) PROVE ServerTypes'
    <3>1. ServerTypes /\ clock' = clock
      BY <2>2 DEF LimiterInv, S!Receive
    <3>2. PICK key \in Address : served' = served \/
            served' = [served EXCEPT ![t] = [key |-> key, now |-> clock]]
      BY <2>2 DEF S!Receive
    <3>3. [key |-> key, now |-> clock] \in [key : Address, now : Int]
      BY <3>1 DEF ServerTypes
    <3>4. DOMAIN served' = Thread /\ \A u \in Thread :
            served'[u] = served[u] \/ served'[u] = [key |-> key, now |-> clock]
      BY <3>1, <3>2 DEF ServerTypes
    <3> QED
      BY <1>1, <3>1, <3>3, <3>4 DEF ServerTypes
  <2> QED
    BY <2>1, <2>2
<1> QED
  BY <1>1, <1>2, SameEntries DEF LimiterInv

\* At the start nobody was let through.
LEMMA LimiterStarts == ASSUME S!ServerInit PROVE LimiterInv
<1>1. hits = <<>> /\ granted = <<>> /\ Window \in Int /\ Limit \in Nat
        /\ clock = Window /\ served = [t \in Thread |-> S!NoRequest]
  BY LimitAssumption DEF S!ServerInit
<1>2. ServerTypes /\ OneEntry
  BY <1>1 DEF ServerTypes, OneEntry
<1>3. Remembers
  <2> SUFFICES ASSUME NEW key \in Address, NEW cutoff \in Int PROVE Counts(key, cutoff)
    BY DEF Remembers
  <2>1. S!HitsOf(key) = <<>>
    BY <1>1 DEF S!HitsOf, S!Seen
  <2>2. <<>> \in Seq(Int)
    OBVIOUS
  <2>3. Len(S!Trim(<<>>, cutoff)) \in Nat
    BY <2>2, Trimmed
  <2>4. Since(key, cutoff) = {}
    BY <1>1 DEF Since, Grants
  <2>5. Cardinality(Since(key, cutoff)) = 0
    BY <2>4, FS_EmptySet
  <2> QED
    BY <2>1, <2>3, <2>5 DEF Counts
<1>4. Within
  <2> SUFFICES ASSUME NEW key \in Address, NEW to \in Int
               PROVE  Cardinality(S!GrantsWithin(key, to - Window, to)) <= Limit
    BY DEF Within
  <2>1. S!GrantsWithin(key, to - Window, to) = {}
    BY <1>1 DEF S!GrantsWithin
  <2> QED
    BY <1>1, <2>1, FS_EmptySet
<1> QED
  BY <1>2, <1>3, <1>4 DEF LimiterInv

--------------------------------------------------------------------------------
(* The server's admission *)

\* The server runs with the configuration its environment gives, and every
\* request it let through was verified.
AdmissionInv ==
  /\ config = [environment |-> config.environment,
               identity |-> S!from_env(config.environment)]
  /\ S!AdmittedIsVerified

\* At the start nobody was answered.
LEMMA AdmissionStarts == ASSUME S!ServerInit PROVE AdmissionInv
BY DEF S!ServerInit, S!Answered, S!Refused, AdmissionInv, S!AdmittedIsVerified

\* A configuration that is on has one signing source, and accepts its family's
\* algorithms only.
LEMMA Accepted ==
  ASSUME NEW environment, S!from_env(environment).auth # "refused", environment.sources # {}
  PROVE  /\ S!from_env(environment).auth = "on"
         /\ \A source \in environment.sources :
              S!from_env(environment).algorithms \subseteq S!Family(source)
<1>1. PICK source \in environment.sources : source = CHOOSE s \in environment.sources : TRUE
  OBVIOUS
<1>2. /\ \A other \in environment.sources : other = source
      /\ S!from_env(environment) = S!ConfigOf(environment, source)
  <2>1. ~\E a, b \in environment.sources : a # b
    BY DEF S!from_env
  <2> QED
    BY <1>1, <2>1 DEF S!from_env
<1>3. S!Default(source) \subseteq S!Family(source)
  BY DEF S!Default, S!Family
<1>4. /\ S!from_env(environment).auth = "on"
      /\ S!from_env(environment).algorithms \subseteq S!Family(source)
  BY <1>2, <1>3 DEF S!ConfigOf
<1> QED
  BY <1>2, <1>4

\* Whoever is let through to a gated path was verified.
LEMMA AdmissionNext == ASSUME AdmissionInv, S!ServerNext PROVE AdmissionInv'
<1>1. config' = config
  BY DEF S!ServerNext, S!TimePasses, S!Receive, S!allow
<1>2. CASE last' = last
  BY <1>1, <1>2 DEF AdmissionInv, S!AdmittedIsVerified
<1>3. CASE last' = S!Answered("/api/ask", NoToken, S!Refused(429))
  BY <1>1, <1>3 DEF AdmissionInv, S!AdmittedIsVerified, S!Answered, S!Refused
<1>4. ASSUME NEW t \in Thread, S!Receive(t) PROVE AdmissionInv'
  <2>1. PICK path \in {"/api/about", "/api/cas", "/api/ask"}, token \in Token \union {NoToken} :
          last' = S!Answered(path, token, S!Admission(config.identity, path, token, "user",
                                                     config.environment.shared))
    BY <1>4 DEF S!Receive
  <2> DEFINE answer == S!Admission(config.identity, path, token, "user", config.environment.shared)
  <2>2. last'.path = path /\ last'.token = token /\ last'.answer = answer
    BY <2>1 DEF S!Answered
  <2>3. config.identity = S!from_env(config.environment) /\ config.identity.auth # "refused"
    BY <1>4 DEF AdmissionInv, S!Receive
  <2>4. S!AdmittedIsVerified'
    <3> SUFFICES ASSUME answer.status = 200, path # "/api/about",
                        config.environment.sources # {}
                 PROVE  /\ token # NoToken /\ token.valid
                        /\ \A source \in config.environment.sources : token.alg \in S!Family(source)
                        /\ answer.actor = <<"auth", token.subject>>
      BY <1>1, <2>2 DEF S!AdmittedIsVerified
    <3>1. /\ config.identity.auth = "on"
          /\ \A source \in config.environment.sources :
               config.identity.algorithms \subseteq S!Family(source)
      BY <2>3, Accepted
    <3>2. S!verify(config.identity, token) /\ answer.actor = <<"auth", token.subject>>
      BY <3>1 DEF S!Admission, S!Refused, S!Admitted
    <3> QED
      BY <3>1, <3>2 DEF S!verify
  <2> QED
    BY <1>1, <2>4 DEF AdmissionInv
<1> QED
  BY <1>2, <1>3, <1>4 DEF S!ServerNext, S!TimePasses, S!allow

--------------------------------------------------------------------------------
(* The application *)

ApplicationInv ==
  /\ focus = "assistant" => AssistantInv
  /\ focus = "server" => LimiterInv /\ AdmissionInv
  /\ focus = "workspaces" => WorkspacesInv

\* The invariant holds from the start and every step of a component keeps it.
THEOREM ApplicationInductive == ApplicationSpec => []ApplicationInv
<1>1. ApplicationInit => ApplicationInv
  BY AssistantStarts, LimiterStarts, AdmissionStarts, WorkspacesStart
     DEF ApplicationInit, AssistantInit, ServerInit, WorkspaceInit, ApplicationInv
<1>2. ApplicationInv /\ [ApplicationNext]_applicationVars => ApplicationInv'
  <2> SUFFICES ASSUME ApplicationInv, [ApplicationNext]_applicationVars PROVE ApplicationInv'
    OBVIOUS
  <2>1. CASE AssistantStep
    BY <2>1, AssistantNext DEF AssistantStep, ApplicationInv
  <2>2. CASE ServerStep
    <3>1. LimiterInv /\ AdmissionInv /\ S!ServerNext /\ focus = "server" /\ focus' = focus
      BY <2>2 DEF ServerStep, ApplicationInv
    <3>2. LimiterInv'
      BY <3>1, LimiterStands, LimiterDecides DEF S!ServerNext
    <3>3. AdmissionInv'
      BY <3>1, AdmissionNext
    <3> QED
      BY <3>1, <3>2, <3>3 DEF ApplicationInv
  <2>3. CASE WorkspaceStep
    BY <2>3, WorkspacesNext DEF WorkspaceStep, ApplicationInv
  <2>4. CASE UNCHANGED applicationVars
    <3>1. /\ focus' = focus /\ ai' = ai /\ config' = config /\ hits' = hits /\ clock' = clock
          /\ served' = served /\ last' = last /\ granted' = granted /\ file' = file
          /\ maker' = maker /\ factories' = factories /\ excused' = excused
      BY <2>4 DEF applicationVars, limiter, spaces
    <3>2. ASSUME AssistantInv PROVE AssistantInv'
      BY <3>1, <3>2 DEF AssistantInv, Grounded, Spending, A!SpendIsBounded
    <3>3. ASSUME LimiterInv PROVE LimiterInv'
      <4>1. ServerTypes'
        BY <3>1, <3>3 DEF LimiterInv, ServerTypes
      <4> QED
        BY <3>1, <3>3, <4>1, SameEntries DEF LimiterInv
    <3>4. ASSUME AdmissionInv PROVE AdmissionInv'
      BY <3>1, <3>4 DEF AdmissionInv, S!AdmittedIsVerified
    <3>5. ASSUME WorkspacesInv PROVE WorkspacesInv'
      BY <3>1, <3>5 DEF WorkspacesInv, WorkspaceTypes, OneMaker, Distinct, Held, W!Making
    <3> QED
      BY <3>1, <3>2, <3>3, <3>4, <3>5 DEF ApplicationInv
  <2> QED
    BY <2>1, <2>2, <2>3, <2>4 DEF ApplicationNext
<1> QED
  BY <1>1, <1>2, PTL DEF ApplicationSpec

\* ai.loop and ai.grounding: whatever the model writes, the tools return and in
\* whichever turn, an amount in shipped prose is within a dollar of one a tool returned
\* to the request, and a citation a part of one returned or the reverse
\* (ShippedIsGrounded).
THEOREM ProseIsGrounded == ApplicationSpec => []ShippedIsGrounded
<1>1. ApplicationInv => ShippedIsGrounded
  BY DEF ApplicationInv, ShippedIsGrounded, A!ShippedIsGrounded, A!Returned, AssistantInv,
         Grounded, Near, Results
<1> QED
  BY <1>1, ApplicationInductive, PTL

\* ai.cost: however the turns go, a request goes over its ceiling by one call at
\* most, and then ships nothing (SpendIsBounded).
THEOREM SpendIsAlwaysBounded == ApplicationSpec => []SpendIsBounded
<1>1. ApplicationInv => SpendIsBounded
  BY DEF ApplicationInv, SpendIsBounded, AssistantInv, Spending
<1> QED
  BY <1>1, ApplicationInductive, PTL

\* RateLimiter.allow: with any number of threads that read the clock before they
\* take the lock, no window lets more through than the limit (LimitHolds).
THEOREM LimitAlwaysHolds == ApplicationSpec => []LimitHolds
<1>1. ApplicationInv => LimitHolds
  <2> SUFFICES ASSUME LimiterInv, NEW key \in Address \ excused, NEW to \in Window .. MaxClock
               PROVE  S!Cardinality(S!GrantsWithin(key, to - Window, to)) <= Limit
    BY DEF ApplicationInv, LimitHolds, S!LimitHolds
  <2>1. to \in Int
    BY LimitAssumption
  <2>2. Cardinality(S!GrantsWithin(key, to - Window, to)) <= Limit
    BY <2>1 DEF LimiterInv, Within
  <2>3. S!GrantsWithin(key, to - Window, to) \subseteq 1 .. Len(granted) /\ granted \in Seq(Grant)
    BY DEF S!GrantsWithin, LimiterInv, ServerTypes
  <2>4. S!Cardinality(S!GrantsWithin(key, to - Window, to))
          = Cardinality(S!GrantsWithin(key, to - Window, to))
    BY <2>3, GrantsFinite
  <2> QED
    BY <2>2, <2>4
<1> QED
  BY <1>1, ApplicationInductive, PTL

\* IdentityConfig.from_env, verify and the middleware: in every environment a
\* gated request is let through only with a token every named source accepts
\* (AdmittedIsVerified).
THEOREM AdmittedWasVerified == ApplicationSpec => []AdmittedIsVerified
<1>1. ApplicationInv => AdmittedIsVerified
  BY DEF ApplicationInv, AdmittedIsVerified, AdmissionInv
<1> QED
  BY <1>1, ApplicationInductive, PTL

\* workspaces.create and _factory_for: whoever creates and opens workspaces at the
\* same time, none is left half made and the cache serves whole ones
\* (WorkspacesStayWhole).
THEOREM WorkspacesAreWhole == ApplicationSpec => []WorkspacesStayWhole
<1>1. ApplicationInv => WorkspacesStayWhole
  BY WorkspacesStand DEF ApplicationInv, WorkspacesStayWhole
<1> QED
  BY <1>1, ApplicationInductive, PTL
================================================================================
