------------------------------- MODULE Assistant -------------------------------
(* One AI request of the workbench: the data-mode gate, the tool-use loop with  *)
(* its grounding ledger and its USD ceiling, the withholding of prose that      *)
(* fails grounding, and the two ways a result is served - one JSON envelope or  *)
(* an event stream that owns a database session of its own.                     *)
(*                                                                              *)
(* A text is abstracted to the amounts and the citations in it.  An amount is   *)
(* its magnitude in tenths of a cent, a citation the sequence of the pieces of  *)
(* its text once spaces and dots are gone.  A payload has every number in it    *)
(* among its amounts, those within its texts and its citations included; prose  *)
(* has those that look like money, and apart those spelled out in words.  The   *)
(* rate limit in front is in Server.                                            *)
EXTENDS Rounding, SequencesExt

CONSTANTS
  Payload,     \* what a tool may return: [amounts, citations]
  Prose,       \* what the model may write: [amounts, spelled, citations]
  MAX_SANE,    \* _MAX_SANE: larger amounts have no canonical form
  ModelTool,   \* the tool names the model asks for; some may be unknown
  Mode,        \* the values of GOVCON_DATA_MODE
  Client,      \* the clients the application may be given
  CallCost,    \* what one model call may cost
  Ceiling,     \* GOVCON_AI_MAX_USD
  MaxUses,     \* bound: the tool uses one model turn asks for
  MAX_TURNS    \* _MAX_TURNS

VARIABLE ai    \* the request being served

--------------------------------------------------------------------------------
\* The registry: what running each tool can come to.  "value" is the service's
\* answer; "gap" the unavailable payload a runner returns for an exception it
\* catches; "error" a ValueError or KeyError that dispatch turns into an error
\* result; "crash" any other exception.  A runner that reads its input inside
\* its own try turns a missing key into a gap, the others into an error.
DeterminationTools ==
  [tool \in {"determine_cas_coverage", "determine_tina_applicability",
             "determine_price_or_cost_analysis", "threshold_in_force",
             "determine_subcontract_certified_data"} |-> {"value", "gap", "error"}]

CalculationTools ==
  [tool \in {"compute_weighted_guidelines_profit",
             "compute_facilities_capital_profit"} |-> {"value", "gap", "error"}]

RollUpTools ==
  [tool \in {"assess_cost_realism",
             "compute_facilities_cost_of_money"} |-> {"value", "gap"}]

ReadingTools ==
  [tool \in {"run_self_check", "list_scenarios", "explain_limitations",
             "regulation_watch_review", "validate_draft_rule"} |-> {"value"}]

InputTools == [reverification_items |-> {"value", "error"},
               lookup_glossary      |-> {"value", "crash"}]

TOOLS == DOMAIN DeterminationTools \union DOMAIN CalculationTools
           \union DOMAIN RollUpTools \union DOMAIN ReadingTools
           \union DOMAIN InputTools

Run(tool) ==
  CASE tool \in DOMAIN DeterminationTools -> DeterminationTools[tool]
    [] tool \in DOMAIN CalculationTools   -> CalculationTools[tool]
    [] tool \in DOMAIN RollUpTools        -> RollUpTools[tool]
    [] tool \in DOMAIN ReadingTools       -> ReadingTools[tool]
    [] tool \in DOMAIN InputTools         -> InputTools[tool]

--------------------------------------------------------------------------------
Patterns == {"ask", "tutor", "draft_rule", "draft_narrative"}
STREAMABLE == {"ask", "tutor", "draft_narrative"}

\* Synthetic data may go to any client, real data to a local one only, and an
\* unknown mode to none.
data_mode_allows(mode, client) ==
  \/ mode = "synthetic"
  \/ mode = "real" /\ client = "local"

NoText   == [amounts |-> {}, spelled |-> {}, citations |-> {}]
NoLedger == [amounts |-> {}, citations |-> {}]

\* determinations: the results of the tools this request ran, errors included.
Idle == [phase |-> "idle", mode |-> "synthetic", client |-> "none",
         pattern |-> "ask", stream |-> FALSE, turn |-> 0, uses |-> 0,
         text |-> NoText, ledger |-> NoLedger, determinations |-> {},
         usd |-> 0, calls |-> 0, session |-> "closed", sent |-> "nothing",
         prose |-> NoText]

AssistantInit == ai = Idle

\* A reply of one event or one envelope: no session was used.
Unavailable(request) == [request EXCEPT !.phase = "over", !.sent = "unavailable"]

\* An exception reached the endpoint.  The envelope or the event names it, and
\* the stream goes on to its last event; the session is closed on the way.
DegradeCeilingOnly(request, error) ==
  [request EXCEPT !.phase = IF error = "cost_exceeded" THEN "closing" ELSE "broken",
                  !.session = "closed", !.sent = error]
Degrade(request, error) ==
  [request EXCEPT !.phase = IF request.stream THEN "closing" ELSE "over",
                  !.session = "closed", !.sent = error]

\* POST to one of the four endpoints, answered at once when no client is
\* configured or the gate refuses the pair of data mode and client.
Post ==
  /\ ai.phase \in {"idle", "over"}
  /\ \E pattern \in Patterns, stream \in BOOLEAN, mode \in Mode, client \in Client :
       LET request == [Idle EXCEPT !.pattern = pattern, !.mode = mode,
                                   !.stream = stream /\ pattern \in STREAMABLE,
                                   !.client = client]
       IN ai' = IF client = "none" \/ ~ data_mode_allows(mode, client)
                  THEN Unavailable(request)
                  ELSE [request EXCEPT !.phase = "model", !.session = "open"]

\* One model call.  Its cost is recorded before its text is looked at, and the
\* ceiling is compared after the spend.
record(request, cost) ==
  [request EXCEPT !.usd = @ + cost, !.calls = @ + 1]

ExceededByOne(request, cost) == cost > Ceiling
Exceeded(request, cost) == request.usd > Ceiling

CallModel ==
  /\ ai.phase = "model"
  /\ \E cost \in CallCost, text \in Prose, uses \in 0 .. MaxUses :
       LET spent == record(ai, cost) IN
       ai' = IF Exceeded(spent, cost)
               THEN Degrade(spent, "cost_exceeded")
               ELSE [spent EXCEPT !.text = text, !.uses = uses, !.turn = @ + 1,
                                  !.phase = IF uses = 0 THEN "verify" ELSE "tools"]

\* The provider is unreachable, or answers with an error.
ModelFails ==
  /\ ai.phase = "model"
  /\ ai' = Degrade(ai, "error")

\* What a tool returned goes into the ledger, unless it is an error.
absorb(ledger, payload) ==
  [amounts   |-> ledger.amounts \union payload.amounts,
   citations |-> ledger.citations \union payload.citations]

AbsorbedFirst(ledger, outcome, payload) == absorb(ledger, payload)
Absorbed(ledger, outcome, payload) ==
  IF outcome = "error" THEN ledger ELSE absorb(ledger, payload)

AfterTool(request) ==
  IF request.uses > 0 THEN "tools"
  ELSE IF request.turn < MAX_TURNS THEN "model" ELSE "verify"

\* Execute the next requested tool.  Any registered tool runs, whichever the
\* pattern offered; an unknown name and an unexpected exception end the request.
Dispatch ==
  /\ ai.phase = "tools"
  /\ \E tool \in ModelTool :
       \/ /\ tool \notin TOOLS
          /\ ai' = Degrade(ai, "error")
       \/ /\ tool \in TOOLS /\ "crash" \in Run(tool)
          /\ ai' = Degrade(ai, "error")
       \/ \E outcome \in (IF tool \in TOOLS THEN Run(tool) \ {"crash"} ELSE {}),
             payload \in Payload :
            LET used == [ai EXCEPT
                  !.uses = @ - 1,
                  !.ledger = Absorbed(@, outcome, payload),
                  !.determinations =
                     @ \union {[is_error |-> outcome = "error", result |-> payload]}]
            IN ai' = [used EXCEPT !.phase = AfterTool(used)]

\* The forms an amount may be written in: as it is or rounded to the cent, and
\* rounded to the dollar.  Two amounts match when they share a form.
Forms(amount) ==
  IF amount > MAX_SANE THEN {}
  ELSE {<<"cents", quantize(amount, 10)>>, <<"dollars", quantize(amount, 1000)>>}
_ledger_numeric(ledger) == UNION {Forms(amount) : amount \in ledger.amounts}

\* Every amount of the last turn's prose shares a form with one in the ledger, but
\* for one spelled out that has no form, and every citation is a part of one in the
\* ledger or has one as a part.
verify(text, ledger) ==
  /\ \A amount \in text.amounts : Forms(amount) \intersect _ledger_numeric(ledger) # {}
  /\ \A amount \in text.spelled :
       Forms(amount) = {} \/ Forms(amount) \intersect _ledger_numeric(ledger) # {}
  /\ \A citation \in text.citations : \E known \in ledger.citations :
       citation \in SubSeqs(known) \/ known \in SubSeqs(citation)

Withheld(text, ledger) == IF verify(text, ledger) THEN text ELSE NoText

\* Verify, withhold, and serve: the envelope, or the last events of the stream.
\* A stream's session is closed as its generator is exhausted.
Serve ==
  /\ ai.phase = "verify"
  /\ ai' = [ai EXCEPT !.prose = Withheld(ai.text, ai.ledger), !.sent = "result",
                      !.session = "closed",
                      !.phase = IF ai.stream THEN "closing" ELSE "over"]

SendDone ==
  /\ ai.phase = "closing"
  /\ ai' = [ai EXCEPT !.phase = "over"]

\* The reader of a stream goes away: the generator is closed where it stands.
Disconnect ==
  /\ ai.stream /\ ai.phase \notin {"idle", "over"}
  /\ ai' = [ai EXCEPT !.phase = "over", !.session = "closed", !.sent = "cut"]

ServerStep == CallModel \/ ModelFails \/ Dispatch \/ Serve \/ SendDone

AssistantNext == Post \/ ServerStep \/ Disconnect

AssistantSpec == AssistantInit /\ [][AssistantNext]_ai /\ WF_ai(ServerStep)

--------------------------------------------------------------------------------
\* What the tools of this request returned without an error.
Returned == {d.result : d \in {r \in ai.determinations : ~ r.is_error}}

\* However many turns the request took and whichever of its tools failed, an amount
\* in the prose of a reply is within a dollar of one that a tool returned to this
\* very request, and a citation is a part of one returned or has one as a part.
\* An amount spelled out beyond MAX_SANE is not looked at.
ShippedIsGrounded ==
  /\ \A amount \in ai.prose.amounts \union {a \in ai.prose.spelled : a <= MAX_SANE} :
       \E payload \in Returned : \E known \in payload.amounts :
         amount - known \in -1000 .. 1000
  /\ \A citation \in ai.prose.citations :
       \E payload \in Returned : \E known \in payload.citations :
         citation \in SubSeqs(known) \/ known \in SubSeqs(citation)

\* However the turns go, a request spends at most one call over its ceiling, and
\* a request that spent more than the ceiling never ships a result.
SpendIsBounded ==
  /\ ai.usd > Ceiling => ai.sent \in {"cost_exceeded", "cut"}
  /\ \A cost \in CallCost :
       (\A other \in CallCost : other <= cost) => ai.usd <= Ceiling + cost
  /\ ai.calls <= MAX_TURNS

\* No reply is left hanging: a request that was admitted ends, with its session
\* closed, whatever the model and the tools do.
RequestsEnd ==
  (ai.phase \notin {"idle", "over"}) ~> (ai.phase = "over" /\ ai.session = "closed")
================================================================================
