--------------------------- MODULE ReportingProofs ---------------------------
(***************************************************************************)
(* Proofs about Reporting.                                                 *)
(***************************************************************************)
EXTENDS Reporting, Sums, SequenceTheorems, TLAPS

-----------------------------------------------------------------------------
(* Figures *)

\* Tenths of a cent in cents: off by half a cent at most.
LEMMA Cent ==
    ASSUME NEW n \in Int
    PROVE  /\ F!quantize_money(n, 10) \in Int
           /\ 10 * F!quantize_money(n, 10) - n \in -5..5
<1>1. CASE n >= 0
  <2>1. F!quantize_money(n, 10) = (2 * n + 10) \div 20
    BY <1>1 DEF F!quantize_money
  <2> QED
    BY <1>1, <2>1
<1>2. CASE n < 0
  <2>1. F!quantize_money(n, 10) = -((-2 * n + 10) \div 20)
    BY <1>2 DEF F!quantize_money
  <2> QED
    BY <1>2, <2>1
<1> QED
  BY <1>1, <1>2

\* Thousandths of a cent.
LEMMA MilliCent ==
    ASSUME NEW n \in Int
    PROVE  /\ F!quantize_money(n, 1000) \in Int
           /\ 1000 * F!quantize_money(n, 1000) <= n + 500
           /\ n - 500 <= 1000 * F!quantize_money(n, 1000)
<1>1. CASE n >= 0
  <2>1. F!quantize_money(n, 1000) = (2 * n + 1000) \div 2000
    BY <1>1 DEF F!quantize_money
  <2> QED
    BY <1>1, <2>1
<1>2. CASE n < 0
  <2>1. F!quantize_money(n, 1000) = -((-2 * n + 1000) \div 2000)
    BY <1>2 DEF F!quantize_money
  <2> QED
    BY <1>2, <2>1
<1> QED
  BY <1>1, <1>2

\* Hundredths of a cent.
LEMMA Mil ==
    ASSUME NEW n \in Int
    PROVE  /\ F!quantize_money(n, 100) \in Int
           /\ 100 * F!quantize_money(n, 100) <= n + 50
           /\ n - 50 <= 100 * F!quantize_money(n, 100)
<1>1. CASE n >= 0
  <2>1. F!quantize_money(n, 100) = (2 * n + 100) \div 200
    BY <1>1 DEF F!quantize_money
  <2> QED
    BY <1>1, <2>1
<1>2. CASE n < 0
  <2>1. F!quantize_money(n, 100) = -((-2 * n + 100) \div 200)
    BY <1>2 DEF F!quantize_money
  <2> QED
    BY <1>2, <2>1
<1> QED
  BY <1>1, <1>2

\* Ten thousandths of a cent.
LEMMA DeciMil ==
    ASSUME NEW n \in Int
    PROVE  /\ F!quantize_money(n, 10000) \in Int
           /\ 10000 * F!quantize_money(n, 10000) <= n + 5000
           /\ n - 5000 <= 10000 * F!quantize_money(n, 10000)
<1>1. CASE n >= 0
  <2>1. F!quantize_money(n, 10000) = (2 * n + 10000) \div 20000
    BY <1>1 DEF F!quantize_money
  <2> QED
    BY <1>1, <2>1
<1>2. CASE n < 0
  <2>1. F!quantize_money(n, 10000) = -((-2 * n + 10000) \div 20000)
    BY <1>2 DEF F!quantize_money
  <2> QED
    BY <1>2, <2>1
<1> QED
  BY <1>1, <1>2

\* Tenths of a cent in cents, half to even: nothing is lost of whole cents.
LEMMA EvenCent ==
    ASSUME NEW n \in Int
    PROVE  /\ F!quantize(n, 10) \in Int
           /\ 10 * F!quantize(n, 10) - n \in -5..5
           /\ n % 10 = 0 => 10 * F!quantize(n, 10) = n
<1>1. PICK below \in Int, rest \in 0..9 : below = n \div 10 /\ rest = n % 10 /\ n = 10 * below + rest
  OBVIOUS
<1>2. F!quantize(n, 10) \in {below, below + 1}
  BY <1>1 DEF F!quantize
<1>3. /\ F!quantize(n, 10) = below => rest <= 5
      /\ F!quantize(n, 10) = below + 1 => rest >= 5
  BY <1>1 DEF F!quantize
<1> QED
  BY <1>1, <1>2, <1>3

\* The request is one that can be made.
Asking ==
    /\ request.op \in {"realism", "cost_of_money"} => request.elements \in Elements
    /\ request.op \in {"entry", "overhead"} =>
           /\ request.units \in Hours /\ request.standard_quantity \in Hours
           /\ request.standard_rate \in Tenths
    /\ request.op = "entry" => request.quantity \in Hours /\ request.amount \in Cents
    /\ request.op = "overhead" =>
           request.actual \in Mills /\ request.fixed \in Int /\ request.variable_rate \in Int
    /\ request.op = "burden" =>
           /\ request.snapshot.direct_labor \in Mills /\ request.snapshot.fringe \in Tenths
           /\ request.snapshot.overhead \in Tenths /\ request.snapshot.ga \in Tenths
    /\ request.op = "true_up" =>
           request.base \in Mills /\ request.provisional \in Tenths /\ request.final \in Tenths

\* The answer is that to the request.
Answering ==
    \/ answer = F!NoAnswer
    \/ request.op = "profit" /\ answer = F!compute_weighted_guidelines_profit(request)
    \/ request.op = "facilities" /\ answer = F!compute_facilities_capital_profit(request)
    \/ request.op = "realism" /\ answer = F!assess_cost_realism(request)
    \/ request.op = "cost_of_money" /\ answer = F!compute_facilities_cost_of_money(request)
    \/ request.op = "entry" /\ answer = F!entry_variances(request)
    \/ request.op = "overhead" /\ answer = F!overhead_variances(request)
    \/ request.op = "burden" /\ answer = F!burdened_cost(request)
    \/ request.op = "true_up" /\ answer = F!true_up(request)

FigureInv == focus \in {"figures", "year"} /\ (focus = "figures" => Asking /\ Answering)

\* A request is made at the start and answered once.
LEMMA FigureInvariant == ReportingSpec => []FigureInv
<1>1. ReportingInit => FigureInv
  <2> SUFFICES ASSUME ReportingInit, focus = "figures" PROVE Asking /\ Answering
    BY DEF ReportingInit, FiguresInit, YearInit, FigureInv
  <2>1. F!Init
    BY DEF ReportingInit, FiguresInit, YearInit
  <2>2. Asking
    BY <2>1 DEF F!Init, F!Requests, Asking, F!Snapshot
  <2> QED
    BY <2>1, <2>2 DEF F!Init, Answering
<1>2. FigureInv /\ [ReportingNext]_reportingVars => FigureInv'
  <2> SUFFICES ASSUME FigureInv, [ReportingNext]_reportingVars PROVE FigureInv'
    OBVIOUS
  <2>1. CASE FigureStep
    <3>1. focus = "figures" /\ focus' = "figures" /\ request' = request /\ Asking
      BY <2>1 DEF FigureStep, FigureInv, F!Next, F!WeightedGuidelines, F!FacilitiesCapital,
         F!CostRealism, F!CostOfMoney, F!EntryVariances, F!OverheadVariances, F!BurdenedCost,
         F!TrueUp, F!Reply
    <3>2. Asking'
      BY <3>1 DEF Asking
    <3>3. Answering'
      BY <2>1, <3>1 DEF FigureStep, F!Next, F!WeightedGuidelines, F!FacilitiesCapital,
         F!CostRealism, F!CostOfMoney, F!EntryVariances, F!OverheadVariances, F!BurdenedCost,
         F!TrueUp, F!Reply, Answering
    <3> QED
      BY <3>1, <3>2, <3>3 DEF FigureInv
  <2>2. CASE YearStep
    BY <2>2 DEF YearStep, FigureInv
  <2>3. CASE UNCHANGED reportingVars
    BY <2>3 DEF reportingVars, asked, FigureInv, Asking, Answering
  <2> QED
    BY <2>1, <2>2, <2>3 DEF ReportingNext
<1> QED
  BY <1>1, <1>2, PTL DEF ReportingSpec

\* The sums of Figures and of YearEnd are those of Sums.
LEMMA FigureSum == ASSUME NEW f PROVE F!Sum(f) = SumFunctionOnSet(f, DOMAIN f)
BY DEF F!Sum, F!SumFunction, F!SumFunctionOnSet, F!FoldFunctionOnSet, F!MapThenFoldSet,
   SumFunctionOnSet, FoldFunctionOnSet, MapThenFoldSet

\* The lines of a price, of an assessment and of the cost of money foot.
LEMMA Foots == FigureInv /\ focus = "figures" => F!TotalsFoot
<1> SUFFICES ASSUME FigureInv, focus = "figures" PROVE F!TotalsFoot
  OBVIOUS
<1>1. ASSUME F!Answered("profit")
      PROVE  answer.total = answer.performance + answer.contract_type + answer.facilities
  BY <1>1 DEF F!Answered, FigureInv, Answering, F!NoAnswer,
     F!compute_weighted_guidelines_profit, F!Error
<1>2. ASSUME F!Answered("cost_of_money") PROVE answer.total = F!Sum(answer.findings)
  BY <1>2 DEF F!Answered, FigureInv, Answering, F!NoAnswer, F!compute_facilities_cost_of_money
<1>3. ASSUME F!Answered("realism")
      PROVE  /\ answer.proposed + answer.adjustment = answer.probable
             /\ \A i \in DOMAIN answer.findings : F!LineGap(answer.findings[i]) <= 1
             /\ 2 * F!AdjustmentGap <= 2 + Cardinality(DOMAIN answer.findings)
             /\ F!WholeCents(request.elements) =>
                    /\ \A i \in DOMAIN answer.findings : F!LineGap(answer.findings[i]) = 0
                    /\ F!AdjustmentGap = 0
  <2>1. PICK elements \in Elements : elements = request.elements
    BY <1>3 DEF F!Answered, FigureInv, Asking
  <2>2. PICK p, q, d, S :
          /\ p = [i \in DOMAIN elements |-> elements[i].proposed]
          /\ q = [i \in DOMAIN elements |-> F!Probable(elements[i])]
          /\ d = [i \in DOMAIN elements |-> F!Probable(elements[i]) - elements[i].proposed]
          /\ S = DOMAIN elements
    OBVIOUS
  <2>3. PICK lines : lines = [i \in DOMAIN elements |-> F!RealismFinding(elements[i])]
    OBVIOUS
  <2>4. PICK e : e = [i \in DOMAIN lines |-> lines[i].adjustment]
    OBVIOUS
  <2>5. /\ answer.proposed = F!quantize(F!Sum(p), 10)
        /\ answer.probable = F!quantize(F!Sum(q), 10)
        /\ answer.adjustment = F!quantize(F!Sum(q), 10) - F!quantize(F!Sum(p), 10)
        /\ answer.findings = lines
    BY <1>3, <2>1, <2>2, <2>3 DEF F!Answered, FigureInv, Answering, F!NoAnswer,
       F!assess_cost_realism, F!Over
  <2>6. DOMAIN p = S /\ DOMAIN q = S /\ DOMAIN d = S /\ DOMAIN lines = S /\ DOMAIN e = S /\ IsFiniteSet(S)
    BY <2>1, <2>2, <2>3, <2>4, FigureAssumption
  <2>7. ASSUME NEW i \in S
        PROVE  /\ p[i] \in Int /\ q[i] \in Int /\ d[i] \in Int /\ q[i] = p[i] + d[i]
               /\ p[i] = elements[i].proposed /\ q[i] = F!Probable(elements[i])
    <3>1. elements[i].proposed \in Int /\ F!Probable(elements[i]) \in Int
      BY <2>1, <2>2, FigureAssumption DEF F!Probable
    <3>2. p[i] = elements[i].proposed /\ q[i] = F!Probable(elements[i])
          /\ d[i] = F!Probable(elements[i]) - elements[i].proposed
      BY <2>2
    <3> QED
      BY <3>1, <3>2
  <2>8. ASSUME NEW i \in S
        PROVE  /\ lines[i].proposed = F!quantize(p[i], 10) /\ lines[i].probable = F!quantize(q[i], 10)
               /\ lines[i].adjustment = F!quantize(d[i], 10) /\ e[i] = lines[i].adjustment
               /\ lines[i].proposed \in Int /\ lines[i].probable \in Int /\ e[i] \in Int
    <3>1. /\ lines[i].proposed = F!quantize(p[i], 10) /\ lines[i].probable = F!quantize(q[i], 10)
          /\ lines[i].adjustment = F!quantize(d[i], 10)
      BY <2>2, <2>3 DEF F!RealismFinding
    <3>2. e[i] = lines[i].adjustment
      BY <2>4, <2>6
    <3>3. F!quantize(p[i], 10) \in Int /\ F!quantize(q[i], 10) \in Int /\ F!quantize(d[i], 10) \in Int
      BY <2>7, EvenCent
    <3> QED
      BY <3>1, <3>2, <3>3
  <2>9. /\ F!Sum(p) = SumFunctionOnSet(p, S) /\ F!Sum(q) = SumFunctionOnSet(q, S)
        /\ F!Sum(e) = SumFunctionOnSet(e, S)
    BY <2>6, FigureSum
  <2>10. PICK P \in Int, D \in Int, E \in Int :
           /\ P = SumFunctionOnSet(p, S) /\ D = SumFunctionOnSet(d, S) /\ E = SumFunctionOnSet(e, S)
    BY <2>6, <2>7, <2>8, SumType
  <2>11. F!Sum(q) = P + D
    BY <2>6, <2>7, <2>9, <2>10, SumPlus
  <2>12. PICK a \in Int : a = F!quantize(P, 10) /\ 10 * a - P \in -5..5 /\ (P % 10 = 0 => 10 * a = P)
    BY EvenCent
  <2>13. PICK Q \in Int : Q = P + D
    OBVIOUS
  <2>14. PICK b \in Int : b = F!quantize(Q, 10) /\ 10 * b - Q \in -5..5 /\ (Q % 10 = 0 => 10 * b = Q)
    BY EvenCent
  <2>15. answer.proposed = a /\ answer.probable = b /\ answer.adjustment = b - a
    BY <2>5, <2>9, <2>10, <2>11, <2>12, <2>13, <2>14
  <2>16. F!AdjustmentGap = F!Abs((b - a) - E)
    BY <2>4, <2>5, <2>9, <2>10, <2>15 DEF F!AdjustmentGap, F!Over
  <2>17. ASSUME NEW i \in S
         PROVE  /\ F!LineGap(lines[i]) <= 1
                /\ 10 * e[i] - d[i] <= 5 /\ d[i] - 10 * e[i] <= 5
                /\ F!WholeCents(elements) =>
                       /\ F!LineGap(lines[i]) = 0
                       /\ 10 * e[i] - d[i] <= 0 /\ d[i] - 10 * e[i] <= 0
                       /\ p[i] % 10 = 0 /\ q[i] % 10 = 0
    <3>1. PICK x \in Int : x = F!quantize(p[i], 10) /\ 10 * x - p[i] \in -5..5 /\ (p[i] % 10 = 0 => 10 * x = p[i])
      BY <2>7, EvenCent
    <3>2. PICK y \in Int : y = F!quantize(q[i], 10) /\ 10 * y - q[i] \in -5..5 /\ (q[i] % 10 = 0 => 10 * y = q[i])
      BY <2>7, EvenCent
    <3>3. PICK z \in Int : z = F!quantize(d[i], 10) /\ 10 * z - d[i] \in -5..5 /\ (d[i] % 10 = 0 => 10 * z = d[i])
      BY <2>7, EvenCent
    <3>4. e[i] = z /\ F!LineGap(lines[i]) = F!Abs(y - x - z)
      BY <2>8, <3>1, <3>2, <3>3 DEF F!LineGap
    <3>5. F!WholeCents(elements) => p[i] % 10 = 0 /\ q[i] % 10 = 0
      BY <2>2, <2>7 DEF F!WholeCents
    <3>6. PICK u \in Int, v \in Int, w \in Int : u = p[i] /\ v = q[i] /\ w = d[i] /\ v = u + w
      BY <2>7
    <3>7. u % 10 = 0 /\ v % 10 = 0 => w % 10 = 0
      BY <3>6
    <3>8. F!Abs(y - x - z) <= 1 /\ (u % 10 = 0 /\ v % 10 = 0 => F!Abs(y - x - z) = 0)
      BY <3>1, <3>2, <3>3, <3>6, <3>7 DEF F!Abs
    <3> QED
      BY <3>1, <3>2, <3>3, <3>4, <3>5, <3>6, <3>7, <3>8
  <2>18. PICK n \in Nat : n = Cardinality(S)
    BY <2>6, FS_CardinalityType
  <2>19. 10 * E - D <= 5 * n /\ D - 10 * E <= 5 * n
    BY <2>6, <2>7, <2>8, <2>10, <2>17, <2>18, SumRounded
  <2>20. 2 * F!Abs((b - a) - E) <= 2 + n
    BY <2>12, <2>13, <2>14, <2>19 DEF F!Abs
  <2>21. ASSUME F!WholeCents(elements) PROVE F!Abs((b - a) - E) = 0
    <3>1. 10 * E - D <= 0 * n /\ D - 10 * E <= 0 * n
      BY <2>6, <2>7, <2>8, <2>10, <2>17, <2>18, <2>21, SumRounded
    <3>2. PICK t : t = [i \in S |-> p[i] \div 10]
      OBVIOUS
    <3>3. ASSUME NEW i \in S
          PROVE  t[i] \in Int /\ 10 * t[i] - p[i] <= 0 /\ p[i] - 10 * t[i] <= 0
      <4>1. PICK u \in Int : u = p[i] /\ u % 10 = 0
        BY <2>7, <2>17, <2>21
      <4>2. u = 10 * (u \div 10) /\ u \div 10 \in Int
        BY <4>1
      <4> QED
        BY <3>2, <4>1, <4>2
    <3>4. PICK T \in Int : T = SumFunctionOnSet(t, S)
      BY <2>6, <3>3, SumType
    <3>5. 10 * T - P <= 0 * n /\ P - 10 * T <= 0 * n
      BY <2>6, <2>7, <2>10, <2>18, <3>3, <3>4, SumRounded
    <3>6. P = 10 * T /\ D = 10 * E
      BY <3>1, <3>5
    <3>7. 10 * a = P /\ 10 * b = Q
      BY <2>12, <2>13, <2>14, <3>6
    <3> QED
      BY <2>13, <3>6, <3>7 DEF F!Abs
  <2> QED
    BY <2>1, <2>5, <2>6, <2>15, <2>16, <2>17, <2>18, <2>20, <2>21
<1>4. F!Cardinality(DOMAIN answer.findings) = Cardinality(DOMAIN answer.findings)
  BY DEF F!Cardinality, Cardinality
<1> QED
  BY <1>1, <1>2, <1>3, <1>4 DEF F!TotalsFoot

\* Whole cents stay what they are.
LEMMA WholeCent ==
    ASSUME NEW n \in Int, NEW m \in Int, m = 10 * n PROVE F!quantize_money(m, 10) = n
<1>1. PICK q \in Int : q = F!quantize_money(m, 10) /\ 10 * q - m \in -5..5
  BY Cent
<1> QED
  BY <1>1

\* More is never rounded to less.
LEMMA MoreCents ==
    ASSUME NEW m \in Int, NEW n \in Int, m <= n
    PROVE  F!quantize_money(m, 10) <= F!quantize_money(n, 10)
<1>1. CASE m >= 0
  BY <1>1 DEF F!quantize_money
<1>2. CASE m < 0 /\ n >= 0
  BY <1>2 DEF F!quantize_money
<1>3. CASE n < 0
  BY <1>3 DEF F!quantize_money
<1> QED
  BY <1>1, <1>2, <1>3

\* A row that is recorded: what is favorable, to within a cent; of whole cents exactly.
RowFits(row, s, a, d) ==
    /\ row.standard_amount \in Int /\ row.actual_amount \in Int
    /\ row.actual_amount = F!quantize_money(a, 10)
    /\ row.variance_amount = F!quantize_money(d, 10)
    /\ row.favorable => row.standard_amount >= row.actual_amount
    /\ ~row.favorable => row.standard_amount <= row.actual_amount + 1
    /\ ~row.favorable => \A n \in Int : a = 10 * n \/ s = 10 * n => row.standard_amount <= row.actual_amount

LEMMA Recorded ==
    ASSUME NEW s \in Int, NEW a \in Int, NEW d \in Int, d = s - a
    PROVE  RowFits(F!record_variance(s, a), s, a, d)
<1> DEFINE row == F!record_variance(s, a)
<1>1. PICK S \in Int : S = F!quantize_money(s, 10) /\ 10 * S - s \in -5..5
  BY Cent
<1>2. PICK A \in Int : A = F!quantize_money(a, 10) /\ 10 * A - a \in -5..5
  BY Cent
<1>3. PICK V \in Int : V = F!quantize_money(d, 10) /\ 10 * V - d \in -5..5
  BY Cent
<1>4. row = [standard_amount |-> S, actual_amount |-> A, variance_amount |-> V, favorable |-> V > 0]
  BY <1>1, <1>2, <1>3 DEF F!record_variance, F!Variance
<1>5. V > 0 => S >= A
  <2>1. V > 0 => a <= s
    BY <1>3
  <2>2. a <= s => A <= S
    BY <1>1, <1>2, MoreCents
  <2> QED
    BY <2>1, <2>2, <1>1, <1>2, <1>3
<1>6. ~(V > 0) => S <= A + 1
  BY <1>1, <1>2, <1>3
<1>7. ASSUME ~(V > 0), NEW n \in Int, a = 10 * n \/ s = 10 * n PROVE S <= A
  <2>2. d < 5
    <3>1. CASE d < 5
      BY <3>1
    <3>2. CASE d >= 5
      <4>1. F!quantize_money(5, 10) = 1
        BY DEF F!quantize_money
      <4>2. V >= 1
        BY <1>3, <3>2, <4>1, MoreCents
      <4> QED
        BY <1>3, <1>7, <4>2
    <3> QED
      BY <3>1, <3>2
  <2>3. CASE a = 10 * n
    <3>1. PICK m \in Int : m = 10 * n + 4
      OBVIOUS
    <3>2. s <= m /\ A = n
      BY <1>2, <2>2, <2>3, <3>1
    <3>3. F!quantize_money(s, 10) <= F!quantize_money(m, 10)
      BY <3>2, MoreCents
    <3>4. PICK Q \in Int : Q = F!quantize_money(m, 10) /\ 10 * Q - m \in -5..5
      BY Cent
    <3>5. Q = n
      BY <3>1, <3>4
    <3> QED
      BY <1>1, <3>2, <3>3, <3>4, <3>5
  <2>4. CASE s = 10 * n
    <3>1. PICK m \in Int : m = 10 * n - 4
      OBVIOUS
    <3>2. m <= a /\ S = n
      BY <1>1, <2>2, <2>4, <3>1
    <3>3. F!quantize_money(m, 10) <= F!quantize_money(a, 10)
      BY <3>2, MoreCents
    <3>4. PICK Q \in Int : Q = F!quantize_money(m, 10) /\ 10 * Q - m \in -5..5
      BY Cent
    <3>5. Q = n
      BY <3>1, <3>4
    <3> QED
      BY <1>2, <3>2, <3>3, <3>4, <3>5
  <2> QED
    BY <1>7, <2>3, <2>4
<1>8. row.standard_amount = S /\ row.actual_amount = A /\ row.variance_amount = V
  BY <1>4
<1>9. row.favorable = (V > 0)
  BY <1>4
<1>10. row.favorable => row.standard_amount >= row.actual_amount
  BY <1>1, <1>2, <1>5, <1>8, <1>9
<1>11. ~row.favorable => row.standard_amount <= row.actual_amount + 1
  BY <1>1, <1>2, <1>6, <1>8, <1>9
<1>12. ~row.favorable => \A n \in Int : a = 10 * n \/ s = 10 * n => row.standard_amount <= row.actual_amount
  BY <1>7, <1>8, <1>9
<1> HIDE DEF row
<1>13. RowFits(row, s, a, d)
  BY <1>1, <1>2, <1>3, <1>8, <1>10, <1>11, <1>12 DEF RowFits
<1> QED
  BY <1>13 DEF row

\* The two variances of an entry, and of overhead.
LEMMA Splits == FigureInv /\ focus = "figures" => F!VariancesSplit
<1> SUFFICES ASSUME FigureInv, focus = "figures" PROVE F!VariancesSplit
  OBVIOUS
<1> SUFFICES ASSUME request.op \in {"entry", "overhead"}, answer.op = request.op
             PROVE  F!VariancesSplit
  BY DEF F!VariancesSplit, F!Answered
<1>1. Cents \subseteq Int /\ Mills \subseteq Int /\ Tenths \subseteq Int /\ Hours \subseteq Int /\ Asking
  BY FigureAssumption DEF FigureInv
<1>2. PICK units, needed, rate :
         units = request.units /\ needed = request.standard_quantity /\ rate = request.standard_rate
  OBVIOUS
<1>3. units \in Int /\ needed \in Int /\ rate \in Int
  BY <1>1, <1>2 DEF Asking
<1>4. PICK allowed \in Int : allowed = units * needed
  BY <1>3
<1>5. PICK standard \in Int : standard = rate * allowed
  BY <1>3
<1>6. PICK applied \in Int : /\ applied = F!quantize_money(standard, 10)
                             /\ 10 * applied - standard \in -5..5
  BY Cent
<1>7. ASSUME request.op = "entry"
      PROVE  /\ answer.rate.favorable => answer.rate.standard_amount >= answer.rate.actual_amount
             /\ ~answer.rate.favorable
                   => answer.rate.standard_amount <= answer.rate.actual_amount + 0
             /\ answer.efficiency.favorable
                   => answer.efficiency.standard_amount >= answer.efficiency.actual_amount
             /\ ~answer.efficiency.favorable
                   => answer.efficiency.standard_amount <= answer.efficiency.actual_amount + 1
             /\ F!Abs(answer.rate.variance_amount + answer.efficiency.variance_amount
                      - (applied - request.amount)) <= 1
  <2>0. PICK quantity \in Int, amount \in Int : quantity = request.quantity /\ amount = request.amount
    BY <1>1, <1>7 DEF Asking
  <2>1. PICK used \in Int : used = rate * quantity
    BY <1>3
  <2>2. PICK paid \in Int : paid = 10 * amount
    OBVIOUS
  <2>3. /\ answer.rate = F!record_variance(used, paid)
        /\ answer.efficiency = F!record_variance(standard, used)
    BY <1>2, <1>4, <1>5, <1>7, <2>0, <2>1, <2>2 DEF FigureInv, Answering, F!NoAnswer, F!entry_variances
  <2>4. PICK x \in Int, y \in Int : x = used - paid /\ y = standard - used
    OBVIOUS
  <2>5. RowFits(answer.rate, used, paid, x)
    BY <2>3, <2>2, <2>4, Recorded, Zenon
  <2>6. RowFits(answer.efficiency, standard, used, y)
    BY <2>1, <2>3, <2>4, Recorded, Zenon
  <2>7. /\ answer.rate.favorable => answer.rate.standard_amount >= answer.rate.actual_amount
        /\ ~answer.rate.favorable
              => answer.rate.standard_amount <= answer.rate.actual_amount + 0
    BY <1>3, <2>2, <2>5 DEF RowFits
  <2>8. /\ answer.efficiency.favorable
              => answer.efficiency.standard_amount >= answer.efficiency.actual_amount
        /\ ~answer.efficiency.favorable
              => answer.efficiency.standard_amount <= answer.efficiency.actual_amount + 1
    BY <2>6 DEF RowFits
  <2>9. PICK X \in Int : X = F!quantize_money(x, 10) /\ 10 * X - x \in -5..5
    BY Cent
  <2>10. PICK Z \in Int : Z = F!quantize_money(y, 10) /\ 10 * Z - y \in -5..5
    BY Cent
  <2>11. answer.rate.variance_amount = X /\ answer.efficiency.variance_amount = Z
    BY <2>5, <2>6, <2>9, <2>10 DEF RowFits
  <2>12. F!Abs(X + Z - (applied - amount)) <= 1
    BY <1>3, <1>6, <2>2, <2>4, <2>9, <2>10 DEF F!Abs
  <2>13. F!Abs(answer.rate.variance_amount + answer.efficiency.variance_amount
               - (applied - request.amount)) <= 1
    BY <2>0, <2>11, <2>12
  <2> QED
    BY <2>7, <2>8, <2>13, Zenon
<1>8. ASSUME request.op = "overhead"
      PROVE  /\ answer.spending.favorable
                   => answer.spending.standard_amount >= answer.spending.actual_amount
             /\ ~answer.spending.favorable
                   => answer.spending.standard_amount <= answer.spending.actual_amount + 0
             /\ answer.volume.favorable
                   => answer.volume.standard_amount >= answer.volume.actual_amount
             /\ ~answer.volume.favorable
                   => answer.volume.standard_amount <= answer.volume.actual_amount + 0
             /\ F!Abs(answer.spending.variance_amount + answer.volume.variance_amount
                      - (applied - answer.spending.actual_amount)) <= 1
             /\ request.actual % 10 # 5 =>
                    answer.spending.variance_amount + answer.volume.variance_amount
                        - (applied - answer.spending.actual_amount) = 0
  <2>0. PICK m \in Int, fixed \in Int, variable \in Int :
           m = request.actual /\ fixed = request.fixed /\ variable = request.variable_rate
    BY <1>1, <1>8 DEF Asking
  <2>1. PICK n \in Int : n = 10 * fixed + variable * allowed
    BY <1>3
  <2>2. PICK budgeted \in Int : budgeted = F!quantize_money(n, 10)
    BY Cent
  <2>3. allowed * rate = standard
    BY <1>3, <1>5
  <2>4. PICK b \in Int, a \in Int : b = 10 * budgeted /\ a = 10 * applied
    BY <1>6
  <2>5. F!budgeted_overhead_at_sha(request, allowed) = budgeted
    BY <2>0, <2>1, <2>2 DEF F!budgeted_overhead_at_sha
  <2>6. answer = F!overhead_variances(request)
    BY <1>8 DEF FigureInv, Answering, F!NoAnswer
  <2>7. /\ answer.spending = F!record_variance(b, m)
        /\ answer.volume = F!record_variance(a, b)
    BY <1>2, <1>4, <1>6, <2>0, <2>3, <2>4, <2>5, <2>6 DEF F!overhead_variances
  <2>8. PICK x \in Int, y \in Int : x = b - m /\ y = a - b
    OBVIOUS
  <2>9. b \in Int /\ m \in Int /\ a \in Int /\ x \in Int /\ y \in Int /\ x = b - m /\ y = a - b
    BY <2>4, <2>8
  <2>10. RowFits(answer.spending, b, m, x)
    BY <2>7, <2>9, Recorded
  <2>11. RowFits(answer.volume, a, b, y)
    BY <2>7, <2>9, Recorded
  <2>12. /\ answer.spending.favorable
               => answer.spending.standard_amount >= answer.spending.actual_amount
         /\ ~answer.spending.favorable
               => answer.spending.standard_amount <= answer.spending.actual_amount + 0
    BY <2>2, <2>4, <2>10 DEF RowFits
  <2>13. /\ answer.volume.favorable
               => answer.volume.standard_amount >= answer.volume.actual_amount
         /\ ~answer.volume.favorable
               => answer.volume.standard_amount <= answer.volume.actual_amount + 0
    BY <2>2, <2>4, <2>11 DEF RowFits
  <2>14. PICK X \in Int : X = F!quantize_money(x, 10) /\ 10 * X - x \in -5..5
    BY Cent
  <2>15. PICK A \in Int : A = F!quantize_money(m, 10) /\ 10 * A - m \in -5..5
    BY Cent
  <2>16. PICK v \in Int : v = applied - budgeted /\ y = 10 * v
    BY <2>4, <2>8, <1>6, <2>2
  <2>17. /\ answer.spending.variance_amount = X /\ answer.spending.actual_amount = A
         /\ answer.volume.variance_amount = v
    <3>1. F!quantize_money(y, 10) = v
      BY <2>9, <2>16, WholeCent
    <3> QED
      BY <3>1, <2>10, <2>11, <2>14, <2>15 DEF RowFits
  <2>18. X + v - (applied - A) = X + A - budgeted
    BY <2>16, <1>6, <2>2
  <2>19. 10 * X + m - 10 * budgeted \in -5..5
    BY <2>4, <2>8, <2>14
  <2>20. F!Abs(X + A - budgeted) <= 1
    BY <2>15, <2>19 DEF F!Abs
  <2>21. ASSUME m % 10 # 5 PROVE X + A - budgeted = 0
    <3>1. 10 * A - m \in -4..4
      BY <2>15, <2>21
    <3> QED
      BY <2>19, <3>1
  <2> QED
    BY <2>0, <2>12, <2>13, <2>17, <2>18, <2>20, <2>21, Zenon
<1>9. request.standard_rate * (request.units * request.standard_quantity) = standard
  BY <1>2, <1>4, <1>5
<1>10. F!quantize_money(request.standard_rate * (request.units * request.standard_quantity), 10)
           = applied
  BY <1>6, <1>9
<1> QED
  BY <1>7, <1>8, <1>10 DEF F!VariancesSplit, F!Answered

\* A burdened cost is rounded once; so is what is trued up.
LEMMA Burdens == FigureInv /\ focus = "figures" => F!BurdenIsExact
<1> SUFFICES ASSUME FigureInv, focus = "figures" PROVE F!BurdenIsExact
  OBVIOUS
<1>1. ASSUME F!Answered("burden"), NEW s, s = answer.snapshot,
             NEW n, n = s.direct_labor * (10 + s.fringe) * (10 + s.overhead) * (10 + s.ga)
      PROVE  F!Abs(10000 * answer.result - n) <= 5000
  <2>1. answer.result = F!FullyBurdened(s) /\ s = request.snapshot
    BY <1>1 DEF F!Answered, FigureInv, Answering, F!NoAnswer, F!burdened_cost
  <2>2. s.direct_labor \in Int /\ s.fringe \in Int /\ s.overhead \in Int /\ s.ga \in Int
    BY <1>1, <2>1, FigureAssumption DEF FigureInv, Asking, F!Answered
  <2>3. s.direct_labor * (10 + s.fringe) \in Int
    BY <2>2
  <2>4. s.direct_labor * (10 + s.fringe) * (10 + s.overhead) \in Int
    BY <2>2, <2>3
  <2>5. s.direct_labor * (10 + s.fringe) * (10 + s.overhead) * (10 + s.ga) \in Int
    BY <2>2, <2>4
  <2>6. n \in Int
    BY <1>1, <2>5
  <2>7. PICK q \in Int : q = F!quantize_money(n, 10000)
    BY <2>6, DeciMil
  <2>8. 10000 * q <= n + 5000 /\ n - 5000 <= 10000 * q
    BY <2>7, <2>6, DeciMil
  <2>9. answer.result = q
    <3>1. F!FullyBurdened(s) = F!quantize_money(n, 10000)
      BY <1>1 DEF F!FullyBurdened
    <3> QED
      BY <2>1, <2>7, <3>1
  <2>10. F!Abs(10000 * q - n) <= 5000
    BY <2>6, <2>8 DEF F!Abs
  <2> QED
    BY <2>9, <2>10
<1>2. ASSUME F!Answered("true_up")
      PROVE  F!Abs(F!quantize_money(request.base * request.provisional, 100) + answer.delta
               - F!quantize_money(request.base * request.final, 100)) <= 1
  <2>1. answer.delta = F!quantize_money(request.base * (request.final - request.provisional), 100)
    BY <1>2 DEF F!Answered, FigureInv, Answering, F!NoAnswer, F!true_up, F!Delta
  <2>2. request.base \in Int /\ request.provisional \in Int /\ request.final \in Int
    BY <1>2, FigureAssumption DEF FigureInv, Asking, F!Answered
  <2>3. PICK p \in Int, f \in Int, d \in Int :
           /\ p = request.base * request.provisional /\ f = request.base * request.final
           /\ d = request.base * (request.final - request.provisional)
    BY <2>2
  <2>4. d = f - p
    BY <2>2, <2>3
  <2>5. PICK P \in Int : P = F!quantize_money(p, 100) /\ 100 * P <= p + 50 /\ p - 50 <= 100 * P
    BY Mil
  <2>6. PICK Q \in Int : Q = F!quantize_money(f, 100) /\ 100 * Q <= f + 50 /\ f - 50 <= 100 * Q
    BY Mil
  <2>7. PICK D \in Int : D = F!quantize_money(d, 100) /\ 100 * D <= d + 50 /\ d - 50 <= 100 * D
    BY Mil
  <2>8. F!Abs(P + D - Q) <= 1
    BY <2>4, <2>5, <2>6, <2>7 DEF F!Abs
  <2> QED
    BY <2>1, <2>3, <2>5, <2>6, <2>7, <2>8
<1> QED
  BY <1>1, <1>2 DEF F!BurdenIsExact

\* pricing_analysis, variances, rates.burdened_cost and true_up, whatever is
\* asked: totals are the sums of their lines, variances split what they should,
\* and what is rounded is off by no more than its one rounding allows.
THEOREM FiguresAlwaysFoot == ReportingSpec => []FiguresFoot
<1>1. FigureInv => FiguresFoot
  BY Foots, Splits, Burdens DEF FiguresFoot
<1> QED
  BY <1>1, FigureInvariant, PTL

-----------------------------------------------------------------------------
(* Rows and their sums *)

Amounts(rows) == [i \in DOMAIN rows |-> rows[i].amount]
Added(rows, set) == SumFunctionOnSet(Amounts(rows), set)
Seen(rows) == {rows[i] : i \in DOMAIN rows}

\* A sequence of rows with amounts.
Rows(rows) == rows \in Seq(Seen(rows)) /\ \A i \in DOMAIN rows : rows[i].amount \in Int

\* YearEnd adds up amounts as Sums does.
LEMMA YearSum == ASSUME NEW rows, NEW set PROVE Y!AddUp(rows, set) = Added(rows, set)
BY DEF Y!AddUp, Y!SumFunctionOnSet, Y!FoldFunctionOnSet, Y!MapThenFoldSet, Added, Amounts,
   SumFunctionOnSet, FoldFunctionOnSet, MapThenFoldSet

\* Of finitely many rows, each an integer: any of them have a sum.
LEMMA RowsAdd ==
    ASSUME NEW rows, Rows(rows), NEW set \in SUBSET DOMAIN rows
    PROVE  /\ IsFiniteSet(set) /\ \A i \in set : Amounts(rows)[i] \in Int
           /\ Added(rows, set) \in Int
<1>1. Len(rows) \in Nat /\ DOMAIN rows = 1..Len(rows)
  BY DEF Rows
<1>2. IsFiniteSet(set)
  <2>1. IsFiniteSet(1..Len(rows))
    BY <1>1, FS_Interval
  <2> QED
    BY <1>1, <2>1, FS_Subset
<1>3. \A i \in set : Amounts(rows)[i] \in Int
  BY DEF Rows, Amounts
<1> QED
  BY <1>2, <1>3, SumType DEF Added

\* Two lots of rows.
LEMMA RowsUnion ==
    ASSUME NEW rows, Rows(rows), NEW R \in SUBSET DOMAIN rows, NEW S \in SUBSET DOMAIN rows,
           R \intersect S = {}
    PROVE  Added(rows, R \union S) = Added(rows, R) + Added(rows, S)
<1>1. IsFiniteSet(R) /\ IsFiniteSet(S) /\ \A i \in R \union S : Amounts(rows)[i] \in Int
  BY RowsAdd
<1> QED
  BY <1>1, SumUnion DEF Added

\* No rows.
LEMMA NoRows == ASSUME NEW rows PROVE Added(rows, {}) = 0
BY SumEmpty DEF Added

\* More rows, none of them a credit, add up to no less.
LEMMA RowsMore ==
    ASSUME NEW rows, Rows(rows), \A i \in DOMAIN rows : rows[i].amount >= 0,
           NEW S \in SUBSET DOMAIN rows, NEW R \in SUBSET S
    PROVE  0 <= Added(rows, R) /\ Added(rows, R) <= Added(rows, S)
<1>1. PICK T : T = S \ R
  OBVIOUS
<1>2. R \in SUBSET DOMAIN rows /\ T \in SUBSET DOMAIN rows /\ R \intersect T = {} /\ R \union T = S
  BY <1>1
<1>3. Added(rows, S) = Added(rows, R) + Added(rows, T)
  BY <1>2, RowsUnion
<1>4. ASSUME NEW Q \in SUBSET DOMAIN rows PROVE Added(rows, Q) \in Nat
  <2>1. IsFiniteSet(Q)
    BY RowsAdd
  <2>2. \A i \in Q : Amounts(rows)[i] \in Nat
    BY DEF Rows, Amounts
  <2> QED
    BY <2>1, <2>2, SumNat DEF Added
<1>5. Added(rows, R) \in Nat /\ Added(rows, T) \in Nat
  BY <1>2, <1>4
<1> QED
  BY <1>3, <1>5

\* A row more: number n, the others and their sums as they were.
Longer(more, rows, row, n) ==
    /\ n \notin DOMAIN rows /\ DOMAIN more = DOMAIN rows \union {n}
    /\ more[n] = row /\ \A i \in DOMAIN rows : more[i] = rows[i]
    /\ Rows(more)
    /\ \A set \in SUBSET DOMAIN rows : Added(more, set) = Added(rows, set)

LEMMA RowAppended ==
    ASSUME NEW rows, Rows(rows), NEW row, row.amount \in Int
    PROVE  \E n : Longer(Append(rows, row), rows, row, n)
<1>1. PICK more : more = Append(rows, row)
  OBVIOUS
<1>2. PICK n : n = Len(rows) + 1
  OBVIOUS
<1>3. rows \in Seq(Seen(rows)) /\ Len(rows) \in Nat /\ DOMAIN rows = 1..Len(rows)
  BY DEF Rows
<1>4. PICK S : S = Seen(rows) \union {row}
  OBVIOUS
<1>5. rows \in Seq(S) /\ row \in S
  BY <1>3, <1>4
<1>6. /\ more \in Seq(S) /\ Len(more) = n /\ DOMAIN more = 1..n
      /\ more[n] = row /\ \A i \in 1..Len(rows) : more[i] = rows[i]
  BY <1>1, <1>2, <1>3, <1>5
<1>7. n \notin DOMAIN rows /\ DOMAIN more = DOMAIN rows \union {n}
  BY <1>2, <1>3, <1>6
<1>8. \A i \in DOMAIN more : more[i] \in Seen(more)
  BY DEF Seen
<1>9. more \in Seq(Seen(more))
  <2>1. \A i \in 1..Len(more) : more[i] \in Seen(more)
    BY <1>6, <1>8
  <2> QED
    BY <1>6, <2>1
<1>10. \A i \in DOMAIN more : more[i].amount \in Int
  BY <1>3, <1>6, <1>7 DEF Rows
<1>11. ASSUME NEW set \in SUBSET DOMAIN rows PROVE Added(more, set) = Added(rows, set)
  <2>1. IsFiniteSet(set) /\ \A i \in set : Amounts(rows)[i] \in Int
    BY RowsAdd
  <2>2. \A i \in set : Amounts(rows)[i] = Amounts(more)[i]
    BY <1>3, <1>6, <1>7 DEF Amounts
  <2> QED
    BY <2>1, <2>2, SumAgrees DEF Added
<1>12. Longer(more, rows, row, n)
  BY <1>3, <1>6, <1>7, <1>9, <1>10, <1>11 DEF Rows, Longer
<1> QED
  BY <1>1, <1>12

-----------------------------------------------------------------------------
(* The year's books *)

DirectRows(rows, c, p) ==
    {i \in DOMAIN rows : Y!IsDirect(rows[i]) /\ rows[i].contract = c /\ rows[i].period = p}
RowsOf(rows, c, p) == {i \in DOMAIN rows : rows[i].contract = c /\ rows[i].period = p}
Meanwhile(rows, c) == {i \in DOMAIN rows : Y!DuringContract(rows[i], c)}
Ours(rows, c) == {i \in DOMAIN rows : rows[i].contract = c /\ Y!DuringContract(rows[i], c)}
Uncredited(rows) == \A i \in DOMAIN rows : rows[i].amount >= 0

\* The totals of YearEnd are sums over these.
LEMMA Totals ==
    ASSUME NEW c, NEW p
    PROVE  /\ Y!DirectTotal(c, p) = Added(gl, DirectRows(gl, c, p))
           /\ Y!JclTotal(c, p) = Added(jcl, RowsOf(jcl, c, p))
           /\ Y!Billed(c, p) = Added(vouchers, RowsOf(vouchers, c, p))
           /\ Y!ContractBillings(c) = Added(vouchers, Ours(vouchers, c))
           /\ Y!BilledIn(c, p) <=> RowsOf(vouchers, c, p) # {}
<1>1. Y!DirectTotal(c, p) = Y!AddUp(gl, DirectRows(gl, c, p))
  BY DEF Y!DirectTotal, Y!Total, Y!Where, DirectRows
<1>2. Y!JclTotal(c, p) = Y!AddUp(jcl, RowsOf(jcl, c, p))
  BY DEF Y!JclTotal, Y!Total, Y!Where, RowsOf
<1>3. Y!Billed(c, p) = Y!AddUp(vouchers, RowsOf(vouchers, c, p))
  BY DEF Y!Billed, Y!Total, Y!Where, RowsOf
<1>4. Y!ContractBillings(c) = Y!AddUp(vouchers, Ours(vouchers, c))
  BY DEF Y!ContractBillings, Y!Total, Y!Where, Ours
<1>5. Y!BilledIn(c, p) <=> RowsOf(vouchers, c, p) # {}
  BY DEF Y!BilledIn, RowsOf
<1> QED
  BY <1>1, <1>2, <1>3, <1>4, <1>5, YearSum

\* An entry as it was posted: with the vector of its account.
EntryFits(t) ==
    /\ Y!AccountOf(t) \in Account
    /\ t.contract \in Contract \union {Null} /\ t.period \in 1..Periods /\ t.amount \in Int
    /\ Y!IsDirect(t) => t.contract # Null
    /\ t.vector.far = Y!Far312(Y!AccountOf(t))
    /\ t.vector.allocability = Y!Allocability(Y!AccountOf(t))

BooksFit ==
    /\ Rows(gl) /\ Rows(jcl) /\ Rows(vouchers)
    /\ \A i \in DOMAIN gl : EntryFits(gl[i])
    /\ \A i \in DOMAIN jcl : jcl[i] \in JobCosts
    /\ \A i \in DOMAIN vouchers : vouchers[i] \in Invoices
    /\ closed \subseteq 1..Periods /\ late \in BOOLEAN

\* A closed period's books tie, and unless a voucher was late nobody billed
\* more than there was.
Tied(c, p) == Added(gl, DirectRows(gl, c, p)) = Added(jcl, RowsOf(jcl, c, p))
Covered(c, p) ==
    RowsOf(vouchers, c, p) # {}
        => Added(vouchers, RowsOf(vouchers, c, p)) <= Added(gl, DirectRows(gl, c, p))
ClosedTie == \A p \in closed, c \in Contract : Tied(c, p) /\ (~late => Covered(c, p))

\* What a claim in the making has read is not more than there is now.
HasRead(c, billings) ==
    /\ inquiry = [contract |-> c, billings |-> billings]
    /\ Uncredited(vouchers) => 0 <= billings /\ billings <= Added(vouchers, Ours(vouchers, c))
InquiryFits ==
    \/ inquiry = None
    \/ \E c \in Contract : inquiry = [contract |-> c, billings |-> Null]
    \/ \E c \in Contract, billings \in Int : HasRead(c, billings)

\* A claim as it was made.
ClaimFits(claim) ==
    /\ claim.type = "claim" /\ Y!verify_claim(claim)
    /\ Uncredited(vouchers) =>
           /\ claim.contract_billings <= claim.total_billings
           /\ claim.overhead >= 0 => claim.steps[1] <= claim.overhead

Schedule(row) ==
    \E type \in {"A", "B", "C", "E", "G", "H", "I", "L", "N", "O"} : \E passed :
        row = [type |-> type, passed |-> passed]
Noted(row) == \E notes : row = [type |-> "notes", notes |-> notes]

DocumentFits ==
    document = None \/ Schedule(document) \/ Noted(document) \/ ClaimFits(document)

YearInv ==
    /\ focus \in {"figures", "year"}
    /\ focus = "year" => BooksFit /\ ClosedTie /\ InquiryFits /\ DocumentFits

\* Empty books.
LEMMA YearStarts == ReportingInit => YearInv
<1> SUFFICES ASSUME ReportingInit PROVE YearInv
  OBVIOUS
<1>1. focus \in {"figures", "year"} /\ (focus = "year" => Y!YearInit)
  BY DEF ReportingInit, FiguresInit, YearInit
<1>2. ASSUME Y!YearInit PROVE BooksFit /\ ClosedTie /\ InquiryFits /\ DocumentFits
  <2>1. gl = <<>> /\ jcl = <<>> /\ vouchers = <<>> /\ closed = {} /\ late = FALSE
        /\ inquiry = None /\ document = None
    BY <1>2 DEF Y!YearInit
  <2>2. \A S : <<>> \in Seq(S) /\ DOMAIN <<>> = {}
    OBVIOUS
  <2>3. Rows(<<>>)
    BY <2>2 DEF Rows
  <2>4. BooksFit
    BY <2>1, <2>2, <2>3 DEF BooksFit
  <2> QED
    BY <2>1, <2>4 DEF ClosedTie, InquiryFits, DocumentFits
<1> QED
  BY <1>1, <1>2 DEF YearInv

\* What is posted into another period leaves a period's rows and their sum.
LEMMA OtherPeriod ==
    ASSUME NEW rows, Rows(rows), NEW row, row.amount \in Int,
           NEW more, NEW n, Longer(more, rows, row, n),
           NEW c, NEW p, row.period # p
    PROVE  /\ DirectRows(more, c, p) = DirectRows(rows, c, p)
           /\ RowsOf(more, c, p) = RowsOf(rows, c, p)
           /\ Added(more, DirectRows(more, c, p)) = Added(rows, DirectRows(rows, c, p))
           /\ Added(more, RowsOf(more, c, p)) = Added(rows, RowsOf(rows, c, p))
<1>1. /\ n \notin DOMAIN rows /\ DOMAIN more = DOMAIN rows \union {n}
      /\ more[n] = row /\ \A i \in DOMAIN rows : more[i] = rows[i]
      /\ \A set \in SUBSET DOMAIN rows : Added(more, set) = Added(rows, set)
  BY DEF Longer
<1>2. DirectRows(more, c, p) = DirectRows(rows, c, p)
  BY <1>1 DEF DirectRows
<1>3. RowsOf(more, c, p) = RowsOf(rows, c, p)
  BY <1>1 DEF RowsOf
<1>4. DirectRows(rows, c, p) \in SUBSET DOMAIN rows /\ RowsOf(rows, c, p) \in SUBSET DOMAIN rows
  BY DEF DirectRows, RowsOf
<1> QED
  BY <1>1, <1>2, <1>3, <1>4

\* The books alone decide what BooksFit and ClosedTie say.
LEMMA BooksKept ==
    ASSUME BooksFit, ClosedTie, UNCHANGED <<gl, jcl, vouchers, closed, late>>
    PROVE  BooksFit' /\ ClosedTie'
BY DEF BooksFit, ClosedTie, Tied, Covered

\* A claim stands as long as vouchers do.
LEMMA ClaimsKept ==
    ASSUME InquiryFits, DocumentFits, UNCHANGED <<vouchers, inquiry, document>>
    PROVE  InquiryFits' /\ DocumentFits'
BY DEF InquiryFits, HasRead, DocumentFits, ClaimFits

\* post_transaction.
LEMMA PostingFits ==
    ASSUME BooksFit, ClosedTie, InquiryFits, DocumentFits, Y!PostTransaction
    PROVE  BooksFit' /\ ClosedTie' /\ InquiryFits' /\ DocumentFits'
<1>1. PICK t \in Transactions :
         /\ t.period \notin closed /\ (Y!IsDirect(t) => t.contract # Null)
         /\ gl' = Append(gl, Y!Posted(t, Y!evaluate_allowability(t, gl)))
         /\ UNCHANGED <<jcl, vouchers, payroll, late>> /\ UNCHANGED <<closed, inquiry, document>>
  BY DEF Y!PostTransaction, Y!Kept
<1>2. PICK row : row = Y!Posted(t, Y!evaluate_allowability(t, gl))
  OBVIOUS
<1>3. /\ row.account = t.account /\ row.contract = t.contract /\ row.period = t.period
      /\ row.amount = t.amount
      /\ row.vector.far = Y!Far312(Y!AccountOf(t))
      /\ row.vector.allocability = Y!Allocability(Y!AccountOf(t))
  BY <1>2 DEF Y!Posted, Y!evaluate_allowability
<1>4. Y!AccountOf(row) = Y!AccountOf(t)
  BY <1>3 DEF Y!AccountOf
<1>5. Y!AccountOf(t) \in Account
  <2>1. PICK a \in Account : a.code = t.account
    BY PostingAssumption
  <2> QED
    BY <2>1 DEF Y!AccountOf
<1>6. /\ t.contract \in Contract \union {Null} /\ t.period \in 1..Periods /\ t.amount \in Int
  BY PostingAssumption
<1>7. EntryFits(row)
  BY <1>1, <1>3, <1>4, <1>5, <1>6 DEF EntryFits, Y!IsDirect
<1>8. Rows(gl) /\ row.amount \in Int /\ gl' = Append(gl, row)
  BY <1>1, <1>2, <1>3, <1>6 DEF BooksFit
<1>9. PICK n : Longer(gl', gl, row, n)
  BY <1>8, RowAppended
<1>10. Rows(gl') /\ \A i \in DOMAIN gl' : EntryFits(gl'[i])
  BY <1>7, <1>9 DEF BooksFit, Longer
<1>11. BooksFit'
  <2>1. (\A i \in DOMAIN gl : EntryFits(gl[i]))'
    BY <1>10 DEF EntryFits
  <2> QED
    BY <1>1, <1>10, <2>1 DEF BooksFit
<1>12. ClosedTie'
  <2> SUFFICES ASSUME NEW p \in closed, NEW c \in Contract
               PROVE  Tied(c, p)' /\ (~late => Covered(c, p)')
    BY <1>1 DEF ClosedTie
  <2>1. row.period # p
    BY <1>1, <1>3
  <2>2. Added(gl', DirectRows(gl', c, p)) = Added(gl, DirectRows(gl, c, p))
    BY <1>8, <1>9, <2>1, OtherPeriod
  <2>3. Tied(c, p) /\ (~late => Covered(c, p))
    BY DEF ClosedTie
  <2> QED
    BY <1>1, <2>2, <2>3 DEF Tied, Covered
<1> QED
  BY <1>1, <1>11, <1>12, ClaimsKept

\* A JCLEntry.
LEMMA EntryPostingFits ==
    ASSUME BooksFit, ClosedTie, InquiryFits, DocumentFits, Y!PostEntry
    PROVE  BooksFit' /\ ClosedTie' /\ InquiryFits' /\ DocumentFits'
<1>1. PICK row \in JobCosts :
         /\ row.period \notin closed /\ jcl' = Append(jcl, row)
         /\ UNCHANGED <<gl, vouchers, payroll, late>> /\ UNCHANGED <<closed, inquiry, document>>
  BY DEF Y!PostEntry, Y!Kept
<1>2. Rows(jcl) /\ row.amount \in Int
  BY PostingAssumption DEF BooksFit
<1>3. PICK n : Longer(jcl', jcl, row, n)
  BY <1>1, <1>2, RowAppended
<1>4. Rows(jcl') /\ \A i \in DOMAIN jcl' : jcl'[i] \in JobCosts
  BY <1>3 DEF BooksFit, Longer
<1>5. BooksFit'
  <2>1. (\A i \in DOMAIN gl : EntryFits(gl[i]))'
    BY <1>1 DEF BooksFit, EntryFits
  <2> QED
    BY <1>1, <1>4, <2>1 DEF BooksFit
<1>6. ClosedTie'
  <2> SUFFICES ASSUME NEW p \in closed, NEW c \in Contract
               PROVE  Tied(c, p)' /\ (~late => Covered(c, p)')
    BY <1>1 DEF ClosedTie
  <2>1. row.period # p
    BY <1>1
  <2>2. Added(jcl', RowsOf(jcl', c, p)) = Added(jcl, RowsOf(jcl, c, p))
    BY <1>2, <1>3, <2>1, OtherPeriod
  <2>3. Tied(c, p) /\ (~late => Covered(c, p))
    BY DEF ClosedTie
  <2> QED
    BY <1>1, <2>2, <2>3 DEF Tied, Covered
<1> QED
  BY <1>1, <1>5, <1>6, ClaimsKept

\* A Voucher: a credit apart, what was read for a claim only grows.
LEMMA VoucherFits ==
    ASSUME BooksFit, ClosedTie, InquiryFits, DocumentFits, Y!PostVoucher
    PROVE  BooksFit' /\ ClosedTie' /\ InquiryFits' /\ DocumentFits'
<1>1. PICK row \in Invoices :
         /\ vouchers' = Append(vouchers, row) /\ late' = (late \/ row.period \in closed)
         /\ UNCHANGED <<gl, jcl, payroll>> /\ UNCHANGED <<closed, inquiry, document>>
  BY DEF Y!PostVoucher, Y!Kept
<1>2. Rows(vouchers) /\ row.amount \in Int
  BY PostingAssumption DEF BooksFit
<1>3. PICK n : Longer(vouchers', vouchers, row, n)
  BY <1>1, <1>2, RowAppended
<1>4. Rows(vouchers') /\ \A i \in DOMAIN vouchers' : vouchers'[i] \in Invoices
  BY <1>3 DEF BooksFit, Longer
<1>5. BooksFit'
  <2>1. (\A i \in DOMAIN gl : EntryFits(gl[i]))'
    BY <1>1 DEF BooksFit, EntryFits
  <2>2. late' \in BOOLEAN
    BY <1>1 DEF BooksFit
  <2> QED
    BY <1>1, <1>4, <2>1, <2>2 DEF BooksFit
<1>6. ClosedTie'
  <2> SUFFICES ASSUME NEW p \in closed, NEW c \in Contract
               PROVE  Tied(c, p)' /\ (~late' => Covered(c, p)')
    BY <1>1 DEF ClosedTie
  <2>1. Tied(c, p) /\ (~late => Covered(c, p))
    BY DEF ClosedTie
  <2>2. ASSUME ~late' PROVE Covered(c, p)'
    <3>1. ~late /\ row.period # p
      BY <1>1, <2>2
    <3>2. /\ RowsOf(vouchers', c, p) = RowsOf(vouchers, c, p)
          /\ Added(vouchers', RowsOf(vouchers', c, p)) = Added(vouchers, RowsOf(vouchers, c, p))
      BY <1>2, <1>3, <3>1, OtherPeriod
    <3> QED
      BY <1>1, <2>1, <3>1, <3>2 DEF Covered
  <2> QED
    BY <1>1, <2>1, <2>2 DEF Tied
<1>7. Uncredited(vouchers') => Uncredited(vouchers)
  BY <1>3 DEF Uncredited, Longer
<1>8. ASSUME NEW c, Uncredited(vouchers')
      PROVE  Added(vouchers, Ours(vouchers, c)) <= Added(vouchers', Ours(vouchers', c))
  <2>1. PICK R : R = Ours(vouchers, c)
    OBVIOUS
  <2>2. PICK S : S = Ours(vouchers', c)
    OBVIOUS
  <2>3. R \in SUBSET DOMAIN vouchers /\ R \in SUBSET S /\ S \in SUBSET DOMAIN vouchers'
    BY <1>3, <2>1, <2>2 DEF Ours, Longer
  <2>4. Added(vouchers', R) = Added(vouchers, R)
    BY <1>3, <2>3 DEF Longer
  <2>5. Added(vouchers', R) <= Added(vouchers', S)
    BY <1>4, <1>8, <2>3, RowsMore DEF Uncredited
  <2> QED
    BY <2>1, <2>2, <2>4, <2>5
<1>9. InquiryFits'
  <2>1. CASE \/ inquiry = None
             \/ \E c \in Contract : inquiry = [contract |-> c, billings |-> Null]
    BY <1>1, <2>1 DEF InquiryFits
  <2>2. ASSUME NEW c \in Contract, NEW billings \in Int,
               HasRead(c, billings)
        PROVE  InquiryFits'
    <3>1. ASSUME Uncredited(vouchers')
          PROVE  0 <= billings /\ billings <= Added(vouchers', Ours(vouchers', c))
      <4>1. 0 <= billings /\ billings <= Added(vouchers, Ours(vouchers, c))
        BY <1>7, <2>2, <3>1 DEF HasRead
      <4>2. /\ Ours(vouchers, c) \in SUBSET DOMAIN vouchers
            /\ Ours(vouchers', c) \in SUBSET DOMAIN vouchers'
        BY DEF Ours
      <4>3. /\ Added(vouchers, Ours(vouchers, c)) \in Int
            /\ Added(vouchers', Ours(vouchers', c)) \in Int
        BY <1>2, <1>4, <4>2, RowsAdd
      <4>4. Added(vouchers, Ours(vouchers, c)) <= Added(vouchers', Ours(vouchers', c))
        BY <1>8, <3>1
      <4> QED
        BY <4>1, <4>3, <4>4
    <3>2. HasRead(c, billings)'
      BY <1>1, <2>2, <3>1 DEF HasRead
    <3> QED
      BY <3>2 DEF InquiryFits
  <2> QED
    BY <2>1, <2>2 DEF InquiryFits
<1>10. DocumentFits'
  <2>1. ClaimFits(document) => ClaimFits(document)'
    BY <1>1, <1>7 DEF ClaimFits
  <2> QED
    BY <1>1, <2>1 DEF DocumentFits
<1> QED
  BY <1>5, <1>6, <1>9, <1>10

\* The payroll is of no concern here.
LEMMA PayrollFits ==
    ASSUME BooksFit, ClosedTie, InquiryFits, DocumentFits, Y!PostPayroll
    PROVE  BooksFit' /\ ClosedTie' /\ InquiryFits' /\ DocumentFits'
<1>1. UNCHANGED <<gl, jcl, vouchers, late>> /\ UNCHANGED <<closed, inquiry, document>>
  BY DEF Y!PostPayroll, Y!Kept
<1> QED
  BY <1>1, BooksKept, ClaimsKept

\* close_period: three_way_reconciliation is what ClosedTie remembers.
LEMMA CloseFits ==
    ASSUME BooksFit, ClosedTie, InquiryFits, DocumentFits, Y!ClosePeriod
    PROVE  BooksFit' /\ ClosedTie' /\ InquiryFits' /\ DocumentFits'
<1>1. PICK p \in 1..Periods :
         /\ Y!Reconciled(p) /\ closed' = closed \union {p}
         /\ UNCHANGED <<late, inquiry, document>> /\ UNCHANGED <<gl, jcl, vouchers, payroll>>
  BY DEF Y!ClosePeriod, Y!Period, Y!books
<1>2. BooksFit'
  <2>1. (\A i \in DOMAIN gl : EntryFits(gl[i]))'
    BY <1>1 DEF BooksFit, EntryFits
  <2> QED
    BY <1>1, <2>1 DEF BooksFit
<1>3. ASSUME NEW c \in Contract PROVE Tied(c, p) /\ Covered(c, p)
  <2>1. Y!DirectTotal(c, p) = Y!JclTotal(c, p)
    BY <1>1 DEF Y!Reconciled
  <2>2. Tied(c, p)
    BY <2>1, Totals DEF Tied
  <2>3. ~(Y!BilledIn(c, p) /\ Y!Billed(c, p) > Y!DirectTotal(c, p))
    BY <1>1 DEF Y!Reconciled, Y!BillingVariances
  <2>4. PICK b \in Int : b = Added(vouchers, RowsOf(vouchers, c, p))
    <3>1. RowsOf(vouchers, c, p) \in SUBSET DOMAIN vouchers
      BY DEF RowsOf
    <3> QED
      BY <3>1, RowsAdd DEF BooksFit
  <2>5. PICK d \in Int : d = Added(gl, DirectRows(gl, c, p))
    <3>1. DirectRows(gl, c, p) \in SUBSET DOMAIN gl
      BY DEF DirectRows
    <3> QED
      BY <3>1, RowsAdd DEF BooksFit
  <2>6. Y!Billed(c, p) = b /\ Y!DirectTotal(c, p) = d
    BY <2>4, <2>5, Totals
  <2>7. RowsOf(vouchers, c, p) # {} => Y!BilledIn(c, p)
    BY Totals
  <2>8. RowsOf(vouchers, c, p) # {} => b <= d
    BY <2>3, <2>6, <2>7
  <2> QED
    BY <2>2, <2>4, <2>5, <2>8 DEF Covered
<1>4. ClosedTie'
  <2> SUFFICES ASSUME NEW q \in closed', NEW c \in Contract
               PROVE  Tied(c, q)' /\ (~late => Covered(c, q)')
    BY <1>1 DEF ClosedTie
  <2>1. Tied(c, q) /\ (~late => Covered(c, q))
    BY <1>1, <1>3 DEF ClosedTie
  <2> QED
    BY <1>1, <2>1 DEF Tied, Covered
<1> QED
  BY <1>1, <1>2, <1>4, ClaimsKept

\* generate_schedule, the certificate and the notes of the monitoring.
LEMMA DocumentsFit ==
    ASSUME BooksFit, ClosedTie, InquiryFits, DocumentFits,
           Y!GenerateSchedule \/ Y!SignScheduleN \/ Y!MonitorPeriod \/ Y!ResolveNote
    PROVE  BooksFit' /\ ClosedTie' /\ InquiryFits' /\ DocumentFits'
<1>1. UNCHANGED <<gl, jcl, vouchers, closed, late, inquiry>>
  BY DEF Y!GenerateSchedule, Y!SignScheduleN, Y!MonitorPeriod, Y!ResolveNote, Y!Make, Y!books
<1>2. BooksFit' /\ ClosedTie'
  BY <1>1, BooksKept
<1>3. InquiryFits'
  BY <1>1 DEF InquiryFits, HasRead
<1>4. CASE Y!GenerateSchedule
  <2>1. PICK type \in {"A", "B", "C", "E", "G", "H", "I", "L", "O"} :
           document' = [type |-> type, passed |-> Y!Verdict(type)]
    BY <1>4 DEF Y!GenerateSchedule, Y!Make
  <2>2. PICK passed : passed = Y!Verdict(type)
    OBVIOUS
  <2>3. document' = [type |-> type, passed |-> passed]
    BY <2>1, <2>2
  <2>4. Schedule(document)'
    BY <2>3 DEF Schedule
  <2> QED
    BY <1>2, <1>3, <2>4 DEF DocumentFits
<1>5. CASE Y!SignScheduleN
  <2>1. document' = [type |-> "N", passed |-> TRUE]
    BY <1>5 DEF Y!SignScheduleN, Y!Make
  <2>2. Schedule(document)'
    BY <2>1 DEF Schedule
  <2> QED
    BY <1>2, <1>3, <2>2 DEF DocumentFits
<1>6. CASE Y!MonitorPeriod
  <2>1. PICK p : document' = [type |-> "notes",
                              notes |-> UNION {Y!Fluctuation(pool, p) : pool \in Y!Monitored}]
    BY <1>6 DEF Y!MonitorPeriod, Y!Make
  <2>2. PICK notes : notes = UNION {Y!Fluctuation(pool, p) : pool \in Y!Monitored}
    OBVIOUS
  <2>3. Noted(document)'
    BY <2>1, <2>2 DEF Noted
  <2> QED
    BY <1>2, <1>3, <2>3 DEF DocumentFits
<1>7. CASE Y!ResolveNote
  <2>1. PICK note : /\ document # None /\ document.type = "notes"
                    /\ document' = [document EXCEPT !.notes = (@ \ {note})
                                                       \union {[note EXCEPT !.resolved = TRUE]}]
    BY <1>7 DEF Y!ResolveNote, Y!Make
  <2>2. PICK notes : document = [type |-> "notes", notes |-> notes]
    BY <2>1 DEF DocumentFits, Schedule, Noted, ClaimFits
  <2>3. document' = [type |-> "notes",
                     notes |-> (notes \ {note}) \union {[note EXCEPT !.resolved = TRUE]}]
    BY <2>1, <2>2
  <2>4. PICK set : set = (notes \ {note}) \union {[note EXCEPT !.resolved = TRUE]}
    OBVIOUS
  <2>5. Noted(document)'
    BY <2>3, <2>4 DEF Noted
  <2> QED
    BY <1>2, <1>3, <2>5 DEF DocumentFits
<1> QED
  BY <1>2, <1>3, <1>4, <1>5, <1>6, <1>7

\* calculate_eichleay: the check of the inputs, and of a contract its billings.
LEMMA InquiriesFit ==
    ASSUME BooksFit, ClosedTie, InquiryFits, DocumentFits,
           Y!StartEichleay \/ Y!ReadContractBillings
    PROVE  BooksFit' /\ ClosedTie' /\ InquiryFits' /\ DocumentFits'
<1>1. UNCHANGED <<gl, jcl, vouchers, closed, late, document>>
  BY DEF Y!StartEichleay, Y!ReadContractBillings, Y!books
<1>2. BooksFit' /\ ClosedTie'
  BY <1>1, BooksKept
<1>3. DocumentFits'
  BY <1>1 DEF DocumentFits, Schedule, Noted, ClaimFits
<1>4. CASE Y!StartEichleay
  BY <1>2, <1>3, <1>4 DEF Y!StartEichleay, InquiryFits
<1>5. CASE Y!ReadContractBillings
  <2>1. /\ inquiry # None /\ inquiry.billings = Null
        /\ inquiry' = [inquiry EXCEPT !.billings = Y!ContractBillings(inquiry.contract)]
    BY <1>5 DEF Y!ReadContractBillings
  <2>2. PICK c \in Contract : inquiry = [contract |-> c, billings |-> Null]
    BY <2>1, PostingAssumption DEF InquiryFits, HasRead
  <2>3. PICK R : R = Ours(vouchers, c)
    OBVIOUS
  <2>4. R \in SUBSET DOMAIN vouchers /\ Rows(vouchers)
    BY <2>3 DEF Ours, BooksFit
  <2>5. PICK billings \in Int : billings = Added(vouchers, R)
    BY <2>4, RowsAdd
  <2>6. Uncredited(vouchers) => 0 <= billings
    BY <2>4, <2>5, RowsMore DEF Uncredited
  <2>7. inquiry' = [contract |-> c, billings |-> billings]
    BY <2>1, <2>2, <2>3, <2>5, Totals
  <2>8. Uncredited(vouchers') => 0 <= billings /\ billings <= Added(vouchers', Ours(vouchers', c))
    BY <1>1, <2>3, <2>5, <2>6
  <2>9. HasRead(c, billings)'
    BY <2>7, <2>8 DEF HasRead
  <2> QED
    BY <1>2, <1>3, <2>2, <2>5, <2>9 DEF InquiryFits
<1> QED
  BY <1>2, <1>3, <1>4, <1>5

\* A quotient is less than what makes the product.
LEMMA Quotient ==
    ASSUME NEW n \in Int, NEW d \in Int, d > 0, NEW k \in Int, n < d * (k + 1)
    PROVE  n \div d <= k
OBVIOUS

\* A part of an amount, rounded, is no more than the amount.
LEMMA PartOf ==
    ASSUME NEW part \in Int, NEW whole \in Int, whole > 0, 0 <= part, part <= whole,
           NEW amount \in Int, amount >= 0
    PROVE  Y!quantize_money(part * amount, whole) <= amount
<1>1. PICK n \in Int : n = part * amount /\ 0 <= n /\ n <= whole * amount
  OBVIOUS
<1>2. PICK d \in Int : d = 2 * whole
  OBVIOUS
<1>3. 2 * n + whole < d * (amount + 1)
  BY <1>1, <1>2
<1>4. (2 * n + whole) \div d <= amount
  BY <1>2, <1>3, Quotient
<1>5. Y!quantize_money(n, whole) = (2 * n + whole) \div d
  BY <1>1, <1>2 DEF Y!quantize_money
<1> QED
  BY <1>1, <1>4, <1>5

\* ... all billings, and the claim.
LEMMA CalculationFits ==
    ASSUME BooksFit, ClosedTie, InquiryFits, DocumentFits, Y!CalculateEichleay
    PROVE  BooksFit' /\ ClosedTie' /\ InquiryFits' /\ DocumentFits'
<1>1. PICK overhead \in Overhead, days \in Delay :
         LET c == inquiry.contract
             input == [type |-> "claim", contract |-> c, contract_billings |-> inquiry.billings,
                       total_billings |-> Y!AddUp(vouchers, Meanwhile(vouchers, c)),
                       overhead |-> overhead, delay_days |-> days,
                       performance_days |-> Performance[c][2] - Performance[c][1] + 1,
                       steps |-> <<>>]
         IN  /\ inquiry # None /\ inquiry.billings # Null
             /\ inquiry' = None
             /\ Y!Make(IF input.total_billings <= 0 THEN document
                       ELSE [input EXCEPT !.steps = Y!Steps(input)])
  BY DEF Y!CalculateEichleay, Y!Total, Y!Where, Meanwhile
<1>2. inquiry # None /\ inquiry.billings # Null /\ inquiry' = None
  BY <1>1
<1>3. PICK c \in Contract, billings \in Int :
         /\ inquiry = [contract |-> c, billings |-> billings]
         /\ Uncredited(vouchers) => 0 <= billings /\ billings <= Added(vouchers, Ours(vouchers, c))
  BY <1>2 DEF InquiryFits, HasRead
<1>4. Y!AddUp(vouchers, Meanwhile(vouchers, c)) = Added(vouchers, Meanwhile(vouchers, c))
  BY YearSum
<1>5. Rows(vouchers) /\ Meanwhile(vouchers, c) \in SUBSET DOMAIN vouchers
      /\ Ours(vouchers, c) \in SUBSET Meanwhile(vouchers, c)
  BY DEF BooksFit, Meanwhile, Ours
<1>6. PICK total \in Int : total = Added(vouchers, Meanwhile(vouchers, c))
  BY <1>5, RowsAdd
<1>7. PICK input : input = [type |-> "claim", contract |-> c, contract_billings |-> billings,
                            total_billings |-> total, overhead |-> overhead, delay_days |-> days,
                            performance_days |-> Performance[c][2] - Performance[c][1] + 1,
                            steps |-> <<>>]
  OBVIOUS
<1>8. Y!Make(IF input.total_billings <= 0 THEN document
             ELSE [input EXCEPT !.steps = Y!Steps(input)])
  BY <1>1, <1>3, <1>4, <1>6, <1>7
<1>9. UNCHANGED <<gl, jcl, vouchers, closed, late>>
  BY <1>8 DEF Y!Make, Y!books
<1>10. BooksFit' /\ ClosedTie'
  BY <1>9, BooksKept
<1>11. InquiryFits'
  BY <1>2 DEF InquiryFits
<1>12. CASE total <= 0
  <2>1. document' = document
    BY <1>7, <1>8, <1>12 DEF Y!Make
  <2> QED
    BY <1>9, <1>10, <1>11, <2>1 DEF DocumentFits, ClaimFits
<1>13. CASE ~(total <= 0)
  <2>1. document' = [input EXCEPT !.steps = Y!Steps(input)]
    BY <1>7, <1>8, <1>13 DEF Y!Make
  <2>2. /\ document'.type = "claim" /\ document'.contract_billings = billings
        /\ document'.total_billings = total /\ document'.overhead = overhead
        /\ document'.delay_days = days
        /\ document'.performance_days = input.performance_days
        /\ document'.steps = Y!Steps(input)
    BY <1>7, <2>1
  <2>3. Y!Steps(document') = Y!Steps(input)
    BY <1>7, <2>2 DEF Y!Steps
  <2>4. Y!Steps(input)[1] = Y!quantize_money(billings * overhead, total)
    BY <1>7 DEF Y!Steps
  <2>5. ASSUME Uncredited(vouchers) PROVE 0 <= billings /\ billings <= total
    <3>1. Added(vouchers, Ours(vouchers, c)) <= total
      BY <1>5, <1>6, <2>5, RowsMore DEF Uncredited
    <3>2. Added(vouchers, Ours(vouchers, c)) \in Int
      BY <1>5, RowsAdd
    <3> QED
      BY <1>3, <2>5, <3>1, <3>2
  <2>6. overhead \in Int
    BY PostingAssumption
  <2>7. ASSUME Uncredited(vouchers), overhead >= 0 PROVE Y!Steps(input)[1] <= overhead
    <3>1. total > 0 /\ 0 <= billings /\ billings <= total
      BY <1>13, <2>5, <2>7
    <3>2. Y!quantize_money(billings * overhead, total) <= overhead
      BY <2>6, <2>7, <3>1, PartOf, Zenon
    <3> QED
      BY <2>4, <3>2
  <2>8. Y!verify_claim(document')
    BY <2>2, <2>3 DEF Y!verify_claim
  <2>9. ClaimFits(document)'
    BY <1>9, <2>2, <2>5, <2>7, <2>8 DEF ClaimFits
  <2> QED
    BY <1>10, <1>11, <2>9 DEF DocumentFits
<1> QED
  BY <1>12, <1>13

\* Every step of the year keeps what its books, its closes and its claims are.
LEMMA YearInvariant == ReportingSpec => []YearInv
<1>1. YearInv /\ [ReportingNext]_reportingVars => YearInv'
  <2> SUFFICES ASSUME YearInv, [ReportingNext]_reportingVars PROVE YearInv'
    OBVIOUS
  <2>1. CASE FigureStep
    BY <2>1 DEF FigureStep, YearInv
  <2>2. CASE YearStep
    <3>1. BooksFit /\ ClosedTie /\ InquiryFits /\ DocumentFits /\ focus' = focus /\ focus = "year"
      BY <2>2 DEF YearStep, YearInv
    <3>2. Y!YearNext
      BY <2>2 DEF YearStep
    <3>3. BooksFit' /\ ClosedTie' /\ InquiryFits' /\ DocumentFits'
      BY <3>1, <3>2, PostingFits, EntryPostingFits, VoucherFits, PayrollFits, CloseFits,
         DocumentsFit, InquiriesFit, CalculationFits DEF Y!YearNext
    <3> QED
      BY <3>1, <3>3 DEF YearInv
  <2>3. CASE UNCHANGED reportingVars
    <3>1. focus' = focus /\ UNCHANGED <<gl, jcl, vouchers, closed, late, inquiry, document>>
      BY <2>3 DEF reportingVars, books
    <3>2. CASE focus = "year"
      <4>1. BooksFit /\ ClosedTie /\ InquiryFits /\ DocumentFits
        BY <3>2 DEF YearInv
      <4>2. BooksFit' /\ ClosedTie'
        BY <3>1, <4>1, BooksKept
      <4>3. InquiryFits' /\ DocumentFits'
        BY <3>1, <4>1, ClaimsKept
      <4> QED
        BY <3>1, <3>2, <4>2, <4>3 DEF YearInv
    <3> QED
      BY <3>1, <3>2 DEF YearInv
  <2> QED
    BY <2>1, <2>2, <2>3 DEF ReportingNext
<1> QED
  BY <1>1, YearStarts, PTL DEF ReportingSpec

\* eichleay: a claim recomputes from its row whatever is billed after it, and no
\* credit having been billed it allocates no more overhead than there is.
THEOREM ClaimsAlwaysStand == ReportingSpec => []ClaimsStand
<1>1. YearInv => ClaimsStand
  <2> SUFFICES ASSUME YearInv, focus = "year", document # None, document.type = "claim"
               PROVE  /\ Y!verify_claim(document)
                      /\ Y!NoCredits => /\ document.contract_billings <= document.total_billings
                                        /\ document.overhead >= 0
                                              => document.steps[1] <= document.overhead
    BY DEF ClaimsStand, Y!ClaimsStand
  <2>1. ClaimFits(document)
    BY DEF YearInv, DocumentFits, Schedule, Noted
  <2> QED
    BY <2>1 DEF ClaimFits, Y!NoCredits, Uncredited
<1> QED
  BY <1>1, YearInvariant, PTL

\* close_period, ice_schedules and sf1408: once every period is closed Schedule G
\* passes and criterion F finds nothing, unless a voucher came in after its
\* period's close; criterion B finds only contracts without direct costs on balance.
THEOREM BooksAlwaysTie == ReportingSpec => []BooksTieUnlessLate
<1>1. YearInv => BooksTieUnlessLate
  <2> SUFFICES ASSUME YearInv, focus = "year", closed = 1..Periods
               PROVE  /\ ~late => Y!Verdict("G") /\ Y!run_self_check.F = {}
                      /\ \A c \in Y!run_self_check.B :
                            c \in Contract /\ \A p \in 1..Periods : Y!DirectTotal(c, p) = 0
    BY DEF BooksTieUnlessLate, Y!BooksTieUnlessLate, Y!FullyClosed, Y!Period
  <2>1. BooksFit /\ ClosedTie
    BY DEF YearInv
  <2>2. ASSUME ~late, NEW p \in 1..Periods
        PROVE  /\ Y!BillingVariances(p) = {}
               /\ \A c \in Contract : Y!DirectTotal(c, p) = Y!JclTotal(c, p)
    <3>1. ASSUME NEW c \in Contract
          PROVE  /\ Y!DirectTotal(c, p) = Y!JclTotal(c, p)
                 /\ ~(Y!BilledIn(c, p) /\ Y!Billed(c, p) > Y!DirectTotal(c, p))
      <4>1. Tied(c, p) /\ Covered(c, p)
        BY <2>1, <2>2 DEF ClosedTie
      <4>2. PICK b \in Int : b = Added(vouchers, RowsOf(vouchers, c, p))
        <5>1. RowsOf(vouchers, c, p) \in SUBSET DOMAIN vouchers
          BY DEF RowsOf
        <5> QED
          BY <2>1, <5>1, RowsAdd DEF BooksFit
      <4>3. PICK d \in Int : d = Added(gl, DirectRows(gl, c, p))
        <5>1. DirectRows(gl, c, p) \in SUBSET DOMAIN gl
          BY DEF DirectRows
        <5> QED
          BY <2>1, <5>1, RowsAdd DEF BooksFit
      <4>4. RowsOf(vouchers, c, p) # {} => b <= d
        BY <4>1, <4>2, <4>3 DEF Covered
      <4>5. /\ Y!Billed(c, p) = b /\ Y!DirectTotal(c, p) = d
            /\ Y!BilledIn(c, p) => RowsOf(vouchers, c, p) # {}
        BY <4>2, <4>3, Totals
      <4>6. Y!DirectTotal(c, p) = Y!JclTotal(c, p)
        BY <4>1, Totals DEF Tied
      <4> QED
        BY <4>2, <4>3, <4>4, <4>5, <4>6
    <3> QED
      BY <3>1 DEF Y!BillingVariances
  <2>3. ASSUME ~late PROVE Y!Verdict("G")
    <3>1. \A p \in 1..Periods : Y!Reconciled(p)
      BY <2>2, <2>3 DEF Y!Reconciled
    <3> QED
      BY <3>1 DEF Y!Verdict, Y!Period
  <2>4. ASSUME ~late PROVE Y!run_self_check.F = {}
    <3>1. \A p \in 1..Periods : Y!BillingVariances(p) = {}
      BY <2>2, <2>4
    <3>2. Y!BillingFindings = {}
      BY <3>1 DEF Y!BillingFindings, Y!Period
    <3> QED
      BY <3>2 DEF Y!run_self_check
  <2>5. ASSUME NEW c \in Y!run_self_check.B, NEW p \in 1..Periods
        PROVE  c \in Contract /\ Y!DirectTotal(c, p) = 0
    <3>1. PICK i \in DOMAIN gl : Y!IsDirect(gl[i]) /\ c = gl[i].contract /\ c \notin Y!Charged
      BY <2>5 DEF Y!run_self_check, Y!AccumulationFindings
    <3>2. c \in Contract
      BY <2>1, <3>1 DEF BooksFit, EntryFits
    <3>3. RowsOf(jcl, c, p) = {}
      BY <3>1 DEF RowsOf, Y!Charged
    <3>4. Added(jcl, RowsOf(jcl, c, p)) = 0
      BY <3>3, NoRows
    <3>5. Tied(c, p)
      BY <2>1, <3>2 DEF ClosedTie
    <3> QED
      BY <3>2, <3>4, <3>5, Totals DEF Tied
  <2>6. ASSUME NEW c \in Y!run_self_check.B PROVE c \in Contract
    <3>1. PICK i \in DOMAIN gl : Y!IsDirect(gl[i]) /\ c = gl[i].contract
      BY <2>6 DEF Y!run_self_check, Y!AccumulationFindings
    <3> QED
      BY <2>1, <3>1 DEF BooksFit, EntryFits
  <2> QED
    BY <2>3, <2>4, <2>5, <2>6
<1> QED
  BY <1>1, YearInvariant, PTL

-----------------------------------------------------------------------------
(* One year in several reports *)

DirectIn(c, P) == {i \in DOMAIN gl : Y!IsDirect(gl[i]) /\ gl[i].contract = c /\ gl[i].period \in P}
JobsIn(c, P) == {i \in DOMAIN jcl : jcl[i].contract = c /\ jcl[i].period \in P}

\* Of closed periods together, the ledgers tie too: period by period.
LEMMA PeriodsTie ==
    ASSUME BooksFit, ClosedTie, NEW c \in Contract
    PROVE  Added(gl, DirectIn(c, closed)) = Added(jcl, JobsIn(c, closed))
<1> SUFFICES ASSUME Added(gl, DirectIn(c, closed)) # Added(jcl, JobsIn(c, closed)) PROVE FALSE
  OBVIOUS
<1> DEFINE B == {P \in SUBSET closed : Added(gl, DirectIn(c, P)) # Added(jcl, JobsIn(c, P))}
<1>1. PICK P \in B : P \subseteq closed /\ \A Q \in SUBSET P : Q # P => Q \notin B
  <2>1. B \subseteq SUBSET closed /\ B # {}
    OBVIOUS
  <2>2. IsFiniteSet(1..Periods)
    BY PostingAssumption, FS_Interval
  <2>3. IsFiniteSet(closed)
    BY <2>2, FS_Subset DEF BooksFit
  <2> HIDE DEF B
  <2> QED
    BY <2>1, <2>3, LeastSubset
<1>2. Added(gl, DirectIn(c, P)) # Added(jcl, JobsIn(c, P))
  BY <1>1
<1>3. P # {}
  <2>1. ASSUME P = {} PROVE FALSE
    <3>1. DirectIn(c, P) = {} /\ JobsIn(c, P) = {}
      BY <2>1 DEF DirectIn, JobsIn
    <3> HIDE DEF B
    <3> QED
      BY <1>2, <3>1, NoRows
  <2> QED
    BY <2>1
<1>4. PICK p : p \in P
  BY <1>3
<1>5. PICK Q : Q = P \ {p}
  OBVIOUS
<1>6. Added(gl, DirectIn(c, Q)) = Added(jcl, JobsIn(c, Q))
  <2>1. Q \in SUBSET P /\ Q # P
    BY <1>4, <1>5
  <2>2. Q \notin B /\ Q \in SUBSET closed
    BY <1>1, <2>1
  <2> QED
    BY <2>2
<1> HIDE DEF B
<1>7. p \in closed
  BY <1>1, <1>4
<1>8. Added(gl, DirectRows(gl, c, p)) = Added(jcl, RowsOf(jcl, c, p))
  BY <1>7 DEF ClosedTie, Tied
<1>9. /\ DirectIn(c, Q) \in SUBSET DOMAIN gl /\ DirectRows(gl, c, p) \in SUBSET DOMAIN gl
      /\ DirectIn(c, Q) \intersect DirectRows(gl, c, p) = {}
      /\ DirectIn(c, P) = DirectIn(c, Q) \union DirectRows(gl, c, p)
  BY <1>4, <1>5 DEF DirectIn, DirectRows
<1>10. /\ JobsIn(c, Q) \in SUBSET DOMAIN jcl /\ RowsOf(jcl, c, p) \in SUBSET DOMAIN jcl
       /\ JobsIn(c, Q) \intersect RowsOf(jcl, c, p) = {}
       /\ JobsIn(c, P) = JobsIn(c, Q) \union RowsOf(jcl, c, p)
  BY <1>4, <1>5 DEF JobsIn, RowsOf
<1>11. Added(gl, DirectIn(c, P)) = Added(gl, DirectIn(c, Q)) + Added(gl, DirectRows(gl, c, p))
  BY <1>9, RowsUnion DEF BooksFit
<1>12. Added(jcl, JobsIn(c, P)) = Added(jcl, JobsIn(c, Q)) + Added(jcl, RowsOf(jcl, c, p))
  BY <1>10, RowsUnion DEF BooksFit
<1> QED
  BY <1>2, <1>6, <1>8, <1>11, <1>12

OfElement(c, element) == {i \in DOMAIN jcl : jcl[i].contract = c /\ jcl[i].element = element}
OfContract(c) == {i \in DOMAIN jcl : jcl[i].contract = c}
OfType(c, type) ==
    {i \in DOMAIN gl : gl[i].contract = c /\ Y!AccountOf(gl[i]).cost_type = type}

\* A rate is a number, and so is what it burdens.
LEMMA Burdened == ASSUME NEW labor \in Int PROVE Y!Burden(labor) \in Int
<1>1. ASSUME NEW name PROVE Y!Rate(name) \in Int
  <2>1. PICK found : found = {p \in Y!FinalRates : p.pool_name = name /\ p.rate # Null}
    OBVIOUS
  <2>2. Y!Rate(name) = IF found = {} THEN 0 ELSE (CHOOSE p \in found : TRUE).rate
    BY <2>1 DEF Y!Rate
  <2>3. ASSUME found # {} PROVE (CHOOSE p \in found : TRUE).rate \in Int
    <3>1. PICK p : p = CHOOSE q \in found : TRUE
      OBVIOUS
    <3>2. p \in found
      BY <2>3, <3>1
    <3>3. p \in Pool /\ p.rate # Null
      BY <2>1, <3>2 DEF Y!FinalRates
    <3> QED
      BY <3>1, <3>3, AccountAssumption
  <2> QED
    BY <2>2, <2>3
<1>2. PICK f \in Int, o \in Int, g \in Int :
         f = Y!Rate("fringe") /\ o = Y!Rate("overhead") /\ g = Y!Rate("ga")
  BY <1>1
<1>3. PICK a \in Int : a = labor * (10 + f)
  OBVIOUS
<1>4. PICK b \in Int : b = a * (10 + o)
  OBVIOUS
<1>5. PICK n \in Int : n = b * (10 + g)
  OBVIOUS
<1>6. Y!Burden(labor) = Y!quantize_money(n, 1000)
  BY <1>2, <1>3, <1>4, <1>5 DEF Y!Burden
<1>7. Y!quantize_money(n, 1000) = F!quantize_money(n, 1000)
  BY DEF Y!quantize_money, F!quantize_money
<1> QED
  BY <1>6, <1>7, MilliCent

\* Schedules H and I, the statement and the ledger.
LEMMA Schedules == YearInv /\ focus = "year" => Y!SchedulesAgree
<1> SUFFICES ASSUME BooksFit, ClosedTie, closed = 1..Periods, NEW c \in Y!Charged
             PROVE  /\ Y!ScheduleH[c].claimed_total = Y!ScheduleI[c].claimed
                    /\ Y!ScheduleH[c].direct_total = Y!contract_statement(c).gl_totals["direct"]
                    /\ Y!ScheduleI[c].billed = Y!contract_statement(c).billed
  BY DEF YearInv, Y!SchedulesAgree, Y!FullyClosed, Y!Period
<1>1. c \in Contract
  BY PostingAssumption DEF BooksFit, Y!Charged
<1>2. /\ OfElement(c, "labor") \in SUBSET DOMAIN jcl
      /\ OfElement(c, "material") \in SUBSET DOMAIN jcl
      /\ OfElement(c, "labor") \intersect OfElement(c, "material") = {}
      /\ OfContract(c) = OfElement(c, "labor") \union OfElement(c, "material")
  BY PostingAssumption DEF BooksFit, OfElement, OfContract
<1>3. Rows(jcl)
  BY DEF BooksFit
<1>4. PICK labor \in Int : labor = Added(jcl, OfElement(c, "labor"))
  BY <1>2, <1>3, RowsAdd
<1>5. PICK material \in Int : material = Added(jcl, OfElement(c, "material"))
  BY <1>2, <1>3, RowsAdd
<1>6. Added(jcl, OfContract(c)) = labor + material
  BY <1>2, <1>3, <1>4, <1>5, RowsUnion
<1>7. /\ Y!DirectCosts(c, "labor") = labor /\ Y!DirectCosts(c, "material") = material
      /\ Y!DirectOfAll(c) = labor + material
  <2>1. /\ Y!DirectCosts(c, "labor") = Y!AddUp(jcl, OfElement(c, "labor"))
        /\ Y!DirectCosts(c, "material") = Y!AddUp(jcl, OfElement(c, "material"))
    BY DEF Y!DirectCosts, Y!Total, Y!Where, OfElement
  <2>2. Y!DirectOfAll(c) = Y!AddUp(jcl, OfContract(c))
    BY DEF Y!DirectOfAll, Y!Total, Y!Where, OfContract
  <2> QED
    BY <1>4, <1>5, <1>6, <2>1, <2>2, YearSum
<1>8. PICK burdened \in Int : burdened = Y!Burden(labor)
  BY Burdened
<1>9. Y!ScheduleH[c].direct_total = labor + material
      /\ Y!ScheduleH[c].claimed_total = (labor + material) - labor + burdened
  BY <1>7, <1>8 DEF Y!ScheduleH
<1>10. Y!ScheduleI[c].claimed = burdened + material
  BY <1>7, <1>8 DEF Y!ScheduleI
<1>11. Y!ScheduleI[c].billed = Y!contract_statement(c).billed
  BY DEF Y!ScheduleI, Y!contract_statement
<1>12. Y!contract_statement(c).gl_totals["direct"] = Added(gl, OfType(c, "direct"))
  <2>1. Y!contract_statement(c).gl_totals["direct"] = Y!AddUp(gl, OfType(c, "direct"))
    BY DEF Y!contract_statement, Y!Total, Y!Where, OfType
  <2> QED
    BY <2>1, YearSum
<1>13. OfType(c, "direct") = DirectIn(c, closed) /\ OfContract(c) = JobsIn(c, closed)
  <2>1. \A i \in DOMAIN gl : gl[i].period \in closed
    BY DEF BooksFit, EntryFits
  <2>2. \A i \in DOMAIN jcl : jcl[i].period \in closed
    BY PostingAssumption DEF BooksFit
  <2> QED
    BY <2>1, <2>2 DEF OfType, OfContract, DirectIn, JobsIn, Y!IsDirect
<1>14. Added(gl, OfType(c, "direct")) = labor + material
  BY <1>1, <1>6, <1>13, PeriodsTie
<1>15. (labor + material) - labor + burdened = burdened + material
  OBVIOUS
<1> QED
  BY <1>9, <1>10, <1>11, <1>12, <1>14, <1>15

Pooled(name) == {i \in DOMAIN gl : /\ Y!AccountOf(gl[i]).pool_assignment # Null
                                   /\ Y!PoolOf(Y!AccountOf(gl[i])).pool_name = name}

\* The pool of an account that has one.
LEMMA PoolOfAccount ==
    ASSUME NEW a \in Account, a.pool_assignment # Null
    PROVE  /\ Y!PoolOf(a) \in Pool /\ Y!PoolOf(a).pool_id = a.pool_assignment
           /\ a.cost_type = "indirect"
           /\ \A p \in Pool : p.pool_id = a.pool_assignment => Y!PoolOf(a) = p
<1>1. PICK p \in Pool : p.pool_id = a.pool_assignment
  BY AccountAssumption
<1>2. Y!PoolOf(a) \in Pool /\ Y!PoolOf(a).pool_id = a.pool_assignment
  BY <1>1 DEF Y!PoolOf
<1> QED
  BY <1>2, AccountAssumption

\* The rate numerator, the detail of Schedules B and C, and the monitoring.
LEMMA PoolCosts == YearInv /\ focus = "year" => Y!PoolCostsAgree
<1> SUFFICES ASSUME BooksFit, NEW pool \in Pool
             PROVE  /\ Y!Numerator(pool) = Y!PoolDetail(pool.pool_name).total
                    /\ Y!AssignedTo(pool) => Y!Numerator(pool) = Y!YtdPoolCosts(pool, Periods)
  BY DEF YearInv, Y!PoolCostsAgree, Y!Monitored
<1> DEFINE N == {i \in DOMAIN gl : /\ Y!AccountOf(gl[i]).pool_assignment # Null
                                   /\ Y!PoolOf(Y!AccountOf(gl[i])).pool_name = pool.pool_name
                                   /\ Y!AccountOf(gl[i]).cost_type # "unallowable"}
<1> DEFINE M == {i \in DOMAIN gl : /\ Y!AccountOf(gl[i]).pool_assignment = pool.pool_id
                                   /\ Y!AccountOf(gl[i]).cost_type # "unallowable"
                                   /\ gl[i].period <= Periods}
<1>1. Y!Numerator(pool) = Y!AddUp(gl, N)
  BY DEF Y!Numerator, Y!Total, Y!Where
<1>2. Y!PoolDetail(pool.pool_name).total = Y!AddUp(gl, Pooled(pool.pool_name))
  BY DEF Y!PoolDetail, Y!Total, Y!Where, Pooled
<1>3. Y!YtdPoolCosts(pool, Periods) = Y!AddUp(gl, M)
  BY DEF Y!YtdPoolCosts, Y!Total, Y!Where
<1>4. \A i \in DOMAIN gl : Y!AccountOf(gl[i]) \in Account /\ gl[i].period <= Periods
  BY PostingAssumption DEF BooksFit, EntryFits
<1>5. N = Pooled(pool.pool_name)
  BY <1>4, PoolOfAccount DEF Pooled
<1>6. ASSUME Y!AssignedTo(pool) PROVE N = M
  <2>1. ASSUME NEW i \in N PROVE i \in M
    BY <1>4, <1>6 DEF Y!AssignedTo
  <2>2. ASSUME NEW i \in M PROVE i \in N
    <3>1. PICK a \in Account : a = Y!AccountOf(gl[i])
      BY <1>4
    <3>2. a.pool_assignment = pool.pool_id /\ pool.pool_id # Null
      BY <3>1, AccountAssumption
    <3>3. Y!PoolOf(a) = pool
      BY <3>2, PoolOfAccount
    <3> QED
      BY <3>1, <3>2, <3>3
  <2> QED
    BY <2>1, <2>2
<1> HIDE DEF N, M
<1> QED
  BY <1>1, <1>2, <1>3, <1>5, <1>6

\* Exclusions, billing exports and Schedule B.
LEMMA Vectors == YearInv /\ focus = "year" => Y!ReportsFollowVectors
<1> SUFFICES ASSUME BooksFit, NEW i \in DOMAIN gl
             PROVE  /\ gl[i].vector.far[1] = "unallowable" =>
                          /\ \A name \in {p.pool_name : p \in Pool} :
                                i \in Y!PoolDetail(name).exclusions \ Y!PoolDetail(name).rows
                          /\ \A c \in Contract : i \notin Y!billing_export_transactions(c)
                    /\ gl[i].vector.allocability = "necessary_overhead" =>
                          i \in Y!PoolDetail("ga").rows
  BY DEF YearInv, Y!ReportsFollowVectors
<1>1. PICK a \in Account : /\ a = Y!AccountOf(gl[i])
                           /\ gl[i].vector.far = Y!Far312(a)
                           /\ gl[i].vector.allocability = Y!Allocability(a)
  BY DEF BooksFit, EntryFits
<1>2. ASSUME gl[i].vector.far[1] = "unallowable"
      PROVE  /\ \A name : i \in Y!PoolDetail(name).exclusions \ Y!PoolDetail(name).rows
             /\ \A c : i \notin Y!billing_export_transactions(c)
  <2>1. a.cost_type = "unallowable"
    BY <1>1, <1>2 DEF Y!Far312
  <2>2. a.pool_assignment = Null
    BY <2>1, PoolOfAccount
  <2>3. \A name : i \in Y!PoolDetail(name).exclusions /\ i \notin Y!PoolDetail(name).rows
    BY <1>1, <2>1, <2>2 DEF Y!PoolDetail
  <2> QED
    BY <1>1, <2>1, <2>3 DEF Y!billing_export_transactions
<1>3. ASSUME gl[i].vector.allocability = "necessary_overhead"
      PROVE  i \in Y!PoolDetail("ga").rows
  <2>1. a.pool_assignment # Null /\ Y!PoolOf(a).pool_name = "ga"
    BY <1>1, <1>3 DEF Y!Allocability
  <2> QED
    BY <1>1, <2>1 DEF Y!PoolDetail
<1> QED
  BY <1>2, <1>3

\* ice_schedules, contract_statement, exclusions, pbr_monitoring and
\* allowability: reports that show the same costs show the same sums, and each
\* follows the vector an entry was posted with.
THEOREM ReportsAlwaysAgree == ReportingSpec => []ReportsAgree
<1>1. YearInv => ReportsAgree
  BY Schedules, PoolCosts, Vectors DEF ReportsAgree
<1> QED
  BY <1>1, YearInvariant, PTL
=============================================================================
