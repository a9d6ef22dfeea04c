------------------------------ MODULE Rounding ------------------------------
(***************************************************************************)
(* Money as integers: n / d, d > 0, rounded to whole units as the code     *)
(* rounds decimals (govcon/core/decimal_config.py).  Intermediate results  *)
(* have 28 digits in the code and are exact here.                          *)
(***************************************************************************)
EXTENDS Integers, Sequences, Functions

Abs(n) == IF n < 0 THEN -n ELSE n
Sum(numbers) == SumFunction(numbers)

\* quantize_money: ROUND_HALF_UP, away from zero on either side of it.
quantize_money(n, d) ==
    IF n >= 0 THEN (2 * n + d) \div (2 * d) ELSE -((-2 * n + d) \div (2 * d))

\* Decimal.quantize as pricing_analysis calls it, in the context's own mode:
\* ROUND_HALF_EVEN.
quantize(n, d) ==
    LET below == n \div d
        rest == 2 * (n % d)
    IN  IF rest > d \/ (rest = d /\ below % 2 = 1) THEN below + 1 ELSE below

\* n / 0, or no percentage of nothing.
Percent(part, whole) ==
    IF whole = 0 THEN 0
    ELSE IF whole > 0 THEN quantize(part * 10000, whole)
    ELSE quantize(-part * 10000, -whole)
=============================================================================
