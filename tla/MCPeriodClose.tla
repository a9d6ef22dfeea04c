---------------------------- MODULE MCPeriodClose ----------------------------
(* Model-checking instances of PeriodClose.  A behaviour is about one of them:  *)
(* focus, chosen at the start, says which.                                      *)
(*   "race"   the constants of the configuration: sessions post to and close a  *)
(*            period at the same time                                           *)
(*   "year"   the sessions close the last two periods of a year with a rate,    *)
(*            and nothing is posted                                             *)
(*   "alone"  one session, two contracts, postings and their reversals          *)
EXTENDS PeriodClose, TLC

CONSTANTS LastPeriods, Rate, Clerk, Contracts

VARIABLE focus

Year == INSTANCE PeriodClose
          WITH Period <- LastPeriods, Pool <- {Rate}, MaxEntries <- 0

Alone == INSTANCE PeriodClose
           WITH Session <- {Clerk}, Contract <- Contracts, Amount <- {-1, 1},
                MaxEntries <- 4

MCInit ==
  \/ focus = "race" /\ Init
  \/ focus = "year" /\ Year!Init
  \/ focus = "alone" /\ Alone!Init

RaceStep  == focus = "race" /\ Next /\ UNCHANGED focus
YearStep  == focus = "year" /\ Year!Next /\ UNCHANGED focus
AloneStep == focus = "alone" /\ Alone!Next /\ UNCHANGED focus

MCNext == RaceStep \/ YearStep \/ AloneStep

MCSpec == MCInit /\ [][MCNext]_<<vars, focus>>

RaceSpec == focus = "race" /\ Init /\ [][RaceStep]_<<vars, focus>>

SessionSymmetry == Permutations(Session)
------------------------------------------------------------------------------
\* period_close._lock_fiscal_year_rates: of two sessions that close the last two
\* periods at the same time one locks the year's approved rates.
YearRatesLockOnClose == [][focus = "year" => Year!RatesLockStep]_<<vars, focus>>

\* period_close.close_period without concurrency: a period is closed only when its
\* books tie contract by contract, whatever was posted, reversed, rolled back or
\* refused before.
CloseTiesAlone == [][focus = "alone" => Alone!CloseTiesStep]_<<vars, focus>>
=============================================================================
