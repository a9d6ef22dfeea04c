---------------------------- MODULE MCRatePools ----------------------------
(* Model-checking instance of RatePools. *)
EXTENDS RatePools, TLC

\* Two revisions of the fringe rate, and an overhead row that builds on it.
TwoFringeOneOverhead == <<"fringe", "fringe", "overhead">>
OneFringe == <<"fringe">>

Symmetry == Permutations(Session) \union Permutations(Version)
============================================================================
