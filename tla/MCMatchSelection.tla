--------------------------- MODULE MCMatchSelection ---------------------------
(* MatchSelection on four users, whose  ratings are the distances that matter: *)
(* twice the initial range, the initial and the largest, twice the largest.    *)
EXTENDS MatchSelection, TLC

CONSTANTS u1, u2, u3, u4

MCUsers == {u1, u2, u3, u4}
MCRatings == u1 :> {0} @@ u2 :> {2, 3} @@ u3 :> {4} @@ u4 :> {5, 7}
=============================================================================
