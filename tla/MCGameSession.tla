--------------------------- MODULE MCGameSession ---------------------------
(* Model checking of the game loop with a short queue and a short lag.     *)
EXTENDS GameSession
=============================================================================
