---------------------------- MODULE MCAuthSessions ----------------------------
(* AuthSessions for TLC: the sets are given in the configuration.            *)
EXTENDS AuthSessions, TLC

\* Users, tokens and handler goroutines are interchangeable.
Symmetric == Permutations(Users) \cup Permutations(Tokens) \cup Permutations(Handlers)
=============================================================================
