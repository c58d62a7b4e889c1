---------------------------- MODULE MCMatchmaking ----------------------------
(* Matchmaking for TLC: the sets are given in the configurations.          *)
EXTENDS Matchmaking, TLC

\* Users, session ids and handler goroutines are interchangeable.
Symmetric == Permutations(Users) \cup Permutations(Sessions) \cup Permutations(Handlers)

\* Any goroutine serves anybody; or each player has one request at a time.
AnyClient == [h \in Handlers |-> Users]
OneClientEach ==
  LET client == CHOOSE f \in [Handlers -> Users] :
                  \A h, k \in Handlers : h # k => f[h] # f[k]
  IN [h \in Handlers |-> {client[h]}]
=============================================================================
