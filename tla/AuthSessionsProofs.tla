------------------------ MODULE AuthSessionsProofs ------------------------
(***************************************************************************)
(* Proofs about the auth service, for any users, tokens and handlers and   *)
(* any number of failing commands and crashes.                             *)
(***************************************************************************)
EXTENDS AuthSessions, TLAPS

USE NullsAreNew DEF Idle

\* Nobody is registered and both stores are empty.
LEMMA InitOK == Init => SessionsInv
<1> SUFFICES ASSUME Init PROVE SessionsInv
  OBVIOUS
<1>1. TypeOK
  BY BoundsAreNats DEF Init, TypeOK, Request, Steps, Kinds
<1>2. RequestsFit /\ RowsComeFirst /\ UntangledAreAlone /\ StepsAreSafe
  BY DEF Init, RequestsFit, RowsComeFirst, UntangledAreAlone, StepsAreSafe
<1>3. OneSessionEach /\ CopiesAreCurrent /\ BannedAreOut
  BY DEF Init, OneSessionEach, CopiesAreCurrent, BannedAreOut, Accepted
<1> QED
  BY <1>1, <1>2, <1>3 DEF SessionsInv

\* Registering touches no session.
LEMMA RegisterStep ==
  ASSUME SessionsInv, NEW u \in Users, Register(u)
  PROVE  SessionsInv'
<1> USE DEF SessionsInv
<1>t. request \in [Handlers -> Request]
  BY DEF TypeOK
<1>1. TypeOK'
  BY BoundsAreNats DEF TypeOK, Works, Fails, budget, Tangle, TangleIfMet,
     sessions, Register
<1>2. RequestsFit'
  BY <1>1 DEF TypeOK, Request, At, Works, Fails, budget, Tangle,
     TangleIfMet, sessions, RequestsFit, RowsComeFirst, Register
<1>3. RowsComeFirst'
  BY <1>1 DEF TypeOK, Request, At, Works, Fails, budget, Tangle,
     TangleIfMet, sessions, RequestsFit, RowsComeFirst, Register
<1>4. UntangledAreAlone'
  BY <1>1 DEF TypeOK, Request, At, Works, Fails, budget, Tangle,
     TangleIfMet, sessions, RequestsFit, UntangledAreAlone, Meets, Register
<1>5. StepsAreSafe'
  BY <1>1 DEF TypeOK, Request, At, Works, Fails, budget, Tangle,
     TangleIfMet, sessions, RequestsFit, RowsComeFirst, UntangledAreAlone,
     StepsAreSafe, CopiesAreCurrent, Meets, Accepted, Active, TokensOf,
     Register
<1>6. OneSessionEach'
  BY <1>1 DEF TypeOK, Request, At, Works, Fails, budget, Tangle,
     TangleIfMet, sessions, RequestsFit, RowsComeFirst, StepsAreSafe,
     OneSessionEach, TokensOf, Register
<1>7. CopiesAreCurrent'
  BY <1>1 DEF TypeOK, Request, At, Works, Fails, budget, Tangle,
     TangleIfMet, sessions, RequestsFit, RowsComeFirst, StepsAreSafe,
     CopiesAreCurrent, Accepted, Active, TokensOf, Register
<1>8. BannedAreOut'
  BY <1>1 DEF TypeOK, Request, At, Works, Fails, budget, Tangle,
     TangleIfMet, sessions, RequestsFit, RowsComeFirst, UntangledAreAlone,
     StepsAreSafe, BannedAreOut, Meets, Accepted, TokensOf, BanInFlight,
     Register
<1> QED
  BY <1>1, <1>2, <1>3, <1>4, <1>5, <1>6, <1>7, <1>8

\* Unbanning touches no session.
LEMMA UnbanStep ==
  ASSUME SessionsInv, NEW u \in Users, Unban(u)
  PROVE  SessionsInv'
<1> USE DEF SessionsInv
<1>t. request \in [Handlers -> Request]
  BY DEF TypeOK
<1>1. TypeOK'
  BY BoundsAreNats DEF TypeOK, Works, Fails, budget, Tangle, TangleIfMet,
     sessions, Unban
<1>2. RequestsFit'
  BY <1>1 DEF TypeOK, Request, At, Works, Fails, budget, Tangle,
     TangleIfMet, sessions, RequestsFit, RowsComeFirst, Unban
<1>3. RowsComeFirst'
  BY <1>1 DEF TypeOK, Request, At, Works, Fails, budget, Tangle,
     TangleIfMet, sessions, RequestsFit, RowsComeFirst, Unban
<1>4. UntangledAreAlone'
  BY <1>1 DEF TypeOK, Request, At, Works, Fails, budget, Tangle,
     TangleIfMet, sessions, RequestsFit, UntangledAreAlone, Meets, Unban
<1>5. StepsAreSafe'
  BY <1>1 DEF TypeOK, Request, At, Works, Fails, budget, Tangle,
     TangleIfMet, sessions, RequestsFit, RowsComeFirst, UntangledAreAlone,
     StepsAreSafe, CopiesAreCurrent, Meets, Accepted, Active, TokensOf, Unban
<1>6. OneSessionEach'
  BY <1>1 DEF TypeOK, Request, At, Works, Fails, budget, Tangle,
     TangleIfMet, sessions, RequestsFit, RowsComeFirst, StepsAreSafe,
     OneSessionEach, TokensOf, Unban
<1>7. CopiesAreCurrent'
  BY <1>1 DEF TypeOK, Request, At, Works, Fails, budget, Tangle,
     TangleIfMet, sessions, RequestsFit, RowsComeFirst, StepsAreSafe,
     CopiesAreCurrent, Accepted, Active, TokensOf, Unban
<1>8. BannedAreOut'
  BY <1>1 DEF TypeOK, Request, At, Works, Fails, budget, Tangle,
     TangleIfMet, sessions, RequestsFit, RowsComeFirst, UntangledAreAlone,
     StepsAreSafe, BannedAreOut, Meets, Accepted, TokensOf, BanInFlight,
     Unban
<1> QED
  BY <1>1, <1>2, <1>3, <1>4, <1>5, <1>6, <1>7, <1>8

\* A ban that meets a request tangles the user, so it may rely on being alone.
LEMMA BanStep ==
  ASSUME SessionsInv, NEW h \in Handlers, NEW u \in Users, Ban(h, u)
  PROVE  SessionsInv'
<1> USE DEF SessionsInv
<1>t. request \in [Handlers -> Request]
  BY DEF TypeOK
<1>r. \A g \in Handlers : request'[g] =
       IF g = h THEN [at |-> "listTokens", kind |-> "ban", user |-> u,
                      token |-> NoToken, batch |-> {}]
       ELSE request[g]
  BY <1>t DEF Request, Return, Begin, Move, Goto, Ban
<1>s. request' = [g \in Handlers |-> request'[g]]
  BY <1>t DEF Return, Begin, Move, Goto, Ban
<1>q. request' \in [Handlers -> Request]
  BY <1>r, <1>s, <1>t DEF Request, Steps, Kinds
<1>1. TypeOK'
  BY <1>q, BoundsAreNats DEF TypeOK, Works, Fails, budget, Tangle,
     TangleIfMet, sessions, Ban
<1>2. RequestsFit'
  BY <1>r, <1>1 DEF TypeOK, Request, At, Works, Fails, budget, Tangle,
     TangleIfMet, sessions, RequestsFit, RowsComeFirst, Ban
<1>3. RowsComeFirst'
  BY <1>r, <1>1 DEF TypeOK, Request, At, Works, Fails, budget, Tangle,
     TangleIfMet, sessions, RequestsFit, RowsComeFirst, Ban
<1>4. UntangledAreAlone'
  BY <1>r, <1>1 DEF TypeOK, Request, At, Works, Fails, budget, Tangle,
     TangleIfMet, sessions, RequestsFit, UntangledAreAlone, Meets, Ban
<1>5. StepsAreSafe'
  BY <1>r, <1>1 DEF TypeOK, Request, At, Works, Fails, budget, Tangle,
     TangleIfMet, sessions, RequestsFit, RowsComeFirst, UntangledAreAlone,
     StepsAreSafe, CopiesAreCurrent, Meets, Accepted, Active, TokensOf, Ban
<1>6. OneSessionEach'
  BY <1>r, <1>1 DEF TypeOK, Request, At, Works, Fails, budget, Tangle,
     TangleIfMet, sessions, RequestsFit, RowsComeFirst, StepsAreSafe,
     OneSessionEach, TokensOf, Ban
<1>7. CopiesAreCurrent'
  BY <1>r, <1>1 DEF TypeOK, Request, At, Works, Fails, budget, Tangle,
     TangleIfMet, sessions, RequestsFit, RowsComeFirst, StepsAreSafe,
     CopiesAreCurrent, Accepted, Active, TokensOf, Ban
<1>8. BannedAreOut'
  BY <1>r, <1>1 DEF TypeOK, Request, At, Works, Fails, budget, Tangle,
     TangleIfMet, sessions, RequestsFit, RowsComeFirst, UntangledAreAlone,
     StepsAreSafe, BannedAreOut, Meets, Accepted, TokensOf, BanInFlight, Ban
<1> QED
  BY <1>1, <1>2, <1>3, <1>4, <1>5, <1>6, <1>7, <1>8

\* A login that meets a request tangles the user, so it may rely on being alone.
LEMMA LoginStep ==
  ASSUME SessionsInv, NEW h \in Handlers, NEW u \in Users, Login(h, u)
  PROVE  SessionsInv'
<1> USE DEF SessionsInv
<1>t. request \in [Handlers -> Request]
  BY DEF TypeOK
<1>r. \A g \in Handlers : request'[g] =
       IF g = h THEN [at |-> "listTokens", kind |-> "login", user |-> u,
                      token |-> NoToken, batch |-> {}]
       ELSE request[g]
  BY <1>t DEF Request, Return, Begin, Move, Goto, Login
<1>s. request' = [g \in Handlers |-> request'[g]]
  BY <1>t DEF Return, Begin, Move, Goto, Login
<1>q. request' \in [Handlers -> Request]
  BY <1>r, <1>s, <1>t DEF Request, Steps, Kinds
<1>1. TypeOK'
  BY <1>q, BoundsAreNats DEF TypeOK, Works, Fails, budget, Tangle,
     TangleIfMet, sessions, Login
<1>2. RequestsFit'
  BY <1>r, <1>1 DEF TypeOK, Request, At, Works, Fails, budget, Tangle,
     TangleIfMet, sessions, RequestsFit, RowsComeFirst, Login
<1>3. RowsComeFirst'
  BY <1>r, <1>1 DEF TypeOK, Request, At, Works, Fails, budget, Tangle,
     TangleIfMet, sessions, RequestsFit, RowsComeFirst, Login
<1>4. UntangledAreAlone'
  BY <1>r, <1>1 DEF TypeOK, Request, At, Works, Fails, budget, Tangle,
     TangleIfMet, sessions, RequestsFit, UntangledAreAlone, Meets, Login
<1>5. StepsAreSafe'
  BY <1>r, <1>1 DEF TypeOK, Request, At, Works, Fails, budget, Tangle,
     TangleIfMet, sessions, RequestsFit, RowsComeFirst, UntangledAreAlone,
     StepsAreSafe, CopiesAreCurrent, Meets, Accepted, Active, TokensOf, Login
<1>6. OneSessionEach'
  BY <1>r, <1>1 DEF TypeOK, Request, At, Works, Fails, budget, Tangle,
     TangleIfMet, sessions, RequestsFit, RowsComeFirst, StepsAreSafe,
     OneSessionEach, TokensOf, Login
<1>7. CopiesAreCurrent'
  BY <1>r, <1>1 DEF TypeOK, Request, At, Works, Fails, budget, Tangle,
     TangleIfMet, sessions, RequestsFit, RowsComeFirst, StepsAreSafe,
     CopiesAreCurrent, Accepted, Active, TokensOf, Login
<1>8. BannedAreOut'
  BY <1>r, <1>1 DEF TypeOK, Request, At, Works, Fails, budget, Tangle,
     TangleIfMet, sessions, RequestsFit, RowsComeFirst, UntangledAreAlone,
     StepsAreSafe, BannedAreOut, Meets, Accepted, TokensOf, BanInFlight,
     Login
<1> QED
  BY <1>1, <1>2, <1>3, <1>4, <1>5, <1>6, <1>7, <1>8

\* Every accepted token of an untangled user is active, hence listed.
LEMMA ListTokensStep ==
  ASSUME SessionsInv, NEW h \in Handlers, ListTokens(h)
  PROVE  SessionsInv'
<1> USE DEF SessionsInv
<1>t. request \in [Handlers -> Request]
  BY DEF TypeOK
<1> DEFINE B == {t \in TokensOf(request[h].user) : Active(t)}
<1>u. B \in SUBSET Tokens /\ request[h].user \in Users
  BY DEF ListTokens, At, RequestsFit, TokensOf
<1> HIDE DEF B
<1>1. ASSUME At(h, "listTokens"), Works, UNCHANGED tangled,
            Move(h, "dropCopies", NoToken, B),
            UNCHANGED <<registered, banned, sessions, cached, held>>
     PROVE  SessionsInv'
  <2>r. \A g \in Handlers : request'[g] =
         IF g = h THEN [at |-> "dropCopies", kind |-> request[g].kind, user |-> request[g].user,
                        token |-> NoToken, batch |-> B]
         ELSE request[g]
    BY <1>1, <1>t DEF Request, Return, Begin, Move, Goto
  <2>s. request' = [g \in Handlers |-> request'[g]]
    BY <1>1, <1>t DEF Return, Begin, Move, Goto
  <2>q. request' \in [Handlers -> Request]
    BY <2>r, <2>s, <1>t, <1>u DEF Request, Steps, Kinds
  <2>1. TypeOK'
    BY <1>1, <2>q, <1>u, BoundsAreNats DEF TypeOK, Works, Fails, budget,
       Tangle, TangleIfMet, sessions
  <2>2. RequestsFit'
    BY <1>1, <2>r, <1>u, <2>1 DEF TypeOK, Request, At, Works, Fails, budget,
       Tangle, TangleIfMet, sessions, RequestsFit, RowsComeFirst
  <2>3. RowsComeFirst'
    BY <1>1, <2>r, <1>u, <2>1 DEF TypeOK, Request, At, Works, Fails, budget,
       Tangle, TangleIfMet, sessions, RequestsFit, RowsComeFirst
  <2>4. UntangledAreAlone'
    BY <1>1, <2>r, <1>u, <2>1 DEF TypeOK, Request, At, Works, Fails, budget,
       Tangle, TangleIfMet, sessions, RequestsFit, UntangledAreAlone, Meets
  <2>5. StepsAreSafe'
    BY <1>1, <2>r, <1>u, <2>1 DEF TypeOK, Request, At, Works, Fails, budget,
       Tangle, TangleIfMet, sessions, RequestsFit, RowsComeFirst,
       UntangledAreAlone, StepsAreSafe, CopiesAreCurrent, Meets, Accepted,
       Active, TokensOf, B
  <2>6. OneSessionEach'
    BY <1>1, <2>r, <1>u, <2>1 DEF TypeOK, Request, At, Works, Fails, budget,
       Tangle, TangleIfMet, sessions, RequestsFit, RowsComeFirst, StepsAreSafe,
       OneSessionEach, TokensOf
  <2>7. CopiesAreCurrent'
    BY <1>1, <2>r, <1>u, <2>1 DEF TypeOK, Request, At, Works, Fails, budget,
       Tangle, TangleIfMet, sessions, RequestsFit, RowsComeFirst, StepsAreSafe,
       CopiesAreCurrent, Accepted, Active, TokensOf
  <2>8. BannedAreOut'
    BY <1>1, <2>r, <1>u, <2>1 DEF TypeOK, Request, At, Works, Fails, budget,
       Tangle, TangleIfMet, sessions, RequestsFit, RowsComeFirst,
       UntangledAreAlone, StepsAreSafe, BannedAreOut, Meets, Accepted,
       TokensOf, BanInFlight
  <2> QED
    BY <2>1, <2>2, <2>3, <2>4, <2>5, <2>6, <2>7, <2>8
<1>2. ASSUME At(h, "listTokens"), Fails, Tangle({request[h].user}),
            request[h].kind = "login", Goto(h, "createSession"),
            UNCHANGED <<registered, banned, sessions, cached, held>>
     PROVE  SessionsInv'
  <2>r. \A g \in Handlers : request'[g] =
         IF g = h THEN [at |-> "createSession", kind |-> request[g].kind, user |-> request[g].user,
                        token |-> request[g].token, batch |-> request[g].batch]
         ELSE request[g]
    BY <1>2, <1>t DEF Request, Return, Begin, Move, Goto
  <2>s. request' = [g \in Handlers |-> request'[g]]
    BY <1>2, <1>t DEF Return, Begin, Move, Goto
  <2>q. request' \in [Handlers -> Request]
    BY <2>r, <2>s, <1>t, <1>u DEF Request, Steps, Kinds
  <2>1. TypeOK'
    BY <1>2, <2>q, <1>u, BoundsAreNats DEF TypeOK, Works, Fails, budget,
       Tangle, TangleIfMet, sessions
  <2>2. RequestsFit'
    BY <1>2, <2>r, <1>u, <2>1 DEF TypeOK, Request, At, Works, Fails, budget,
       Tangle, TangleIfMet, sessions, RequestsFit, RowsComeFirst
  <2>3. RowsComeFirst'
    BY <1>2, <2>r, <1>u, <2>1 DEF TypeOK, Request, At, Works, Fails, budget,
       Tangle, TangleIfMet, sessions, RequestsFit, RowsComeFirst
  <2>4. UntangledAreAlone'
    BY <1>2, <2>r, <1>u, <2>1 DEF TypeOK, Request, At, Works, Fails, budget,
       Tangle, TangleIfMet, sessions, RequestsFit, UntangledAreAlone, Meets
  <2>5. StepsAreSafe'
    BY <1>2, <2>r, <1>u, <2>1 DEF TypeOK, Request, At, Works, Fails, budget,
       Tangle, TangleIfMet, sessions, RequestsFit, RowsComeFirst,
       UntangledAreAlone, StepsAreSafe, CopiesAreCurrent, Meets, Accepted,
       Active, TokensOf, B
  <2>6. OneSessionEach'
    BY <1>2, <2>r, <1>u, <2>1 DEF TypeOK, Request, At, Works, Fails, budget,
       Tangle, TangleIfMet, sessions, RequestsFit, RowsComeFirst, StepsAreSafe,
       OneSessionEach, TokensOf
  <2>7. CopiesAreCurrent'
    BY <1>2, <2>r, <1>u, <2>1 DEF TypeOK, Request, At, Works, Fails, budget,
       Tangle, TangleIfMet, sessions, RequestsFit, RowsComeFirst, StepsAreSafe,
       CopiesAreCurrent, Accepted, Active, TokensOf
  <2>8. BannedAreOut'
    BY <1>2, <2>r, <1>u, <2>1 DEF TypeOK, Request, At, Works, Fails, budget,
       Tangle, TangleIfMet, sessions, RequestsFit, RowsComeFirst,
       UntangledAreAlone, StepsAreSafe, BannedAreOut, Meets, Accepted,
       TokensOf, BanInFlight
  <2> QED
    BY <2>1, <2>2, <2>3, <2>4, <2>5, <2>6, <2>7, <2>8
<1>3. ASSUME At(h, "listTokens"), Fails, Tangle({request[h].user}),
            request[h].kind # "login", Return(h),
            UNCHANGED <<registered, banned, sessions, cached, held>>
     PROVE  SessionsInv'
  <2>r. \A g \in Handlers : request'[g] =
         IF g = h THEN Idle
         ELSE request[g]
    BY <1>3, <1>t DEF Request, Return, Begin, Move, Goto
  <2>s. request' = [g \in Handlers |-> request'[g]]
    BY <1>3, <1>t DEF Return, Begin, Move, Goto
  <2>q. request' \in [Handlers -> Request]
    BY <2>r, <2>s, <1>t, <1>u DEF Request, Steps, Kinds
  <2>1. TypeOK'
    BY <1>3, <2>q, <1>u, BoundsAreNats DEF TypeOK, Works, Fails, budget,
       Tangle, TangleIfMet, sessions
  <2>2. RequestsFit'
    BY <1>3, <2>r, <1>u, <2>1 DEF TypeOK, Request, At, Works, Fails, budget,
       Tangle, TangleIfMet, sessions, RequestsFit, RowsComeFirst
  <2>3. RowsComeFirst'
    BY <1>3, <2>r, <1>u, <2>1 DEF TypeOK, Request, At, Works, Fails, budget,
       Tangle, TangleIfMet, sessions, RequestsFit, RowsComeFirst
  <2>4. UntangledAreAlone'
    BY <1>3, <2>r, <1>u, <2>1 DEF TypeOK, Request, At, Works, Fails, budget,
       Tangle, TangleIfMet, sessions, RequestsFit, UntangledAreAlone, Meets
  <2>5. StepsAreSafe'
    BY <1>3, <2>r, <1>u, <2>1 DEF TypeOK, Request, At, Works, Fails, budget,
       Tangle, TangleIfMet, sessions, RequestsFit, RowsComeFirst,
       UntangledAreAlone, StepsAreSafe, CopiesAreCurrent, Meets, Accepted,
       Active, TokensOf, B
  <2>6. OneSessionEach'
    BY <1>3, <2>r, <1>u, <2>1 DEF TypeOK, Request, At, Works, Fails, budget,
       Tangle, TangleIfMet, sessions, RequestsFit, RowsComeFirst, StepsAreSafe,
       OneSessionEach, TokensOf
  <2>7. CopiesAreCurrent'
    BY <1>3, <2>r, <1>u, <2>1 DEF TypeOK, Request, At, Works, Fails, budget,
       Tangle, TangleIfMet, sessions, RequestsFit, RowsComeFirst, StepsAreSafe,
       CopiesAreCurrent, Accepted, Active, TokensOf
  <2>8. BannedAreOut'
    BY <1>3, <2>r, <1>u, <2>1 DEF TypeOK, Request, At, Works, Fails, budget,
       Tangle, TangleIfMet, sessions, RequestsFit, RowsComeFirst,
       UntangledAreAlone, StepsAreSafe, BannedAreOut, Meets, Accepted,
       TokensOf, BanInFlight
  <2> QED
    BY <2>1, <2>2, <2>3, <2>4, <2>5, <2>6, <2>7, <2>8
<1> QED
  BY <1>1, <1>2, <1>3 DEF ListTokens, B, AfterInvalidation

\* Outside the batch no copy of the user is accepted.
LEMMA DropCopyStep ==
  ASSUME SessionsInv, NEW h \in Handlers, NEW c \in Tokens, DropCopy(h, c)
  PROVE  SessionsInv'
<1> USE DEF SessionsInv
<1>t. request \in [Handlers -> Request]
  BY DEF TypeOK
<1>u. request[h].user \in Users /\ c \in request[h].batch
  BY DEF DropCopy, At, RequestsFit
<1>1. ASSUME At(h, "dropCopies"), Works, cached' = cached \ {c}, UNCHANGED tangled,
            Move(h, "dropCopies", NoToken, request[h].batch \ {c}),
            UNCHANGED <<registered, banned, sessions, held>>
     PROVE  SessionsInv'
  <2>r. \A g \in Handlers : request'[g] =
         IF g = h THEN [at |-> "dropCopies", kind |-> request[g].kind, user |-> request[g].user,
                        token |-> NoToken, batch |-> request[g].batch \ {c}]
         ELSE request[g]
    BY <1>1, <1>t DEF Request, Return, Begin, Move, Goto
  <2>s. request' = [g \in Handlers |-> request'[g]]
    BY <1>1, <1>t DEF Return, Begin, Move, Goto
  <2>q. request' \in [Handlers -> Request]
    BY <2>r, <2>s, <1>t, <1>u DEF Request, Steps, Kinds
  <2>1. TypeOK'
    BY <1>1, <2>q, <1>u, BoundsAreNats DEF TypeOK, Works, Fails, budget,
       Tangle, TangleIfMet, sessions
  <2>2. RequestsFit'
    BY <1>1, <2>r, <1>u, <2>1 DEF TypeOK, Request, At, Works, Fails, budget,
       Tangle, TangleIfMet, sessions, RequestsFit, RowsComeFirst
  <2>3. RowsComeFirst'
    BY <1>1, <2>r, <1>u, <2>1 DEF TypeOK, Request, At, Works, Fails, budget,
       Tangle, TangleIfMet, sessions, RequestsFit, RowsComeFirst
  <2>4. UntangledAreAlone'
    BY <1>1, <2>r, <1>u, <2>1 DEF TypeOK, Request, At, Works, Fails, budget,
       Tangle, TangleIfMet, sessions, RequestsFit, UntangledAreAlone, Meets
  <2>5. StepsAreSafe'
    BY <1>1, <2>r, <1>u, <2>1 DEF TypeOK, Request, At, Works, Fails, budget,
       Tangle, TangleIfMet, sessions, RequestsFit, RowsComeFirst,
       UntangledAreAlone, StepsAreSafe, CopiesAreCurrent, Meets, Accepted,
       Active, TokensOf
  <2>6. OneSessionEach'
    BY <1>1, <2>r, <1>u, <2>1 DEF TypeOK, Request, At, Works, Fails, budget,
       Tangle, TangleIfMet, sessions, RequestsFit, RowsComeFirst, StepsAreSafe,
       OneSessionEach, TokensOf
  <2>7. CopiesAreCurrent'
    BY <1>1, <2>r, <1>u, <2>1 DEF TypeOK, Request, At, Works, Fails, budget,
       Tangle, TangleIfMet, sessions, RequestsFit, RowsComeFirst, StepsAreSafe,
       CopiesAreCurrent, Accepted, Active, TokensOf
  <2>8. BannedAreOut'
    BY <1>1, <2>r, <1>u, <2>1 DEF TypeOK, Request, At, Works, Fails, budget,
       Tangle, TangleIfMet, sessions, RequestsFit, RowsComeFirst,
       UntangledAreAlone, StepsAreSafe, BannedAreOut, Meets, Accepted,
       TokensOf, BanInFlight
  <2> QED
    BY <2>1, <2>2, <2>3, <2>4, <2>5, <2>6, <2>7, <2>8
<1>2. ASSUME At(h, "dropCopies"), Fails, Tangle({request[h].user}), UNCHANGED cached,
            Move(h, "dropCopies", NoToken, request[h].batch \ {c}),
            UNCHANGED <<registered, banned, sessions, held>>
     PROVE  SessionsInv'
  <2>r. \A g \in Handlers : request'[g] =
         IF g = h THEN [at |-> "dropCopies", kind |-> request[g].kind, user |-> request[g].user,
                        token |-> NoToken, batch |-> request[g].batch \ {c}]
         ELSE request[g]
    BY <1>2, <1>t DEF Request, Return, Begin, Move, Goto
  <2>s. request' = [g \in Handlers |-> request'[g]]
    BY <1>2, <1>t DEF Return, Begin, Move, Goto
  <2>q. request' \in [Handlers -> Request]
    BY <2>r, <2>s, <1>t, <1>u DEF Request, Steps, Kinds
  <2>1. TypeOK'
    BY <1>2, <2>q, <1>u, BoundsAreNats DEF TypeOK, Works, Fails, budget,
       Tangle, TangleIfMet, sessions
  <2>2. RequestsFit'
    BY <1>2, <2>r, <1>u, <2>1 DEF TypeOK, Request, At, Works, Fails, budget,
       Tangle, TangleIfMet, sessions, RequestsFit, RowsComeFirst
  <2>3. RowsComeFirst'
    BY <1>2, <2>r, <1>u, <2>1 DEF TypeOK, Request, At, Works, Fails, budget,
       Tangle, TangleIfMet, sessions, RequestsFit, RowsComeFirst
  <2>4. UntangledAreAlone'
    BY <1>2, <2>r, <1>u, <2>1 DEF TypeOK, Request, At, Works, Fails, budget,
       Tangle, TangleIfMet, sessions, RequestsFit, UntangledAreAlone, Meets
  <2>5. StepsAreSafe'
    BY <1>2, <2>r, <1>u, <2>1 DEF TypeOK, Request, At, Works, Fails, budget,
       Tangle, TangleIfMet, sessions, RequestsFit, RowsComeFirst,
       UntangledAreAlone, StepsAreSafe, CopiesAreCurrent, Meets, Accepted,
       Active, TokensOf
  <2>6. OneSessionEach'
    BY <1>2, <2>r, <1>u, <2>1 DEF TypeOK, Request, At, Works, Fails, budget,
       Tangle, TangleIfMet, sessions, RequestsFit, RowsComeFirst, StepsAreSafe,
       OneSessionEach, TokensOf
  <2>7. CopiesAreCurrent'
    BY <1>2, <2>r, <1>u, <2>1 DEF TypeOK, Request, At, Works, Fails, budget,
       Tangle, TangleIfMet, sessions, RequestsFit, RowsComeFirst, StepsAreSafe,
       CopiesAreCurrent, Accepted, Active, TokensOf
  <2>8. BannedAreOut'
    BY <1>2, <2>r, <1>u, <2>1 DEF TypeOK, Request, At, Works, Fails, budget,
       Tangle, TangleIfMet, sessions, RequestsFit, RowsComeFirst,
       UntangledAreAlone, StepsAreSafe, BannedAreOut, Meets, Accepted,
       TokensOf, BanInFlight
  <2> QED
    BY <2>1, <2>2, <2>3, <2>4, <2>5, <2>6, <2>7, <2>8
<1> QED
  BY <1>1, <1>2 DEF DropCopy

\* With an empty batch no copy is left when the rows are revoked.
LEMMA RevokeAllStep ==
  ASSUME SessionsInv, NEW h \in Handlers, RevokeAll(h)
  PROVE  SessionsInv'
<1> USE DEF SessionsInv
<1>t. request \in [Handlers -> Request]
  BY DEF TypeOK
<1>u. request[h].user \in Users /\ request[h].kind \in {"login", "ban"}
  BY DEF RevokeAll, At, RequestsFit
<1>1. ASSUME At(h, "dropCopies"), request[h].batch = {}, Works, UNCHANGED tangled,
            row' = [t \in Tokens |->
              IF owner[t] = request[h].user /\ row[t] = "active" THEN "revoked" ELSE row[t]],
            request[h].kind = "login", Goto(h, "createSession"),
            UNCHANGED <<registered, banned, owner, expired, cached, held>>
     PROVE  SessionsInv'
  <2>r. \A g \in Handlers : request'[g] =
         IF g = h THEN [at |-> "createSession", kind |-> request[g].kind, user |-> request[g].user,
                        token |-> request[g].token, batch |-> request[g].batch]
         ELSE request[g]
    BY <1>1, <1>t DEF Request, Return, Begin, Move, Goto
  <2>s. request' = [g \in Handlers |-> request'[g]]
    BY <1>1, <1>t DEF Return, Begin, Move, Goto
  <2>q. request' \in [Handlers -> Request]
    BY <2>r, <2>s, <1>t, <1>u DEF Request, Steps, Kinds
  <2>1. TypeOK'
    BY <1>1, <2>q, <1>u, BoundsAreNats DEF TypeOK, Works, Fails, budget,
       Tangle, TangleIfMet, sessions
  <2>2. RequestsFit'
    BY <1>1, <2>r, <1>u, <2>1 DEF TypeOK, Request, At, Works, Fails, budget,
       Tangle, TangleIfMet, sessions, RequestsFit, RowsComeFirst
  <2>3. RowsComeFirst'
    BY <1>1, <2>r, <1>u, <2>1 DEF TypeOK, Request, At, Works, Fails, budget,
       Tangle, TangleIfMet, sessions, RequestsFit, RowsComeFirst
  <2>4. UntangledAreAlone'
    BY <1>1, <2>r, <1>u, <2>1 DEF TypeOK, Request, At, Works, Fails, budget,
       Tangle, TangleIfMet, sessions, RequestsFit, UntangledAreAlone, Meets
  <2>5. StepsAreSafe'
    BY <1>1, <2>r, <1>u, <2>1 DEF TypeOK, Request, At, Works, Fails, budget,
       Tangle, TangleIfMet, sessions, RequestsFit, RowsComeFirst,
       UntangledAreAlone, StepsAreSafe, CopiesAreCurrent, Meets, Accepted,
       Active, TokensOf
  <2>6. OneSessionEach'
    BY <1>1, <2>r, <1>u, <2>1 DEF TypeOK, Request, At, Works, Fails, budget,
       Tangle, TangleIfMet, sessions, RequestsFit, RowsComeFirst, StepsAreSafe,
       OneSessionEach, TokensOf
  <2>7. CopiesAreCurrent'
    BY <1>1, <2>r, <1>u, <2>1 DEF TypeOK, Request, At, Works, Fails, budget,
       Tangle, TangleIfMet, sessions, RequestsFit, RowsComeFirst, StepsAreSafe,
       CopiesAreCurrent, Accepted, Active, TokensOf
  <2>8. BannedAreOut'
    BY <1>1, <2>r, <1>u, <2>1 DEF TypeOK, Request, At, Works, Fails, budget,
       Tangle, TangleIfMet, sessions, RequestsFit, RowsComeFirst,
       UntangledAreAlone, StepsAreSafe, BannedAreOut, Meets, Accepted,
       TokensOf, BanInFlight
  <2> QED
    BY <2>1, <2>2, <2>3, <2>4, <2>5, <2>6, <2>7, <2>8
<1>2. ASSUME At(h, "dropCopies"), request[h].batch = {}, Works, UNCHANGED tangled,
            row' = [t \in Tokens |->
              IF owner[t] = request[h].user /\ row[t] = "active" THEN "revoked" ELSE row[t]],
            request[h].kind # "login", Return(h),
            UNCHANGED <<registered, banned, owner, expired, cached, held>>
     PROVE  SessionsInv'
  <2>r. \A g \in Handlers : request'[g] =
         IF g = h THEN Idle
         ELSE request[g]
    BY <1>2, <1>t DEF Request, Return, Begin, Move, Goto
  <2>s. request' = [g \in Handlers |-> request'[g]]
    BY <1>2, <1>t DEF Return, Begin, Move, Goto
  <2>q. request' \in [Handlers -> Request]
    BY <2>r, <2>s, <1>t, <1>u DEF Request, Steps, Kinds
  <2>1. TypeOK'
    BY <1>2, <2>q, <1>u, BoundsAreNats DEF TypeOK, Works, Fails, budget,
       Tangle, TangleIfMet, sessions
  <2>2. RequestsFit'
    BY <1>2, <2>r, <1>u, <2>1 DEF TypeOK, Request, At, Works, Fails, budget,
       Tangle, TangleIfMet, sessions, RequestsFit, RowsComeFirst
  <2>3. RowsComeFirst'
    BY <1>2, <2>r, <1>u, <2>1 DEF TypeOK, Request, At, Works, Fails, budget,
       Tangle, TangleIfMet, sessions, RequestsFit, RowsComeFirst
  <2>4. UntangledAreAlone'
    BY <1>2, <2>r, <1>u, <2>1 DEF TypeOK, Request, At, Works, Fails, budget,
       Tangle, TangleIfMet, sessions, RequestsFit, UntangledAreAlone, Meets
  <2>5. StepsAreSafe'
    BY <1>2, <2>r, <1>u, <2>1 DEF TypeOK, Request, At, Works, Fails, budget,
       Tangle, TangleIfMet, sessions, RequestsFit, RowsComeFirst,
       UntangledAreAlone, StepsAreSafe, CopiesAreCurrent, Meets, Accepted,
       Active, TokensOf
  <2>6. OneSessionEach'
    BY <1>2, <2>r, <1>u, <2>1 DEF TypeOK, Request, At, Works, Fails, budget,
       Tangle, TangleIfMet, sessions, RequestsFit, RowsComeFirst, StepsAreSafe,
       OneSessionEach, TokensOf
  <2>7. CopiesAreCurrent'
    BY <1>2, <2>r, <1>u, <2>1 DEF TypeOK, Request, At, Works, Fails, budget,
       Tangle, TangleIfMet, sessions, RequestsFit, RowsComeFirst, StepsAreSafe,
       CopiesAreCurrent, Accepted, Active, TokensOf
  <2>8. BannedAreOut'
    BY <1>2, <2>r, <1>u, <2>1 DEF TypeOK, Request, At, Works, Fails, budget,
       Tangle, TangleIfMet, sessions, RequestsFit, RowsComeFirst,
       UntangledAreAlone, StepsAreSafe, BannedAreOut, Meets, Accepted,
       TokensOf, BanInFlight
  <2> QED
    BY <2>1, <2>2, <2>3, <2>4, <2>5, <2>6, <2>7, <2>8
<1>3. ASSUME At(h, "dropCopies"), request[h].batch = {}, Fails, Tangle({request[h].user}), UNCHANGED row,
            request[h].kind = "login", Goto(h, "createSession"),
            UNCHANGED <<registered, banned, owner, expired, cached, held>>
     PROVE  SessionsInv'
  <2>r. \A g \in Handlers : request'[g] =
         IF g = h THEN [at |-> "createSession", kind |-> request[g].kind, user |-> request[g].user,
                        token |-> request[g].token, batch |-> request[g].batch]
         ELSE request[g]
    BY <1>3, <1>t DEF Request, Return, Begin, Move, Goto
  <2>s. request' = [g \in Handlers |-> request'[g]]
    BY <1>3, <1>t DEF Return, Begin, Move, Goto
  <2>q. request' \in [Handlers -> Request]
    BY <2>r, <2>s, <1>t, <1>u DEF Request, Steps, Kinds
  <2>1. TypeOK'
    BY <1>3, <2>q, <1>u, BoundsAreNats DEF TypeOK, Works, Fails, budget,
       Tangle, TangleIfMet, sessions
  <2>2. RequestsFit'
    BY <1>3, <2>r, <1>u, <2>1 DEF TypeOK, Request, At, Works, Fails, budget,
       Tangle, TangleIfMet, sessions, RequestsFit, RowsComeFirst
  <2>3. RowsComeFirst'
    BY <1>3, <2>r, <1>u, <2>1 DEF TypeOK, Request, At, Works, Fails, budget,
       Tangle, TangleIfMet, sessions, RequestsFit, RowsComeFirst
  <2>4. UntangledAreAlone'
    BY <1>3, <2>r, <1>u, <2>1 DEF TypeOK, Request, At, Works, Fails, budget,
       Tangle, TangleIfMet, sessions, RequestsFit, UntangledAreAlone, Meets
  <2>5. StepsAreSafe'
    BY <1>3, <2>r, <1>u, <2>1 DEF TypeOK, Request, At, Works, Fails, budget,
       Tangle, TangleIfMet, sessions, RequestsFit, RowsComeFirst,
       UntangledAreAlone, StepsAreSafe, CopiesAreCurrent, Meets, Accepted,
       Active, TokensOf
  <2>6. OneSessionEach'
    BY <1>3, <2>r, <1>u, <2>1 DEF TypeOK, Request, At, Works, Fails, budget,
       Tangle, TangleIfMet, sessions, RequestsFit, RowsComeFirst, StepsAreSafe,
       OneSessionEach, TokensOf
  <2>7. CopiesAreCurrent'
    BY <1>3, <2>r, <1>u, <2>1 DEF TypeOK, Request, At, Works, Fails, budget,
       Tangle, TangleIfMet, sessions, RequestsFit, RowsComeFirst, StepsAreSafe,
       CopiesAreCurrent, Accepted, Active, TokensOf
  <2>8. BannedAreOut'
    BY <1>3, <2>r, <1>u, <2>1 DEF TypeOK, Request, At, Works, Fails, budget,
       Tangle, TangleIfMet, sessions, RequestsFit, RowsComeFirst,
       UntangledAreAlone, StepsAreSafe, BannedAreOut, Meets, Accepted,
       TokensOf, BanInFlight
  <2> QED
    BY <2>1, <2>2, <2>3, <2>4, <2>5, <2>6, <2>7, <2>8
<1>4. ASSUME At(h, "dropCopies"), request[h].batch = {}, Fails, Tangle({request[h].user}), UNCHANGED row,
            request[h].kind # "login", Return(h),
            UNCHANGED <<registered, banned, owner, expired, cached, held>>
     PROVE  SessionsInv'
  <2>r. \A g \in Handlers : request'[g] =
         IF g = h THEN Idle
         ELSE request[g]
    BY <1>4, <1>t DEF Request, Return, Begin, Move, Goto
  <2>s. request' = [g \in Handlers |-> request'[g]]
    BY <1>4, <1>t DEF Return, Begin, Move, Goto
  <2>q. request' \in [Handlers -> Request]
    BY <2>r, <2>s, <1>t, <1>u DEF Request, Steps, Kinds
  <2>1. TypeOK'
    BY <1>4, <2>q, <1>u, BoundsAreNats DEF TypeOK, Works, Fails, budget,
       Tangle, TangleIfMet, sessions
  <2>2. RequestsFit'
    BY <1>4, <2>r, <1>u, <2>1 DEF TypeOK, Request, At, Works, Fails, budget,
       Tangle, TangleIfMet, sessions, RequestsFit, RowsComeFirst
  <2>3. RowsComeFirst'
    BY <1>4, <2>r, <1>u, <2>1 DEF TypeOK, Request, At, Works, Fails, budget,
       Tangle, TangleIfMet, sessions, RequestsFit, RowsComeFirst
  <2>4. UntangledAreAlone'
    BY <1>4, <2>r, <1>u, <2>1 DEF TypeOK, Request, At, Works, Fails, budget,
       Tangle, TangleIfMet, sessions, RequestsFit, UntangledAreAlone, Meets
  <2>5. StepsAreSafe'
    BY <1>4, <2>r, <1>u, <2>1 DEF TypeOK, Request, At, Works, Fails, budget,
       Tangle, TangleIfMet, sessions, RequestsFit, RowsComeFirst,
       UntangledAreAlone, StepsAreSafe, CopiesAreCurrent, Meets, Accepted,
       Active, TokensOf
  <2>6. OneSessionEach'
    BY <1>4, <2>r, <1>u, <2>1 DEF TypeOK, Request, At, Works, Fails, budget,
       Tangle, TangleIfMet, sessions, RequestsFit, RowsComeFirst, StepsAreSafe,
       OneSessionEach, TokensOf
  <2>7. CopiesAreCurrent'
    BY <1>4, <2>r, <1>u, <2>1 DEF TypeOK, Request, At, Works, Fails, budget,
       Tangle, TangleIfMet, sessions, RequestsFit, RowsComeFirst, StepsAreSafe,
       CopiesAreCurrent, Accepted, Active, TokensOf
  <2>8. BannedAreOut'
    BY <1>4, <2>r, <1>u, <2>1 DEF TypeOK, Request, At, Works, Fails, budget,
       Tangle, TangleIfMet, sessions, RequestsFit, RowsComeFirst,
       UntangledAreAlone, StepsAreSafe, BannedAreOut, Meets, Accepted,
       TokensOf, BanInFlight
  <2> QED
    BY <2>1, <2>2, <2>3, <2>4, <2>5, <2>6, <2>7, <2>8
<1> QED
  BY <1>1, <1>2, <1>3, <1>4 DEF RevokeAll, AfterInvalidation

\* The new row is the only active one: the login is alone.
LEMMA CreateSessionStep ==
  ASSUME SessionsInv, NEW h \in Handlers, CreateSession(h)
  PROVE  SessionsInv'
<1> USE DEF SessionsInv
<1>t. request \in [Handlers -> Request]
  BY DEF TypeOK
<1>u. request[h].user \in Users /\ request[h].kind = "login"
  BY DEF CreateSession, At, RequestsFit
<1>1. ASSUME At(h, "createSession"), Works, NEW c \in Tokens, row[c] = "absent",
            row' = [row EXCEPT ![c] = "active"],
            owner' = [owner EXCEPT ![c] = request[h].user],
            Move(h, "cacheSession", c, {}),
            UNCHANGED <<registered, banned, expired, cached, held, tangled>>
     PROVE  SessionsInv'
  <2>r. \A g \in Handlers : request'[g] =
         IF g = h THEN [at |-> "cacheSession", kind |-> request[g].kind, user |-> request[g].user,
                        token |-> c, batch |-> {}]
         ELSE request[g]
    BY <1>1, <1>t DEF Request, Return, Begin, Move, Goto
  <2>s. request' = [g \in Handlers |-> request'[g]]
    BY <1>1, <1>t DEF Return, Begin, Move, Goto
  <2>q. request' \in [Handlers -> Request]
    BY <2>r, <2>s, <1>t, <1>u DEF Request, Steps, Kinds
  <2>1. TypeOK'
    BY <1>1, <2>q, <1>u, BoundsAreNats DEF TypeOK, Works, Fails, budget,
       Tangle, TangleIfMet, sessions
  <2>2. RequestsFit'
    BY <1>1, <2>r, <1>u, <2>1 DEF TypeOK, Request, At, Works, Fails, budget,
       Tangle, TangleIfMet, sessions, RequestsFit, RowsComeFirst
  <2>3. RowsComeFirst'
    BY <1>1, <2>r, <1>u, <2>1 DEF TypeOK, Request, At, Works, Fails, budget,
       Tangle, TangleIfMet, sessions, RequestsFit, RowsComeFirst
  <2>4. UntangledAreAlone'
    BY <1>1, <2>r, <1>u, <2>1 DEF TypeOK, Request, At, Works, Fails, budget,
       Tangle, TangleIfMet, sessions, RequestsFit, UntangledAreAlone, Meets
  <2>5. StepsAreSafe'
    BY <1>1, <2>r, <1>u, <2>1 DEF TypeOK, Request, At, Works, Fails, budget,
       Tangle, TangleIfMet, sessions, RequestsFit, RowsComeFirst,
       UntangledAreAlone, StepsAreSafe, CopiesAreCurrent, Meets, Accepted,
       Active, TokensOf
  <2>6. OneSessionEach'
    BY <1>1, <2>r, <1>u, <2>1 DEF TypeOK, Request, At, Works, Fails, budget,
       Tangle, TangleIfMet, sessions, RequestsFit, RowsComeFirst, StepsAreSafe,
       OneSessionEach, TokensOf
  <2>7. CopiesAreCurrent'
    BY <1>1, <2>r, <1>u, <2>1 DEF TypeOK, Request, At, Works, Fails, budget,
       Tangle, TangleIfMet, sessions, RequestsFit, RowsComeFirst, StepsAreSafe,
       CopiesAreCurrent, Accepted, Active, TokensOf
  <2>8. BannedAreOut'
    BY <1>1, <2>r, <1>u, <2>1 DEF TypeOK, Request, At, Works, Fails, budget,
       Tangle, TangleIfMet, sessions, RequestsFit, RowsComeFirst,
       UntangledAreAlone, StepsAreSafe, BannedAreOut, Meets, Accepted,
       TokensOf, BanInFlight
  <2> QED
    BY <2>1, <2>2, <2>3, <2>4, <2>5, <2>6, <2>7, <2>8
<1>2. ASSUME At(h, "createSession"), Works \/ Fails, Return(h), UNCHANGED <<row, owner>>,
            UNCHANGED <<registered, banned, expired, cached, held, tangled>>
     PROVE  SessionsInv'
  <2>r. \A g \in Handlers : request'[g] =
         IF g = h THEN Idle
         ELSE request[g]
    BY <1>2, <1>t DEF Request, Return, Begin, Move, Goto
  <2>s. request' = [g \in Handlers |-> request'[g]]
    BY <1>2, <1>t DEF Return, Begin, Move, Goto
  <2>q. request' \in [Handlers -> Request]
    BY <2>r, <2>s, <1>t, <1>u DEF Request, Steps, Kinds
  <2>1. TypeOK'
    BY <1>2, <2>q, <1>u, BoundsAreNats DEF TypeOK, Works, Fails, budget,
       Tangle, TangleIfMet, sessions
  <2>2. RequestsFit'
    BY <1>2, <2>r, <1>u, <2>1 DEF TypeOK, Request, At, Works, Fails, budget,
       Tangle, TangleIfMet, sessions, RequestsFit, RowsComeFirst
  <2>3. RowsComeFirst'
    BY <1>2, <2>r, <1>u, <2>1 DEF TypeOK, Request, At, Works, Fails, budget,
       Tangle, TangleIfMet, sessions, RequestsFit, RowsComeFirst
  <2>4. UntangledAreAlone'
    BY <1>2, <2>r, <1>u, <2>1 DEF TypeOK, Request, At, Works, Fails, budget,
       Tangle, TangleIfMet, sessions, RequestsFit, UntangledAreAlone, Meets
  <2>5. StepsAreSafe'
    BY <1>2, <2>r, <1>u, <2>1 DEF TypeOK, Request, At, Works, Fails, budget,
       Tangle, TangleIfMet, sessions, RequestsFit, RowsComeFirst,
       UntangledAreAlone, StepsAreSafe, CopiesAreCurrent, Meets, Accepted,
       Active, TokensOf
  <2>6. OneSessionEach'
    BY <1>2, <2>r, <1>u, <2>1 DEF TypeOK, Request, At, Works, Fails, budget,
       Tangle, TangleIfMet, sessions, RequestsFit, RowsComeFirst, StepsAreSafe,
       OneSessionEach, TokensOf
  <2>7. CopiesAreCurrent'
    BY <1>2, <2>r, <1>u, <2>1 DEF TypeOK, Request, At, Works, Fails, budget,
       Tangle, TangleIfMet, sessions, RequestsFit, RowsComeFirst, StepsAreSafe,
       CopiesAreCurrent, Accepted, Active, TokensOf
  <2>8. BannedAreOut'
    BY <1>2, <2>r, <1>u, <2>1 DEF TypeOK, Request, At, Works, Fails, budget,
       Tangle, TangleIfMet, sessions, RequestsFit, RowsComeFirst,
       UntangledAreAlone, StepsAreSafe, BannedAreOut, Meets, Accepted,
       TokensOf, BanInFlight
  <2> QED
    BY <2>1, <2>2, <2>3, <2>4, <2>5, <2>6, <2>7, <2>8
<1> QED
  BY <1>1, <1>2 DEF CreateSession

\* The row of a lone login is still active when its copy is written.
LEMMA CacheSessionStep ==
  ASSUME SessionsInv, NEW h \in Handlers, CacheSession(h)
  PROVE  SessionsInv'
<1> USE DEF SessionsInv
<1>t. request \in [Handlers -> Request]
  BY DEF TypeOK
<1>u. request[h].token \in Tokens
  BY DEF CacheSession, At, RequestsFit
<1>1. ASSUME At(h, "cacheSession"), Works, cached' = cached \cup {request[h].token},
            held' = held \cup {request[h].token}, Return(h),
            UNCHANGED <<registered, banned, sessions, tangled>>
     PROVE  SessionsInv'
  <2>r. \A g \in Handlers : request'[g] =
         IF g = h THEN Idle
         ELSE request[g]
    BY <1>1, <1>t DEF Request, Return, Begin, Move, Goto
  <2>s. request' = [g \in Handlers |-> request'[g]]
    BY <1>1, <1>t DEF Return, Begin, Move, Goto
  <2>q. request' \in [Handlers -> Request]
    BY <2>r, <2>s, <1>t, <1>u DEF Request, Steps, Kinds
  <2>1. TypeOK'
    BY <1>1, <2>q, <1>u, BoundsAreNats DEF TypeOK, Works, Fails, budget,
       Tangle, TangleIfMet, sessions
  <2>2. RequestsFit'
    BY <1>1, <2>r, <1>u, <2>1 DEF TypeOK, Request, At, Works, Fails, budget,
       Tangle, TangleIfMet, sessions, RequestsFit, RowsComeFirst
  <2>3. RowsComeFirst'
    BY <1>1, <2>r, <1>u, <2>1 DEF TypeOK, Request, At, Works, Fails, budget,
       Tangle, TangleIfMet, sessions, RequestsFit, RowsComeFirst
  <2>4. UntangledAreAlone'
    BY <1>1, <2>r, <1>u, <2>1 DEF TypeOK, Request, At, Works, Fails, budget,
       Tangle, TangleIfMet, sessions, RequestsFit, UntangledAreAlone, Meets
  <2>5. StepsAreSafe'
    BY <1>1, <2>r, <1>u, <2>1 DEF TypeOK, Request, At, Works, Fails, budget,
       Tangle, TangleIfMet, sessions, RequestsFit, RowsComeFirst,
       UntangledAreAlone, StepsAreSafe, CopiesAreCurrent, Meets, Accepted,
       Active, TokensOf
  <2>6. OneSessionEach'
    BY <1>1, <2>r, <1>u, <2>1 DEF TypeOK, Request, At, Works, Fails, budget,
       Tangle, TangleIfMet, sessions, RequestsFit, RowsComeFirst, StepsAreSafe,
       OneSessionEach, TokensOf
  <2>7. CopiesAreCurrent'
    BY <1>1, <2>r, <1>u, <2>1 DEF TypeOK, Request, At, Works, Fails, budget,
       Tangle, TangleIfMet, sessions, RequestsFit, RowsComeFirst, StepsAreSafe,
       CopiesAreCurrent, Accepted, Active, TokensOf
  <2>8. BannedAreOut'
    BY <1>1, <2>r, <1>u, <2>1 DEF TypeOK, Request, At, Works, Fails, budget,
       Tangle, TangleIfMet, sessions, RequestsFit, RowsComeFirst,
       UntangledAreAlone, StepsAreSafe, BannedAreOut, Meets, Accepted,
       TokensOf, BanInFlight
  <2> QED
    BY <2>1, <2>2, <2>3, <2>4, <2>5, <2>6, <2>7, <2>8
<1>2. ASSUME At(h, "cacheSession"), Fails, UNCHANGED cached,
            held' = held \cup {request[h].token}, Return(h),
            UNCHANGED <<registered, banned, sessions, tangled>>
     PROVE  SessionsInv'
  <2>r. \A g \in Handlers : request'[g] =
         IF g = h THEN Idle
         ELSE request[g]
    BY <1>2, <1>t DEF Request, Return, Begin, Move, Goto
  <2>s. request' = [g \in Handlers |-> request'[g]]
    BY <1>2, <1>t DEF Return, Begin, Move, Goto
  <2>q. request' \in [Handlers -> Request]
    BY <2>r, <2>s, <1>t, <1>u DEF Request, Steps, Kinds
  <2>1. TypeOK'
    BY <1>2, <2>q, <1>u, BoundsAreNats DEF TypeOK, Works, Fails, budget,
       Tangle, TangleIfMet, sessions
  <2>2. RequestsFit'
    BY <1>2, <2>r, <1>u, <2>1 DEF TypeOK, Request, At, Works, Fails, budget,
       Tangle, TangleIfMet, sessions, RequestsFit, RowsComeFirst
  <2>3. RowsComeFirst'
    BY <1>2, <2>r, <1>u, <2>1 DEF TypeOK, Request, At, Works, Fails, budget,
       Tangle, TangleIfMet, sessions, RequestsFit, RowsComeFirst
  <2>4. UntangledAreAlone'
    BY <1>2, <2>r, <1>u, <2>1 DEF TypeOK, Request, At, Works, Fails, budget,
       Tangle, TangleIfMet, sessions, RequestsFit, UntangledAreAlone, Meets
  <2>5. StepsAreSafe'
    BY <1>2, <2>r, <1>u, <2>1 DEF TypeOK, Request, At, Works, Fails, budget,
       Tangle, TangleIfMet, sessions, RequestsFit, RowsComeFirst,
       UntangledAreAlone, StepsAreSafe, CopiesAreCurrent, Meets, Accepted,
       Active, TokensOf
  <2>6. OneSessionEach'
    BY <1>2, <2>r, <1>u, <2>1 DEF TypeOK, Request, At, Works, Fails, budget,
       Tangle, TangleIfMet, sessions, RequestsFit, RowsComeFirst, StepsAreSafe,
       OneSessionEach, TokensOf
  <2>7. CopiesAreCurrent'
    BY <1>2, <2>r, <1>u, <2>1 DEF TypeOK, Request, At, Works, Fails, budget,
       Tangle, TangleIfMet, sessions, RequestsFit, RowsComeFirst, StepsAreSafe,
       CopiesAreCurrent, Accepted, Active, TokensOf
  <2>8. BannedAreOut'
    BY <1>2, <2>r, <1>u, <2>1 DEF TypeOK, Request, At, Works, Fails, budget,
       Tangle, TangleIfMet, sessions, RequestsFit, RowsComeFirst,
       UntangledAreAlone, StepsAreSafe, BannedAreOut, Meets, Accepted,
       TokensOf, BanInFlight
  <2> QED
    BY <2>1, <2>2, <2>3, <2>4, <2>5, <2>6, <2>7, <2>8
<1> QED
  BY <1>1, <1>2 DEF CacheSession

\* A logout that meets a request tangles the owner.
LEMMA LogoutStep ==
  ASSUME SessionsInv, NEW h \in Handlers, NEW c \in Tokens, Logout(h, c)
  PROVE  SessionsInv'
<1> USE DEF SessionsInv
<1>t. request \in [Handlers -> Request]
  BY DEF TypeOK
<1>u. owner[c] \in Users
  BY DEF Logout, TypeOK, RowsComeFirst
<1>1. ASSUME At(h, "idle"), c \in held, Begin(h, "logout", "revokeToken", owner[c], c),
            Works, cached' = cached \ {c}, TangleIfMet("logout", owner[c]),
            UNCHANGED <<registered, banned, sessions, held>>
     PROVE  SessionsInv'
  <2>r. \A g \in Handlers : request'[g] =
         IF g = h THEN [at |-> "revokeToken", kind |-> "logout", user |-> owner[c],
                        token |-> c, batch |-> {}]
         ELSE request[g]
    BY <1>1, <1>t DEF Request, Return, Begin, Move, Goto
  <2>s. request' = [g \in Handlers |-> request'[g]]
    BY <1>1, <1>t DEF Return, Begin, Move, Goto
  <2>q. request' \in [Handlers -> Request]
    BY <2>r, <2>s, <1>t, <1>u DEF Request, Steps, Kinds
  <2>1. TypeOK'
    BY <1>1, <2>q, <1>u, BoundsAreNats DEF TypeOK, Works, Fails, budget,
       Tangle, TangleIfMet, sessions
  <2>2. RequestsFit'
    BY <1>1, <2>r, <1>u, <2>1 DEF TypeOK, Request, At, Works, Fails, budget,
       Tangle, TangleIfMet, sessions, RequestsFit, RowsComeFirst
  <2>3. RowsComeFirst'
    BY <1>1, <2>r, <1>u, <2>1 DEF TypeOK, Request, At, Works, Fails, budget,
       Tangle, TangleIfMet, sessions, RequestsFit, RowsComeFirst
  <2>4. UntangledAreAlone'
    BY <1>1, <2>r, <1>u, <2>1 DEF TypeOK, Request, At, Works, Fails, budget,
       Tangle, TangleIfMet, sessions, RequestsFit, UntangledAreAlone, Meets
  <2>5. StepsAreSafe'
    BY <1>1, <2>r, <1>u, <2>1 DEF TypeOK, Request, At, Works, Fails, budget,
       Tangle, TangleIfMet, sessions, RequestsFit, RowsComeFirst,
       UntangledAreAlone, StepsAreSafe, CopiesAreCurrent, Meets, Accepted,
       Active, TokensOf
  <2>6. OneSessionEach'
    BY <1>1, <2>r, <1>u, <2>1 DEF TypeOK, Request, At, Works, Fails, budget,
       Tangle, TangleIfMet, sessions, RequestsFit, RowsComeFirst, StepsAreSafe,
       OneSessionEach, TokensOf
  <2>7. CopiesAreCurrent'
    BY <1>1, <2>r, <1>u, <2>1 DEF TypeOK, Request, At, Works, Fails, budget,
       Tangle, TangleIfMet, sessions, RequestsFit, RowsComeFirst, StepsAreSafe,
       CopiesAreCurrent, Accepted, Active, TokensOf
  <2>8. BannedAreOut'
    BY <1>1, <2>r, <1>u, <2>1 DEF TypeOK, Request, At, Works, Fails, budget,
       Tangle, TangleIfMet, sessions, RequestsFit, RowsComeFirst,
       UntangledAreAlone, StepsAreSafe, BannedAreOut, Meets, Accepted,
       TokensOf, BanInFlight
  <2> QED
    BY <2>1, <2>2, <2>3, <2>4, <2>5, <2>6, <2>7, <2>8
<1>2. ASSUME At(h, "idle"), c \in held, Begin(h, "logout", "revokeToken", owner[c], c),
            Fails, Tangle({owner[c]}), UNCHANGED cached,
            UNCHANGED <<registered, banned, sessions, held>>
     PROVE  SessionsInv'
  <2>r. \A g \in Handlers : request'[g] =
         IF g = h THEN [at |-> "revokeToken", kind |-> "logout", user |-> owner[c],
                        token |-> c, batch |-> {}]
         ELSE request[g]
    BY <1>2, <1>t DEF Request, Return, Begin, Move, Goto
  <2>s. request' = [g \in Handlers |-> request'[g]]
    BY <1>2, <1>t DEF Return, Begin, Move, Goto
  <2>q. request' \in [Handlers -> Request]
    BY <2>r, <2>s, <1>t, <1>u DEF Request, Steps, Kinds
  <2>1. TypeOK'
    BY <1>2, <2>q, <1>u, BoundsAreNats DEF TypeOK, Works, Fails, budget,
       Tangle, TangleIfMet, sessions
  <2>2. RequestsFit'
    BY <1>2, <2>r, <1>u, <2>1 DEF TypeOK, Request, At, Works, Fails, budget,
       Tangle, TangleIfMet, sessions, RequestsFit, RowsComeFirst
  <2>3. RowsComeFirst'
    BY <1>2, <2>r, <1>u, <2>1 DEF TypeOK, Request, At, Works, Fails, budget,
       Tangle, TangleIfMet, sessions, RequestsFit, RowsComeFirst
  <2>4. UntangledAreAlone'
    BY <1>2, <2>r, <1>u, <2>1 DEF TypeOK, Request, At, Works, Fails, budget,
       Tangle, TangleIfMet, sessions, RequestsFit, UntangledAreAlone, Meets
  <2>5. StepsAreSafe'
    BY <1>2, <2>r, <1>u, <2>1 DEF TypeOK, Request, At, Works, Fails, budget,
       Tangle, TangleIfMet, sessions, RequestsFit, RowsComeFirst,
       UntangledAreAlone, StepsAreSafe, CopiesAreCurrent, Meets, Accepted,
       Active, TokensOf
  <2>6. OneSessionEach'
    BY <1>2, <2>r, <1>u, <2>1 DEF TypeOK, Request, At, Works, Fails, budget,
       Tangle, TangleIfMet, sessions, RequestsFit, RowsComeFirst, StepsAreSafe,
       OneSessionEach, TokensOf
  <2>7. CopiesAreCurrent'
    BY <1>2, <2>r, <1>u, <2>1 DEF TypeOK, Request, At, Works, Fails, budget,
       Tangle, TangleIfMet, sessions, RequestsFit, RowsComeFirst, StepsAreSafe,
       CopiesAreCurrent, Accepted, Active, TokensOf
  <2>8. BannedAreOut'
    BY <1>2, <2>r, <1>u, <2>1 DEF TypeOK, Request, At, Works, Fails, budget,
       Tangle, TangleIfMet, sessions, RequestsFit, RowsComeFirst,
       UntangledAreAlone, StepsAreSafe, BannedAreOut, Meets, Accepted,
       TokensOf, BanInFlight
  <2> QED
    BY <2>1, <2>2, <2>3, <2>4, <2>5, <2>6, <2>7, <2>8
<1> QED
  BY <1>1, <1>2 DEF Logout

\* The copy of a lone logout is still gone when the row is revoked.
LEMMA RevokeTokenStep ==
  ASSUME SessionsInv, NEW h \in Handlers, RevokeToken(h)
  PROVE  SessionsInv'
<1> USE DEF SessionsInv
<1>t. request \in [Handlers -> Request]
  BY DEF TypeOK
<1>u. request[h].token \in Tokens
  BY DEF RevokeToken, At, RequestsFit
<1>1. ASSUME At(h, "revokeToken"), Return(h), Works,
            row' = [row EXCEPT ![request[h].token] = IF @ = "active" THEN "revoked" ELSE @],
            UNCHANGED <<registered, banned, owner, expired, cached, held, tangled>>
     PROVE  SessionsInv'
  <2>r. \A g \in Handlers : request'[g] =
         IF g = h THEN Idle
         ELSE request[g]
    BY <1>1, <1>t DEF Request, Return, Begin, Move, Goto
  <2>s. request' = [g \in Handlers |-> request'[g]]
    BY <1>1, <1>t DEF Return, Begin, Move, Goto
  <2>q. request' \in [Handlers -> Request]
    BY <2>r, <2>s, <1>t, <1>u DEF Request, Steps, Kinds
  <2>1. TypeOK'
    BY <1>1, <2>q, <1>u, BoundsAreNats DEF TypeOK, Works, Fails, budget,
       Tangle, TangleIfMet, sessions
  <2>2. RequestsFit'
    BY <1>1, <2>r, <1>u, <2>1 DEF TypeOK, Request, At, Works, Fails, budget,
       Tangle, TangleIfMet, sessions, RequestsFit, RowsComeFirst
  <2>3. RowsComeFirst'
    BY <1>1, <2>r, <1>u, <2>1 DEF TypeOK, Request, At, Works, Fails, budget,
       Tangle, TangleIfMet, sessions, RequestsFit, RowsComeFirst
  <2>4. UntangledAreAlone'
    BY <1>1, <2>r, <1>u, <2>1 DEF TypeOK, Request, At, Works, Fails, budget,
       Tangle, TangleIfMet, sessions, RequestsFit, UntangledAreAlone, Meets
  <2>5. StepsAreSafe'
    BY <1>1, <2>r, <1>u, <2>1 DEF TypeOK, Request, At, Works, Fails, budget,
       Tangle, TangleIfMet, sessions, RequestsFit, RowsComeFirst,
       UntangledAreAlone, StepsAreSafe, CopiesAreCurrent, Meets, Accepted,
       Active, TokensOf
  <2>6. OneSessionEach'
    BY <1>1, <2>r, <1>u, <2>1 DEF TypeOK, Request, At, Works, Fails, budget,
       Tangle, TangleIfMet, sessions, RequestsFit, RowsComeFirst, StepsAreSafe,
       OneSessionEach, TokensOf
  <2>7. CopiesAreCurrent'
    BY <1>1, <2>r, <1>u, <2>1 DEF TypeOK, Request, At, Works, Fails, budget,
       Tangle, TangleIfMet, sessions, RequestsFit, RowsComeFirst, StepsAreSafe,
       CopiesAreCurrent, Accepted, Active, TokensOf
  <2>8. BannedAreOut'
    BY <1>1, <2>r, <1>u, <2>1 DEF TypeOK, Request, At, Works, Fails, budget,
       Tangle, TangleIfMet, sessions, RequestsFit, RowsComeFirst,
       UntangledAreAlone, StepsAreSafe, BannedAreOut, Meets, Accepted,
       TokensOf, BanInFlight
  <2> QED
    BY <2>1, <2>2, <2>3, <2>4, <2>5, <2>6, <2>7, <2>8
<1>2. ASSUME At(h, "revokeToken"), Return(h), Fails, UNCHANGED row,
            UNCHANGED <<registered, banned, owner, expired, cached, held, tangled>>
     PROVE  SessionsInv'
  <2>r. \A g \in Handlers : request'[g] =
         IF g = h THEN Idle
         ELSE request[g]
    BY <1>2, <1>t DEF Request, Return, Begin, Move, Goto
  <2>s. request' = [g \in Handlers |-> request'[g]]
    BY <1>2, <1>t DEF Return, Begin, Move, Goto
  <2>q. request' \in [Handlers -> Request]
    BY <2>r, <2>s, <1>t, <1>u DEF Request, Steps, Kinds
  <2>1. TypeOK'
    BY <1>2, <2>q, <1>u, BoundsAreNats DEF TypeOK, Works, Fails, budget,
       Tangle, TangleIfMet, sessions
  <2>2. RequestsFit'
    BY <1>2, <2>r, <1>u, <2>1 DEF TypeOK, Request, At, Works, Fails, budget,
       Tangle, TangleIfMet, sessions, RequestsFit, RowsComeFirst
  <2>3. RowsComeFirst'
    BY <1>2, <2>r, <1>u, <2>1 DEF TypeOK, Request, At, Works, Fails, budget,
       Tangle, TangleIfMet, sessions, RequestsFit, RowsComeFirst
  <2>4. UntangledAreAlone'
    BY <1>2, <2>r, <1>u, <2>1 DEF TypeOK, Request, At, Works, Fails, budget,
       Tangle, TangleIfMet, sessions, RequestsFit, UntangledAreAlone, Meets
  <2>5. StepsAreSafe'
    BY <1>2, <2>r, <1>u, <2>1 DEF TypeOK, Request, At, Works, Fails, budget,
       Tangle, TangleIfMet, sessions, RequestsFit, RowsComeFirst,
       UntangledAreAlone, StepsAreSafe, CopiesAreCurrent, Meets, Accepted,
       Active, TokensOf
  <2>6. OneSessionEach'
    BY <1>2, <2>r, <1>u, <2>1 DEF TypeOK, Request, At, Works, Fails, budget,
       Tangle, TangleIfMet, sessions, RequestsFit, RowsComeFirst, StepsAreSafe,
       OneSessionEach, TokensOf
  <2>7. CopiesAreCurrent'
    BY <1>2, <2>r, <1>u, <2>1 DEF TypeOK, Request, At, Works, Fails, budget,
       Tangle, TangleIfMet, sessions, RequestsFit, RowsComeFirst, StepsAreSafe,
       CopiesAreCurrent, Accepted, Active, TokensOf
  <2>8. BannedAreOut'
    BY <1>2, <2>r, <1>u, <2>1 DEF TypeOK, Request, At, Works, Fails, budget,
       Tangle, TangleIfMet, sessions, RequestsFit, RowsComeFirst,
       UntangledAreAlone, StepsAreSafe, BannedAreOut, Meets, Accepted,
       TokensOf, BanInFlight
  <2> QED
    BY <2>1, <2>2, <2>3, <2>4, <2>5, <2>6, <2>7, <2>8
<1> QED
  BY <1>1, <1>2 DEF RevokeToken

\* A validation that meets a logout, login or ban tangles the owner.
LEMMA ValidateStep ==
  ASSUME SessionsInv, NEW h \in Handlers, NEW c \in Tokens, Validate(h, c)
  PROVE  SessionsInv'
<1> USE DEF SessionsInv
<1>t. request \in [Handlers -> Request]
  BY DEF TypeOK
<1>u. owner[c] \in Users
  BY DEF Validate, TypeOK, RowsComeFirst
<1>r. \A g \in Handlers : request'[g] =
       IF g = h THEN [at |-> "readSession", kind |-> "validate", user |-> owner[c],
                      token |-> c, batch |-> {}]
       ELSE request[g]
  BY <1>t DEF Request, Return, Begin, Move, Goto, Validate
<1>s. request' = [g \in Handlers |-> request'[g]]
  BY <1>t DEF Return, Begin, Move, Goto, Validate
<1>q. request' \in [Handlers -> Request]
  BY <1>r, <1>s, <1>t, <1>u DEF Request, Steps, Kinds
<1>1. TypeOK'
  BY <1>q, <1>u, BoundsAreNats DEF TypeOK, Works, Fails, budget, Tangle,
     TangleIfMet, sessions, Validate
<1>2. RequestsFit'
  BY <1>r, <1>u, <1>1 DEF TypeOK, Request, At, Works, Fails, budget,
     Tangle, TangleIfMet, sessions, RequestsFit, RowsComeFirst, Validate
<1>3. RowsComeFirst'
  BY <1>r, <1>u, <1>1 DEF TypeOK, Request, At, Works, Fails, budget,
     Tangle, TangleIfMet, sessions, RequestsFit, RowsComeFirst, Validate
<1>4. UntangledAreAlone'
  BY <1>r, <1>u, <1>1 DEF TypeOK, Request, At, Works, Fails, budget,
     Tangle, TangleIfMet, sessions, RequestsFit, UntangledAreAlone, Meets,
     Validate
<1>5. StepsAreSafe'
  BY <1>r, <1>u, <1>1 DEF TypeOK, Request, At, Works, Fails, budget,
     Tangle, TangleIfMet, sessions, RequestsFit, RowsComeFirst,
     UntangledAreAlone, StepsAreSafe, CopiesAreCurrent, Meets, Accepted,
     Active, TokensOf, Validate
<1>6. OneSessionEach'
  BY <1>r, <1>u, <1>1 DEF TypeOK, Request, At, Works, Fails, budget,
     Tangle, TangleIfMet, sessions, RequestsFit, RowsComeFirst, StepsAreSafe,
     OneSessionEach, TokensOf, Validate
<1>7. CopiesAreCurrent'
  BY <1>r, <1>u, <1>1 DEF TypeOK, Request, At, Works, Fails, budget,
     Tangle, TangleIfMet, sessions, RequestsFit, RowsComeFirst, StepsAreSafe,
     CopiesAreCurrent, Accepted, Active, TokensOf, Validate
<1>8. BannedAreOut'
  BY <1>r, <1>u, <1>1 DEF TypeOK, Request, At, Works, Fails, budget,
     Tangle, TangleIfMet, sessions, RequestsFit, RowsComeFirst,
     UntangledAreAlone, StepsAreSafe, BannedAreOut, Meets, Accepted,
     TokensOf, BanInFlight, Validate
<1> QED
  BY <1>1, <1>2, <1>3, <1>4, <1>5, <1>6, <1>7, <1>8

\* What a validation read decides whether it writes a copy.
LEMMA ReadSessionStep ==
  ASSUME SessionsInv, NEW h \in Handlers, ReadSession(h)
  PROVE  SessionsInv'
<1> USE DEF SessionsInv
<1>t. request \in [Handlers -> Request]
  BY DEF TypeOK
<1>1. ASSUME At(h, "readSession"), Works, Active(request[h].token), Goto(h, "repopulate"),
            UNCHANGED <<registered, banned, sessions, cached, held, tangled>>
     PROVE  SessionsInv'
  <2>r. \A g \in Handlers : request'[g] =
         IF g = h THEN [at |-> "repopulate", kind |-> request[g].kind, user |-> request[g].user,
                        token |-> request[g].token, batch |-> request[g].batch]
         ELSE request[g]
    BY <1>1, <1>t DEF Request, Return, Begin, Move, Goto
  <2>s. request' = [g \in Handlers |-> request'[g]]
    BY <1>1, <1>t DEF Return, Begin, Move, Goto
  <2>q. request' \in [Handlers -> Request]
    BY <2>r, <2>s, <1>t DEF Request, Steps, Kinds
  <2>1. TypeOK'
    BY <1>1, <2>q, BoundsAreNats DEF TypeOK, Works, Fails, budget, Tangle,
       TangleIfMet, sessions
  <2>2. RequestsFit'
    BY <1>1, <2>r, <2>1 DEF TypeOK, Request, At, Works, Fails, budget,
       Tangle, TangleIfMet, sessions, RequestsFit, RowsComeFirst
  <2>3. RowsComeFirst'
    BY <1>1, <2>r, <2>1 DEF TypeOK, Request, At, Works, Fails, budget,
       Tangle, TangleIfMet, sessions, RequestsFit, RowsComeFirst
  <2>4. UntangledAreAlone'
    BY <1>1, <2>r, <2>1 DEF TypeOK, Request, At, Works, Fails, budget,
       Tangle, TangleIfMet, sessions, RequestsFit, UntangledAreAlone, Meets
  <2>5. StepsAreSafe'
    BY <1>1, <2>r, <2>1 DEF TypeOK, Request, At, Works, Fails, budget,
       Tangle, TangleIfMet, sessions, RequestsFit, RowsComeFirst,
       UntangledAreAlone, StepsAreSafe, CopiesAreCurrent, Meets, Accepted,
       Active, TokensOf
  <2>6. OneSessionEach'
    BY <1>1, <2>r, <2>1 DEF TypeOK, Request, At, Works, Fails, budget,
       Tangle, TangleIfMet, sessions, RequestsFit, RowsComeFirst, StepsAreSafe,
       OneSessionEach, TokensOf
  <2>7. CopiesAreCurrent'
    BY <1>1, <2>r, <2>1 DEF TypeOK, Request, At, Works, Fails, budget,
       Tangle, TangleIfMet, sessions, RequestsFit, RowsComeFirst, StepsAreSafe,
       CopiesAreCurrent, Accepted, Active, TokensOf
  <2>8. BannedAreOut'
    BY <1>1, <2>r, <2>1 DEF TypeOK, Request, At, Works, Fails, budget,
       Tangle, TangleIfMet, sessions, RequestsFit, RowsComeFirst,
       UntangledAreAlone, StepsAreSafe, BannedAreOut, Meets, Accepted,
       TokensOf, BanInFlight
  <2> QED
    BY <2>1, <2>2, <2>3, <2>4, <2>5, <2>6, <2>7, <2>8
<1>2. ASSUME At(h, "readSession"), Works \/ Fails, Return(h),
            UNCHANGED <<registered, banned, sessions, cached, held, tangled>>
     PROVE  SessionsInv'
  <2>r. \A g \in Handlers : request'[g] =
         IF g = h THEN Idle
         ELSE request[g]
    BY <1>2, <1>t DEF Request, Return, Begin, Move, Goto
  <2>s. request' = [g \in Handlers |-> request'[g]]
    BY <1>2, <1>t DEF Return, Begin, Move, Goto
  <2>q. request' \in [Handlers -> Request]
    BY <2>r, <2>s, <1>t DEF Request, Steps, Kinds
  <2>1. TypeOK'
    BY <1>2, <2>q, BoundsAreNats DEF TypeOK, Works, Fails, budget, Tangle,
       TangleIfMet, sessions
  <2>2. RequestsFit'
    BY <1>2, <2>r, <2>1 DEF TypeOK, Request, At, Works, Fails, budget,
       Tangle, TangleIfMet, sessions, RequestsFit, RowsComeFirst
  <2>3. RowsComeFirst'
    BY <1>2, <2>r, <2>1 DEF TypeOK, Request, At, Works, Fails, budget,
       Tangle, TangleIfMet, sessions, RequestsFit, RowsComeFirst
  <2>4. UntangledAreAlone'
    BY <1>2, <2>r, <2>1 DEF TypeOK, Request, At, Works, Fails, budget,
       Tangle, TangleIfMet, sessions, RequestsFit, UntangledAreAlone, Meets
  <2>5. StepsAreSafe'
    BY <1>2, <2>r, <2>1 DEF TypeOK, Request, At, Works, Fails, budget,
       Tangle, TangleIfMet, sessions, RequestsFit, RowsComeFirst,
       UntangledAreAlone, StepsAreSafe, CopiesAreCurrent, Meets, Accepted,
       Active, TokensOf
  <2>6. OneSessionEach'
    BY <1>2, <2>r, <2>1 DEF TypeOK, Request, At, Works, Fails, budget,
       Tangle, TangleIfMet, sessions, RequestsFit, RowsComeFirst, StepsAreSafe,
       OneSessionEach, TokensOf
  <2>7. CopiesAreCurrent'
    BY <1>2, <2>r, <2>1 DEF TypeOK, Request, At, Works, Fails, budget,
       Tangle, TangleIfMet, sessions, RequestsFit, RowsComeFirst, StepsAreSafe,
       CopiesAreCurrent, Accepted, Active, TokensOf
  <2>8. BannedAreOut'
    BY <1>2, <2>r, <2>1 DEF TypeOK, Request, At, Works, Fails, budget,
       Tangle, TangleIfMet, sessions, RequestsFit, RowsComeFirst,
       UntangledAreAlone, StepsAreSafe, BannedAreOut, Meets, Accepted,
       TokensOf, BanInFlight
  <2> QED
    BY <2>1, <2>2, <2>3, <2>4, <2>5, <2>6, <2>7, <2>8
<1> QED
  BY <1>1, <1>2 DEF ReadSession

\* The row of an untangled user is still active when the copy is written.
LEMMA RepopulateStep ==
  ASSUME SessionsInv, NEW h \in Handlers, Repopulate(h)
  PROVE  SessionsInv'
<1> USE DEF SessionsInv
<1>t. request \in [Handlers -> Request]
  BY DEF TypeOK
<1>u. request[h].token \in Tokens
  BY DEF Repopulate, At, RequestsFit
<1>1. ASSUME At(h, "repopulate"), Return(h), Works, cached' = IF request[h].token \in expired THEN cached
                               ELSE cached \cup {request[h].token},
            UNCHANGED <<registered, banned, sessions, held, tangled>>
     PROVE  SessionsInv'
  <2>r. \A g \in Handlers : request'[g] =
         IF g = h THEN Idle
         ELSE request[g]
    BY <1>1, <1>t DEF Request, Return, Begin, Move, Goto
  <2>s. request' = [g \in Handlers |-> request'[g]]
    BY <1>1, <1>t DEF Return, Begin, Move, Goto
  <2>q. request' \in [Handlers -> Request]
    BY <2>r, <2>s, <1>t, <1>u DEF Request, Steps, Kinds
  <2>1. TypeOK'
    BY <1>1, <2>q, <1>u, BoundsAreNats DEF TypeOK, Works, Fails, budget,
       Tangle, TangleIfMet, sessions
  <2>2. RequestsFit'
    BY <1>1, <2>r, <1>u, <2>1 DEF TypeOK, Request, At, Works, Fails, budget,
       Tangle, TangleIfMet, sessions, RequestsFit, RowsComeFirst
  <2>3. RowsComeFirst'
    BY <1>1, <2>r, <1>u, <2>1 DEF TypeOK, Request, At, Works, Fails, budget,
       Tangle, TangleIfMet, sessions, RequestsFit, RowsComeFirst
  <2>4. UntangledAreAlone'
    BY <1>1, <2>r, <1>u, <2>1 DEF TypeOK, Request, At, Works, Fails, budget,
       Tangle, TangleIfMet, sessions, RequestsFit, UntangledAreAlone, Meets
  <2>5. StepsAreSafe'
    BY <1>1, <2>r, <1>u, <2>1 DEF TypeOK, Request, At, Works, Fails, budget,
       Tangle, TangleIfMet, sessions, RequestsFit, RowsComeFirst,
       UntangledAreAlone, StepsAreSafe, CopiesAreCurrent, Meets, Accepted,
       Active, TokensOf
  <2>6. OneSessionEach'
    BY <1>1, <2>r, <1>u, <2>1 DEF TypeOK, Request, At, Works, Fails, budget,
       Tangle, TangleIfMet, sessions, RequestsFit, RowsComeFirst, StepsAreSafe,
       OneSessionEach, TokensOf
  <2>7. CopiesAreCurrent'
    BY <1>1, <2>r, <1>u, <2>1 DEF TypeOK, Request, At, Works, Fails, budget,
       Tangle, TangleIfMet, sessions, RequestsFit, RowsComeFirst, StepsAreSafe,
       CopiesAreCurrent, Accepted, Active, TokensOf
  <2>8. BannedAreOut'
    BY <1>1, <2>r, <1>u, <2>1 DEF TypeOK, Request, At, Works, Fails, budget,
       Tangle, TangleIfMet, sessions, RequestsFit, RowsComeFirst,
       UntangledAreAlone, StepsAreSafe, BannedAreOut, Meets, Accepted,
       TokensOf, BanInFlight
  <2> QED
    BY <2>1, <2>2, <2>3, <2>4, <2>5, <2>6, <2>7, <2>8
<1>2. ASSUME At(h, "repopulate"), Return(h), Fails, UNCHANGED cached,
            UNCHANGED <<registered, banned, sessions, held, tangled>>
     PROVE  SessionsInv'
  <2>r. \A g \in Handlers : request'[g] =
         IF g = h THEN Idle
         ELSE request[g]
    BY <1>2, <1>t DEF Request, Return, Begin, Move, Goto
  <2>s. request' = [g \in Handlers |-> request'[g]]
    BY <1>2, <1>t DEF Return, Begin, Move, Goto
  <2>q. request' \in [Handlers -> Request]
    BY <2>r, <2>s, <1>t, <1>u DEF Request, Steps, Kinds
  <2>1. TypeOK'
    BY <1>2, <2>q, <1>u, BoundsAreNats DEF TypeOK, Works, Fails, budget,
       Tangle, TangleIfMet, sessions
  <2>2. RequestsFit'
    BY <1>2, <2>r, <1>u, <2>1 DEF TypeOK, Request, At, Works, Fails, budget,
       Tangle, TangleIfMet, sessions, RequestsFit, RowsComeFirst
  <2>3. RowsComeFirst'
    BY <1>2, <2>r, <1>u, <2>1 DEF TypeOK, Request, At, Works, Fails, budget,
       Tangle, TangleIfMet, sessions, RequestsFit, RowsComeFirst
  <2>4. UntangledAreAlone'
    BY <1>2, <2>r, <1>u, <2>1 DEF TypeOK, Request, At, Works, Fails, budget,
       Tangle, TangleIfMet, sessions, RequestsFit, UntangledAreAlone, Meets
  <2>5. StepsAreSafe'
    BY <1>2, <2>r, <1>u, <2>1 DEF TypeOK, Request, At, Works, Fails, budget,
       Tangle, TangleIfMet, sessions, RequestsFit, RowsComeFirst,
       UntangledAreAlone, StepsAreSafe, CopiesAreCurrent, Meets, Accepted,
       Active, TokensOf
  <2>6. OneSessionEach'
    BY <1>2, <2>r, <1>u, <2>1 DEF TypeOK, Request, At, Works, Fails, budget,
       Tangle, TangleIfMet, sessions, RequestsFit, RowsComeFirst, StepsAreSafe,
       OneSessionEach, TokensOf
  <2>7. CopiesAreCurrent'
    BY <1>2, <2>r, <1>u, <2>1 DEF TypeOK, Request, At, Works, Fails, budget,
       Tangle, TangleIfMet, sessions, RequestsFit, RowsComeFirst, StepsAreSafe,
       CopiesAreCurrent, Accepted, Active, TokensOf
  <2>8. BannedAreOut'
    BY <1>2, <2>r, <1>u, <2>1 DEF TypeOK, Request, At, Works, Fails, budget,
       Tangle, TangleIfMet, sessions, RequestsFit, RowsComeFirst,
       UntangledAreAlone, StepsAreSafe, BannedAreOut, Meets, Accepted,
       TokensOf, BanInFlight
  <2> QED
    BY <2>1, <2>2, <2>3, <2>4, <2>5, <2>6, <2>7, <2>8
<1> QED
  BY <1>1, <1>2 DEF Repopulate

\* Nobody accepts an expired token.
LEMMA ExpireStep ==
  ASSUME SessionsInv, NEW c \in Tokens, Expire(c)
  PROVE  SessionsInv'
<1> USE DEF SessionsInv
<1>t. request \in [Handlers -> Request]
  BY DEF TypeOK
<1>1. TypeOK'
  BY BoundsAreNats DEF TypeOK, Works, Fails, budget, Tangle, TangleIfMet,
     sessions, Expire
<1>2. RequestsFit'
  BY <1>1 DEF TypeOK, Request, At, Works, Fails, budget, Tangle,
     TangleIfMet, sessions, RequestsFit, RowsComeFirst, Expire
<1>3. RowsComeFirst'
  BY <1>1 DEF TypeOK, Request, At, Works, Fails, budget, Tangle,
     TangleIfMet, sessions, RequestsFit, RowsComeFirst, Expire
<1>4. UntangledAreAlone'
  BY <1>1 DEF TypeOK, Request, At, Works, Fails, budget, Tangle,
     TangleIfMet, sessions, RequestsFit, UntangledAreAlone, Meets, Expire
<1>5. StepsAreSafe'
  BY <1>1 DEF TypeOK, Request, At, Works, Fails, budget, Tangle,
     TangleIfMet, sessions, RequestsFit, RowsComeFirst, UntangledAreAlone,
     StepsAreSafe, CopiesAreCurrent, Meets, Accepted, Active, TokensOf,
     Expire
<1>6. OneSessionEach'
  BY <1>1 DEF TypeOK, Request, At, Works, Fails, budget, Tangle,
     TangleIfMet, sessions, RequestsFit, RowsComeFirst, StepsAreSafe,
     OneSessionEach, TokensOf, Expire
<1>7. CopiesAreCurrent'
  BY <1>1 DEF TypeOK, Request, At, Works, Fails, budget, Tangle,
     TangleIfMet, sessions, RequestsFit, RowsComeFirst, StepsAreSafe,
     CopiesAreCurrent, Accepted, Active, TokensOf, Expire
<1>8. BannedAreOut'
  BY <1>1 DEF TypeOK, Request, At, Works, Fails, budget, Tangle,
     TangleIfMet, sessions, RequestsFit, RowsComeFirst, UntangledAreAlone,
     StepsAreSafe, BannedAreOut, Meets, Accepted, TokensOf, BanInFlight,
     Expire
<1> QED
  BY <1>1, <1>2, <1>3, <1>4, <1>5, <1>6, <1>7, <1>8

\* A dropped copy is accepted no more.
LEMMA EvictStep ==
  ASSUME SessionsInv, NEW c \in Tokens, Evict(c)
  PROVE  SessionsInv'
<1> USE DEF SessionsInv
<1>t. request \in [Handlers -> Request]
  BY DEF TypeOK
<1>1. TypeOK'
  BY BoundsAreNats DEF TypeOK, Works, Fails, budget, Tangle, TangleIfMet,
     sessions, Evict
<1>2. RequestsFit'
  BY <1>1 DEF TypeOK, Request, At, Works, Fails, budget, Tangle,
     TangleIfMet, sessions, RequestsFit, RowsComeFirst, Evict
<1>3. RowsComeFirst'
  BY <1>1 DEF TypeOK, Request, At, Works, Fails, budget, Tangle,
     TangleIfMet, sessions, RequestsFit, RowsComeFirst, Evict
<1>4. UntangledAreAlone'
  BY <1>1 DEF TypeOK, Request, At, Works, Fails, budget, Tangle,
     TangleIfMet, sessions, RequestsFit, UntangledAreAlone, Meets, Evict
<1>5. StepsAreSafe'
  BY <1>1 DEF TypeOK, Request, At, Works, Fails, budget, Tangle,
     TangleIfMet, sessions, RequestsFit, RowsComeFirst, UntangledAreAlone,
     StepsAreSafe, CopiesAreCurrent, Meets, Accepted, Active, TokensOf, Evict
<1>6. OneSessionEach'
  BY <1>1 DEF TypeOK, Request, At, Works, Fails, budget, Tangle,
     TangleIfMet, sessions, RequestsFit, RowsComeFirst, StepsAreSafe,
     OneSessionEach, TokensOf, Evict
<1>7. CopiesAreCurrent'
  BY <1>1 DEF TypeOK, Request, At, Works, Fails, budget, Tangle,
     TangleIfMet, sessions, RequestsFit, RowsComeFirst, StepsAreSafe,
     CopiesAreCurrent, Accepted, Active, TokensOf, Evict
<1>8. BannedAreOut'
  BY <1>1 DEF TypeOK, Request, At, Works, Fails, budget, Tangle,
     TangleIfMet, sessions, RequestsFit, RowsComeFirst, UntangledAreAlone,
     StepsAreSafe, BannedAreOut, Meets, Accepted, TokensOf, BanInFlight,
     Evict
<1> QED
  BY <1>1, <1>2, <1>3, <1>4, <1>5, <1>6, <1>7, <1>8

\* The requests are gone; a ban cut short tangles its user.
LEMMA CrashStep ==
  ASSUME SessionsInv, Crash
  PROVE  SessionsInv'
<1> USE DEF SessionsInv
<1>t. request \in [Handlers -> Request]
  BY DEF TypeOK
<1>v. tangled' \in SUBSET Users
  BY DEF Crash, Tangle, TypeOK
<1>w. faults' \in 0..MaxFaults /\ crashes' \in 0..MaxCrashes
  BY BoundsAreNats DEF Crash, TypeOK
<1>u. /\ tangled' \in SUBSET Users
      /\ faults' \in 0..MaxFaults /\ crashes' \in 0..MaxCrashes
  BY <1>v, <1>w
<1>r. \A g \in Handlers : request'[g] =
       Idle
  BY <1>t DEF Request, Return, Begin, Move, Goto, Crash
<1>s. request' = [g \in Handlers |-> request'[g]]
  BY <1>t DEF Return, Begin, Move, Goto, Crash
<1>q. request' \in [Handlers -> Request]
  BY <1>r, <1>s, <1>t, <1>u DEF Request, Steps, Kinds
<1>1. TypeOK'
  BY <1>q, <1>u, BoundsAreNats DEF TypeOK, Works, Fails, budget, Tangle,
     TangleIfMet, sessions, Crash
<1>2. RequestsFit'
  BY <1>r, <1>u, <1>1 DEF TypeOK, Request, At, Works, Fails, budget,
     Tangle, TangleIfMet, sessions, RequestsFit, RowsComeFirst, Crash
<1>3. RowsComeFirst'
  BY <1>r, <1>u, <1>1 DEF TypeOK, Request, At, Works, Fails, budget,
     Tangle, TangleIfMet, sessions, RequestsFit, RowsComeFirst, Crash
<1>4. UntangledAreAlone'
  BY <1>r, <1>u, <1>1 DEF TypeOK, Request, At, Works, Fails, budget,
     Tangle, TangleIfMet, sessions, RequestsFit, UntangledAreAlone, Meets,
     Crash
<1>5. StepsAreSafe'
  BY <1>r, <1>u, <1>1 DEF TypeOK, Request, At, Works, Fails, budget,
     Tangle, TangleIfMet, sessions, RequestsFit, RowsComeFirst,
     UntangledAreAlone, StepsAreSafe, CopiesAreCurrent, Meets, Accepted,
     Active, TokensOf, Crash
<1>6. OneSessionEach'
  BY <1>r, <1>u, <1>1 DEF TypeOK, Request, At, Works, Fails, budget,
     Tangle, TangleIfMet, sessions, RequestsFit, RowsComeFirst, StepsAreSafe,
     OneSessionEach, TokensOf, Crash
<1>7. CopiesAreCurrent'
  BY <1>r, <1>u, <1>1 DEF TypeOK, Request, At, Works, Fails, budget,
     Tangle, TangleIfMet, sessions, RequestsFit, RowsComeFirst, StepsAreSafe,
     CopiesAreCurrent, Accepted, Active, TokensOf, Crash
<1>8. BannedAreOut'
  BY <1>r, <1>u, <1>1 DEF TypeOK, Request, At, Works, Fails, budget,
     Tangle, TangleIfMet, sessions, RequestsFit, RowsComeFirst,
     UntangledAreAlone, StepsAreSafe, BannedAreOut, Meets, Accepted,
     TokensOf, BanInFlight, Crash
<1> QED
  BY <1>1, <1>2, <1>3, <1>4, <1>5, <1>6, <1>7, <1>8

\* Every step of the service keeps the invariant.
LEMMA StepOK == SessionsInv /\ [Next]_vars => SessionsInv'
<1> SUFFICES ASSUME SessionsInv, [Next]_vars PROVE SessionsInv'
  OBVIOUS
<1>1. CASE UNCHANGED vars
  <2>1. TypeOK' /\ RequestsFit' /\ RowsComeFirst'
    BY <1>1 DEF SessionsInv, TypeOK, RequestsFit, RowsComeFirst, vars, sessions, budget
  <2>2. UntangledAreAlone' /\ OneSessionEach'
    BY <1>1 DEF SessionsInv, UntangledAreAlone, OneSessionEach, vars, sessions, budget
  <2>3. StepsAreSafe'
    BY <1>1 DEF SessionsInv, StepsAreSafe, TokensOf, Accepted, vars, sessions, budget
  <2>4. CopiesAreCurrent' /\ BannedAreOut'
    BY <1>1 DEF SessionsInv, CopiesAreCurrent, BannedAreOut, BanInFlight, TokensOf,
                Accepted, Active, vars, sessions, budget
  <2> QED
    BY <2>1, <2>2, <2>3, <2>4 DEF SessionsInv
<1>2. ASSUME NEW u \in Users, Register(u) \/ Unban(u)
      PROVE  SessionsInv'
  BY <1>2, RegisterStep, UnbanStep
<1>3. ASSUME NEW h \in Handlers, NEW u \in Users, Ban(h, u) \/ Login(h, u)
      PROVE  SessionsInv'
  BY <1>3, BanStep, LoginStep
<1>4. ASSUME NEW h \in Handlers, NEW t \in Tokens, Logout(h, t) \/ Validate(h, t)
      PROVE  SessionsInv'
  BY <1>4, LogoutStep, ValidateStep
<1>5. ASSUME NEW h \in Handlers, HandlerStep(h)
      PROVE  SessionsInv'
  BY <1>5, ListTokensStep, RevokeAllStep, CreateSessionStep, CacheSessionStep,
     RevokeTokenStep, ReadSessionStep, RepopulateStep, DropCopyStep DEF HandlerStep
<1>6. ASSUME NEW t \in Tokens, Expire(t) \/ Evict(t)
      PROVE  SessionsInv'
  BY <1>6, ExpireStep, EvictStep
<1>7. CASE Crash
  BY <1>7, CrashStep
<1> QED
  BY <1>1, <1>2, <1>3, <1>4, <1>5, <1>6, <1>7 DEF Next

\* Whatever overlaps, fails or crashes: the invariant of the auth service.
THEOREM SessionsInvariant == Spec => []SessionsInv
<1>1. Init => SessionsInv
  BY InitOK
<1>2. SessionsInv /\ [Next]_vars => SessionsInv'
  BY StepOK
<1> QED
  BY <1>1, <1>2, PTL DEF Spec

\* handleLogin keeps a single session per user as long as the user's requests
\* do not meet each other and the three commands of the invalidation succeed.
THEOREM OneSessionPerUser == Spec => []OneSessionEach
<1>1. SessionsInv => OneSessionEach
  BY DEF SessionsInv
<1> QED
  BY <1>1, SessionsInvariant, PTL

\* For those users a copy in Redis never outlives its row in MySQL.
THEOREM RedisFollowsMySQL == Spec => []CopiesAreCurrent
<1>1. SessionsInv => CopiesAreCurrent
  BY DEF SessionsInv
<1> QED
  BY <1>1, SessionsInvariant, PTL

\* For those users a finished ban leaves no token that a store accepts.
THEOREM BansTakeHold == Spec => []BannedAreOut
<1>1. SessionsInv => BannedAreOut
  BY DEF SessionsInv
<1> QED
  BY <1>1, SessionsInvariant, PTL

\* A dead token stays dead in every step: its row is not created again, and only
\* a request that saw an active row gets to write a copy.
LEMMA DeadStaysDead ==
  ASSUME TypeOK, NEW t \in Tokens, Dead(t), Next
  PROVE  Dead(t)'
<1>1. ASSUME NEW u \in Users, Register(u) \/ Unban(u)
      PROVE  Dead(t)'
  <2>1. row'[t] # "absent" /\ ~Active(t)' /\ t \notin cached'
    BY <1>1 DEF Dead, Active, TypeOK, Request, Register, Unban, sessions
  <2>2. ASSUME NEW g \in Handlers, request'[g].token = t
        PROVE  request'[g].at \notin {"repopulate", "cacheSession"}
    BY <1>1, <2>2, NullsAreNew DEF Dead, Active, TypeOK, Request, Idle, Register, Unban, sessions
  <2> QED
    BY <2>1, <2>2 DEF Dead
<1>2. ASSUME NEW h \in Handlers, NEW u \in Users, Ban(h, u) \/ Login(h, u)
      PROVE  Dead(t)'
  <2>1. row'[t] # "absent" /\ ~Active(t)' /\ t \notin cached'
    BY <1>2 DEF Dead, Active, TypeOK, Request, Ban, Login, Begin, sessions
  <2>2. ASSUME NEW g \in Handlers, request'[g].token = t
        PROVE  request'[g].at \notin {"repopulate", "cacheSession"}
    BY <1>2, <2>2, NullsAreNew DEF Dead, Active, TypeOK, Request, Idle, Ban, Login, Begin, sessions
  <2> QED
    BY <2>1, <2>2 DEF Dead
<1>3. ASSUME NEW h \in Handlers, NEW c \in Tokens, Logout(h, c) \/ Validate(h, c)
      PROVE  Dead(t)'
  <2>1. row'[t] # "absent" /\ ~Active(t)' /\ t \notin cached'
    BY <1>3 DEF Dead, Active, TypeOK, Request, Logout, Validate, Begin, sessions
  <2>2. ASSUME NEW g \in Handlers, request'[g].token = t
        PROVE  request'[g].at \notin {"repopulate", "cacheSession"}
    BY <1>3, <2>2, NullsAreNew DEF Dead, Active, TypeOK, Request, Idle, Logout, Validate, Begin, sessions
  <2> QED
    BY <2>1, <2>2 DEF Dead
<1>4. ASSUME NEW h \in Handlers, ListTokens(h)
      PROVE  Dead(t)'
  <2>1. row'[t] # "absent" /\ ~Active(t)' /\ t \notin cached'
    BY <1>4 DEF Dead, Active, TypeOK, Request, ListTokens, AfterInvalidation, Move, Goto, Return, At, sessions
  <2>2. ASSUME NEW g \in Handlers, request'[g].token = t
        PROVE  request'[g].at \notin {"repopulate", "cacheSession"}
    BY <1>4, <2>2, NullsAreNew DEF Dead, Active, TypeOK, Request, Idle, ListTokens, AfterInvalidation, Move, Goto, Return, At, sessions
  <2> QED
    BY <2>1, <2>2 DEF Dead
<1>5. ASSUME NEW h \in Handlers, NEW c \in Tokens, DropCopy(h, c)
      PROVE  Dead(t)'
  <2>1. row'[t] # "absent" /\ ~Active(t)' /\ t \notin cached'
    BY <1>5 DEF Dead, Active, TypeOK, Request, DropCopy, Move, sessions
  <2>2. ASSUME NEW g \in Handlers, request'[g].token = t
        PROVE  request'[g].at \notin {"repopulate", "cacheSession"}
    BY <1>5, <2>2, NullsAreNew DEF Dead, Active, TypeOK, Request, Idle, DropCopy, Move, sessions
  <2> QED
    BY <2>1, <2>2 DEF Dead
<1>6. ASSUME NEW h \in Handlers, RevokeAll(h)
      PROVE  Dead(t)'
  <2>1. row'[t] # "absent" /\ ~Active(t)' /\ t \notin cached'
    BY <1>6 DEF Dead, Active, TypeOK, Request, RevokeAll, AfterInvalidation, Goto, Return, At
  <2>2. ASSUME NEW g \in Handlers, request'[g].token = t
        PROVE  request'[g].at \notin {"repopulate", "cacheSession"}
    BY <1>6, <2>2, NullsAreNew DEF Dead, Active, TypeOK, Request, Idle, RevokeAll, AfterInvalidation, Goto, Return, At
  <2> QED
    BY <2>1, <2>2 DEF Dead
<1>7. ASSUME NEW h \in Handlers, CreateSession(h)
      PROVE  Dead(t)'
  <2>1. row'[t] # "absent" /\ ~Active(t)' /\ t \notin cached'
    BY <1>7 DEF Dead, Active, TypeOK, Request, CreateSession, Move, Return, At
  <2>2. ASSUME NEW g \in Handlers, request'[g].token = t
        PROVE  request'[g].at \notin {"repopulate", "cacheSession"}
    BY <1>7, <2>2, NullsAreNew DEF Dead, Active, TypeOK, Request, Idle, CreateSession, Move, Return, At
  <2> QED
    BY <2>1, <2>2 DEF Dead
<1>8. ASSUME NEW h \in Handlers, CacheSession(h)
      PROVE  Dead(t)'
  <2>1. row'[t] # "absent" /\ ~Active(t)' /\ t \notin cached'
    BY <1>8 DEF Dead, Active, TypeOK, Request, CacheSession, Return, At, sessions
  <2>2. ASSUME NEW g \in Handlers, request'[g].token = t
        PROVE  request'[g].at \notin {"repopulate", "cacheSession"}
    BY <1>8, <2>2, NullsAreNew DEF Dead, Active, TypeOK, Request, Idle, CacheSession, Return, At, sessions
  <2> QED
    BY <2>1, <2>2 DEF Dead
<1>9. ASSUME NEW h \in Handlers, RevokeToken(h)
      PROVE  Dead(t)'
  <2>1. row'[t] # "absent" /\ ~Active(t)' /\ t \notin cached'
    BY <1>9 DEF Dead, Active, TypeOK, Request, RevokeToken, Return, At
  <2>2. ASSUME NEW g \in Handlers, request'[g].token = t
        PROVE  request'[g].at \notin {"repopulate", "cacheSession"}
    BY <1>9, <2>2, NullsAreNew DEF Dead, Active, TypeOK, Request, Idle, RevokeToken, Return, At
  <2> QED
    BY <2>1, <2>2 DEF Dead
<1>10. ASSUME NEW h \in Handlers, ReadSession(h)
      PROVE  Dead(t)'
  <2>1. row'[t] # "absent" /\ ~Active(t)' /\ t \notin cached'
    BY <1>10 DEF Dead, Active, TypeOK, Request, ReadSession, Goto, Return, At, sessions
  <2>2. ASSUME NEW g \in Handlers, request'[g].token = t
        PROVE  request'[g].at \notin {"repopulate", "cacheSession"}
    BY <1>10, <2>2, NullsAreNew DEF Dead, Active, TypeOK, Request, Idle, ReadSession, Goto, Return, At, sessions
  <2> QED
    BY <2>1, <2>2 DEF Dead
<1>11. ASSUME NEW h \in Handlers, Repopulate(h)
      PROVE  Dead(t)'
  <2>1. row'[t] # "absent" /\ ~Active(t)' /\ t \notin cached'
    BY <1>11 DEF Dead, Active, TypeOK, Request, Repopulate, Return, At, sessions
  <2>2. ASSUME NEW g \in Handlers, request'[g].token = t
        PROVE  request'[g].at \notin {"repopulate", "cacheSession"}
    BY <1>11, <2>2, NullsAreNew DEF Dead, Active, TypeOK, Request, Idle, Repopulate, Return, At, sessions
  <2> QED
    BY <2>1, <2>2 DEF Dead
<1>12. ASSUME NEW c \in Tokens, Expire(c) \/ Evict(c)
      PROVE  Dead(t)'
  <2>1. row'[t] # "absent" /\ ~Active(t)' /\ t \notin cached'
    BY <1>12 DEF Dead, Active, TypeOK, Request, Expire, Evict, sessions
  <2>2. ASSUME NEW g \in Handlers, request'[g].token = t
        PROVE  request'[g].at \notin {"repopulate", "cacheSession"}
    BY <1>12, <2>2, NullsAreNew DEF Dead, Active, TypeOK, Request, Idle, Expire, Evict, sessions
  <2> QED
    BY <2>1, <2>2 DEF Dead
<1>13. ASSUME Crash
      PROVE  Dead(t)'
  <2>1. row'[t] # "absent" /\ ~Active(t)' /\ t \notin cached'
    BY <1>13 DEF Dead, Active, TypeOK, Request, Crash, sessions
  <2>2. ASSUME NEW g \in Handlers, request'[g].token = t
        PROVE  request'[g].at \notin {"repopulate", "cacheSession"}
    BY <1>13, <2>2, NullsAreNew DEF Dead, Active, TypeOK, Request, Idle, Crash, sessions
  <2> QED
    BY <2>1, <2>2 DEF Dead
<1> QED
  BY <1>1, <1>2, <1>3, <1>4, <1>5, <1>6, <1>7, <1>8, <1>9, <1>10, <1>11, <1>12, <1>13 DEF Next, HandlerStep

\* A token that every store refuses, and that no request is about to copy, stays
\* refused: for every user, whatever overlaps, fails or crashes.
THEOREM NothingIsRevived == Spec => NoRevival
<1> DEFINE Kept == \A t \in Tokens : Dead(t) => Dead(t)'
<1>1. SessionsInv /\ [Next]_vars => [Kept]_vars
  BY DeadStaysDead DEF SessionsInv
<1> QED
  BY <1>1, SessionsInvariant, PTL DEF Spec, NoRevival
=============================================================================
