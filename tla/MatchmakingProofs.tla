-------------------------- MODULE MatchmakingProofs --------------------------
(***************************************************************************)
(* Proofs about the matchmaking service: ProtocolInv is an invariant for   *)
(* any number of users, sessions, concurrent requests, failed statements   *)
(* and crashes, and with it the service implements MatchAgreement.         *)
(***************************************************************************)
EXTENDS Matchmaking, TLAPS

\* How a step may change the rows of game_sessions: they are never removed,
\* their players are fixed, ready flags and started_at are never cleared.
RowsGrow ==
  \A s \in Sessions : status[s] # "absent" =>
    /\ status'[s] # "absent"
    /\ player1'[s] = player1[s]
    /\ player2'[s] = player2[s]
    /\ ready[s] \subseteq ready'[s]
    /\ started[s] => started'[s]

\* What a request knows survives every step that lets the rows grow and does
\* not touch the request.
LEMMA RequestFrame ==
  ASSUME RowsGrow, RowInv, NEW h \in Handlers, RequestOK(h),
         request'[h] = request[h]
  PROVE  RequestOK(h)'
<1>1. \A s \in Sessions : started[s] => status[s] # "absent"
  BY DEF RowInv, RowOK
<1> QED
  BY <1>1 DEF RowsGrow, RequestOK, Players

\* Likewise for what the loops know.
LEMMA LoopFrame ==
  ASSUME RowsGrow, MatcherOK, ExpirerOK, UNCHANGED <<matcher, expirer>>,
         TypeOK
  PROVE  MatcherOK' /\ ExpirerOK'
BY DEF RowsGrow, MatcherOK, ExpirerOK, TypeOK

\* The initial state.
LEMMA InitOK == Init => ProtocolInv
<1> SUFFICES ASSUME Init PROVE ProtocolInv
  OBVIOUS
<1>1. TypeOK
  BY BoundsAreNats DEF Init, TypeOK, Status, Idle, Request, Steps, MatcherIdle, ExpirerIdle
<1>2. RowInv
  BY DEF Init, RowInv, RowOK
<1>3. RequestInv
  BY DEF Init, RequestInv, RequestOK, Idle
<1>4. MatcherOK /\ ExpirerOK
  BY DEF Init, MatcherOK, ExpirerOK, MatcherIdle, ExpirerIdle
<1> QED
  BY <1>1, <1>2, <1>3, <1>4 DEF ProtocolInv

----------------------------------------------------------------------------
(* How the statements change game_sessions.                                *)

\* The shape of the tables, the part of TypeOK the statements below disturb.
RowsTyped ==
  /\ status \in [Sessions -> Status]
  /\ player1 \in [Sessions -> Users \cup {NoUser}]
  /\ player2 \in [Sessions -> Users \cup {NoUser}]
  /\ ready \in [Sessions -> SUBSET Users]
  /\ started \in [Sessions -> BOOLEAN]
  /\ deadline \in [Sessions -> {"open", "passed", "null"}]
  /\ winner \in [Sessions -> Users \cup {NoUser}]

\* What a statement must establish for the rest of the step to be safe.
GoodUpdate == RowsTyped' /\ RowsGrow /\ RowInv'

LEMMA NoUpdate == ASSUME TypeOK, RowInv, UNCHANGED tables PROVE GoodUpdate
BY DEF TypeOK, RowInv, RowOK, Players, tables, GoodUpdate, RowsTyped, RowsGrow

LEMMA StartUpdate ==
  ASSUME TypeOK, RowInv, NEW s \in Sessions, StartGameSession(s)
  PROVE  GoodUpdate
BY DEF TypeOK, RowInv, RowOK, Players, StartGameSession, Status,
       GoodUpdate, RowsTyped, RowsGrow

LEMMA ReadyUpdate ==
  ASSUME TypeOK, RowInv, NEW s \in Sessions, NEW u \in Players(s),
         SetPlayerReady(s, u)
  PROVE  GoodUpdate
BY DEF TypeOK, RowInv, RowOK, Players, SetPlayerReady, GoodUpdate, RowsTyped, RowsGrow

LEMMA CancelUpdate ==
  ASSUME TypeOK, RowInv, NEW s \in Sessions, status[s] # "absent",
         CancelGameSession(s)
  PROVE  GoodUpdate
BY DEF TypeOK, RowInv, RowOK, Players, CancelGameSession, Status,
       GoodUpdate, RowsTyped, RowsGrow

LEMMA CreateUpdate ==
  ASSUME TypeOK, RowInv, NEW s \in Sessions, NEW p \in Users, NEW q \in Users,
         p # q, CreateGameSession(s, p, q)
  PROVE  GoodUpdate
BY DEF TypeOK, RowInv, RowOK, Players, CreateGameSession, Status,
       GoodUpdate, RowsTyped, RowsGrow

LEMMA CompleteUpdate ==
  ASSUME TypeOK, RowInv, NEW s \in Sessions, started[s],
         NEW w \in Users \cup {NoUser},
         status' = [status EXCEPT ![s] = "completed"],
         winner' = [winner EXCEPT ![s] = w],
         UNCHANGED <<player1, player2, ready, started, deadline>>
  PROVE  GoodUpdate
BY DEF TypeOK, RowInv, RowOK, Players, Status, GoodUpdate, RowsTyped, RowsGrow

LEMMA DeadlineUpdate ==
  ASSUME TypeOK, RowInv, NEW s \in Sessions, DeadlinePasses(s)
  PROVE  GoodUpdate
BY DEF TypeOK, RowInv, RowOK, Players, DeadlinePasses, GoodUpdate, RowsTyped, RowsGrow

----------------------------------------------------------------------------
(* How a handler goroutine moves on.                                       *)

\* One request changed, the others keep what they know.
LEMMA RequestUpdate ==
  ASSUME RowInv, RowsGrow, RequestInv, NEW h \in Handlers, RequestOK(h)',
         \A g \in Handlers \ {h} : request'[g] = request[g]
  PROVE  RequestInv'
<1> SUFFICES ASSUME NEW g \in Handlers PROVE RequestOK(g)'
  BY DEF RequestInv
<1>1. CASE g = h
  BY <1>1
<1>2. CASE g # h
  BY <1>2, RequestFrame DEF RequestInv
<1> QED
  BY <1>1, <1>2

LEMMA ReturnOK ==
  ASSUME TypeOK, NEW h \in Handlers, Return(h)
  PROVE  /\ RequestOK(h)'
         /\ request' \in [Handlers -> Request]
         /\ \A g \in Handlers \ {h} : request'[g] = request[g]
BY DEF TypeOK, Return, Idle, RequestOK, Request, Steps

LEMMA GotoOK ==
  ASSUME TypeOK, NEW h \in Handlers, NEW step \in Steps, Goto(h, step)
  PROVE  /\ request'[h].at = step
         /\ request'[h].user = request[h].user
         /\ request'[h].sid = request[h].sid
         /\ request'[h].winner = request[h].winner
         /\ request' \in [Handlers -> Request]
         /\ \A g \in Handlers \ {h} : request'[g] = request[g]
<1>1. request \in [Handlers -> Request]
  BY DEF TypeOK
<1>2. request' = [request EXCEPT ![h] = [request[h] EXCEPT !.at = step]]
  BY DEF Goto
<1>3. [request[h] EXCEPT !.at = step]
        = [at |-> step, user |-> request[h].user, sid |-> request[h].sid,
           both |-> request[h].both, winner |-> request[h].winner]
  BY <1>1 DEF Request
<1> QED
  BY <1>1, <1>2, <1>3 DEF Request

LEMMA ServeOK ==
  ASSUME TypeOK, NEW h \in Handlers, NEW step \in Steps,
         NEW u \in Users \cup {NoUser}, NEW s \in Sessions \cup {NoSession},
         Serve(h, step, u, s)
  PROVE  /\ request'[h] = [at |-> step, user |-> u, sid |-> s,
                           both |-> FALSE, winner |-> NoUser]
         /\ request' \in [Handlers -> Request]
         /\ \A g \in Handlers \ {h} : request'[g] = request[g]
BY DEF TypeOK, Serve, Request

LEMMA BudgetOK ==
  ASSUME TypeOK, Works \/ Fails
  PROVE  faults' \in 0..MaxFaults /\ crashes' \in 0..MaxCrashes
BY BoundsAreNats DEF TypeOK, Works, Fails, budget

----------------------------------------------------------------------------
(* A step of the system, put together from its parts.                      *)

\* The types that the rows of game_sessions have no part in.
RestTyped ==
  /\ queue \in SUBSET Users
  /\ mmr \in [Users -> Int]
  /\ notice \in [Users -> Sessions \cup {NoSession}]

LEMMA HandlerStep ==
  ASSUME ProtocolInv, NEW h \in Handlers, GoodUpdate, RestTyped', Works \/ Fails,
         RequestOK(h)', request' \in [Handlers -> Request],
         \A g \in Handlers \ {h} : request'[g] = request[g],
         UNCHANGED <<matcher, expirer>>
  PROVE  ProtocolInv'
<1>1. RequestInv'
  BY RequestUpdate DEF ProtocolInv, GoodUpdate
<1>2. MatcherOK' /\ ExpirerOK'
  BY LoopFrame DEF ProtocolInv, GoodUpdate
<1>3. TypeOK'
  BY BudgetOK DEF ProtocolInv, TypeOK, GoodUpdate, RowsTyped, RestTyped
<1> QED
  BY <1>1, <1>2, <1>3 DEF ProtocolInv, GoodUpdate

LEMMA LoopStep ==
  ASSUME ProtocolInv, GoodUpdate, RestTyped', Works \/ Fails, UNCHANGED request,
         matcher' \in [at : {"idle", "create", "dequeue", "notify1", "notify2"},
                       plan : SUBSET (Users \X Users),
                       sid : Sessions \cup {NoSession}],
         expirer' \in [at : {"idle", "cancel", "requeue1", "requeue2", "clear"},
                       batch : SUBSET Sessions, sid : Sessions \cup {NoSession}],
         MatcherOK', ExpirerOK'
  PROVE  ProtocolInv'
<1>1. RequestInv'
  BY RequestFrame DEF ProtocolInv, GoodUpdate, RequestInv
<1>2. TypeOK'
  BY BudgetOK DEF ProtocolInv, TypeOK, GoodUpdate, RowsTyped, RestTyped
<1> QED
  BY <1>1, <1>2 DEF ProtocolInv, GoodUpdate

----------------------------------------------------------------------------
(* Every action preserves ProtocolInv: the requests.                       *)

LEMMA ArriveOK ==
  ASSUME ProtocolInv, NEW h \in Handlers, Arrive(h)
  PROVE  ProtocolInv'
<1>0. TypeOK /\ RowInv
  BY DEF ProtocolInv
<1>1. UNCHANGED tables => GoodUpdate
  BY <1>0, NoUpdate
<1>2. ASSUME NEW u \in Users, JoinCheckSession(h, u)
      PROVE  ProtocolInv'
  <2>1. /\ request' \in [Handlers -> Request]
        /\ \A g \in Handlers \ {h} : request'[g] = request[g]
        /\ request'[h] = [at |-> "joinCheckQueue", user |-> u, sid |-> NoSession,
                          both |-> FALSE, winner |-> NoUser]
    BY <1>0, <1>2, ServeOK DEF JoinCheckSession, Steps
  <2>3. RequestOK(h)'
    BY <2>1 DEF RequestOK
  <2>2. GoodUpdate /\ RestTyped'
    BY <1>0, <1>1, <1>2 DEF JoinCheckSession, TypeOK, RestTyped
  <2> QED
    BY <1>2, <2>1, <2>2, <2>3, HandlerStep DEF JoinCheckSession
<1>3. ASSUME NEW u \in Users, CheckRead(h, u)
      PROVE  ProtocolInv'
  <2>0. notice[u] \in Sessions
    BY <1>0, <1>3 DEF CheckRead, TypeOK
  <2>1. /\ request' \in [Handlers -> Request]
        /\ \A g \in Handlers \ {h} : request'[g] = request[g]
        /\ request'[h] = [at |-> "checkDelete", user |-> u, sid |-> notice[u],
                          both |-> FALSE, winner |-> NoUser]
    BY <1>0, <1>3, <2>0, ServeOK DEF CheckRead, Steps
  <2>3. RequestOK(h)'
    BY <2>1, <2>0 DEF RequestOK
  <2>2. GoodUpdate /\ RestTyped'
    BY <1>0, <1>1, <1>3 DEF CheckRead, TypeOK, RestTyped
  <2> QED
    BY <1>3, <2>1, <2>2, <2>3, HandlerStep DEF CheckRead, Works
<1>4. ASSUME NEW u \in Users, NEW s \in Sessions, AcceptRead(h, u, s)
      PROVE  ProtocolInv'
  <2>1. GoodUpdate /\ RestTyped'
    BY <1>0, <1>1, <1>4 DEF AcceptRead, TypeOK, RestTyped
  <2>2. Players(s)' = Players(s) /\ status'[s] # "absent" /\ ready'[s] = ready[s]
    BY <1>4 DEF AcceptRead, tables, Players
  <2>3. /\ request' \in [Handlers -> Request]
        /\ \A g \in Handlers \ {h} : request'[g] = request[g]
        /\ request'[h].at = "acceptWrite"
        /\ request'[h].user = u
        /\ request'[h].sid = s
        /\ request'[h].both <=> (Players(s) \subseteq ready[s] \cup {u})
    BY <1>0, <1>4 DEF AcceptRead, TypeOK, Request, Steps
  <2>4. u \in Players(s)
    BY <1>4 DEF AcceptRead
  <2>5. RequestOK(h)'
    BY <2>2, <2>3, <2>4 DEF RequestOK, Players
  <2> QED
    BY <1>4, <2>1, <2>3, <2>5, HandlerStep DEF AcceptRead, Works
<1>5. ASSUME NEW u \in Users, NEW s \in Sessions, RejectRead(h, u, s)
      PROVE  ProtocolInv'
  <2>1. GoodUpdate /\ RestTyped'
    BY <1>0, <1>1, <1>5 DEF RejectRead, TypeOK, RestTyped
  <2>2. Players(s)' = Players(s) /\ status'[s] # "absent"
    BY <1>5 DEF RejectRead, tables, Players
  <2>3. /\ request' \in [Handlers -> Request]
        /\ \A g \in Handlers \ {h} : request'[g] = request[g]
        /\ request'[h] = [at |-> "rejectCancel", user |-> u, sid |-> s,
                          both |-> FALSE, winner |-> NoUser]
    BY <1>0, <1>5, ServeOK DEF RejectRead, Steps
  <2>4. RequestOK(h)'
    BY <1>5, <2>2, <2>3 DEF RejectRead, RequestOK, Players
  <2> QED
    BY <1>5, <2>1, <2>3, <2>4, HandlerStep DEF RejectRead, Works
<1>6. ASSUME NEW s \in Sessions, NEW w \in Users \cup {NoUser}, EndRead(h, s, w)
      PROVE  ProtocolInv'
  <2>1. GoodUpdate /\ RestTyped'
    BY <1>0, <1>1, <1>6 DEF EndRead, TypeOK, RestTyped
  <2>2. started'[s] /\ Players(s)' = Players(s)
    BY <1>0, <1>6 DEF EndRead, tables, RowInv, RowOK, Players
  <2>3. /\ request' \in [Handlers -> Request]
        /\ \A g \in Handlers \ {h} : request'[g] = request[g]
        /\ request'[h].at \in {"endComplete", "endPay1"}
        /\ request'[h].sid = s
        /\ request'[h].winner = w
    BY <1>0, <1>6 DEF EndRead, TypeOK, Request, Steps
  <2>4. RequestOK(h)'
    BY <1>6, <2>2, <2>3 DEF EndRead, RequestOK, Players
  <2> QED
    BY <1>6, <2>1, <2>3, <2>4, HandlerStep DEF EndRead, Works
<1> QED
  BY <1>2, <1>3, <1>4, <1>5, <1>6, InputsAreUsers DEF Arrive

LEMMA ProceedOK ==
  ASSUME ProtocolInv, NEW h \in Handlers, Proceed(h)
  PROVE  ProtocolInv'
<1> DEFINE s == request[h].sid
           u == request[h].user
<1>0. TypeOK /\ RowInv /\ RequestOK(h) /\ request[h] \in Request
  BY DEF ProtocolInv, RequestInv, TypeOK
<1>1. UNCHANGED tables => GoodUpdate
  BY <1>0, NoUpdate
<1>2. CASE JoinCheckQueue(h)
  <2>1. GoodUpdate /\ RestTyped' /\ (Works \/ Fails)
    BY <1>0, <1>1, <1>2 DEF JoinCheckQueue, TypeOK, RestTyped
  <2>2. CASE Return(h)
    BY <1>0, <1>2, <2>1, <2>2, ReturnOK, HandlerStep DEF JoinCheckQueue
  <2>3. CASE Goto(h, "joinInsert")
    <3>1. /\ request'[h].at = "joinInsert"
          /\ request'[h].user = u
          /\ request' \in [Handlers -> Request]
          /\ \A g \in Handlers \ {h} : request'[g] = request[g]
      BY <1>0, <2>3, GotoOK DEF Steps
    <3>2. u \in Users
      BY <1>0, <1>2 DEF JoinCheckQueue, At, RequestOK
    <3>3. RequestOK(h)'
      BY <3>1, <3>2 DEF RequestOK
    <3> QED
      BY <1>2, <2>1, <3>1, <3>3, HandlerStep DEF JoinCheckQueue
  <2> QED
    BY <1>2, <2>2, <2>3 DEF JoinCheckQueue
<1>3. CASE JoinInsert(h)
  <2>1. u \in Users
    BY <1>0, <1>3 DEF JoinInsert, At, RequestOK
  <2>2. GoodUpdate /\ RestTyped' /\ (Works \/ Fails)
    BY <1>0, <1>1, <1>3, <2>1 DEF JoinInsert, TypeOK, RestTyped
  <2> QED
    BY <1>0, <1>3, <2>2, ReturnOK, HandlerStep DEF JoinInsert
<1>4. CASE CheckDelete(h)
  <2>1. u \in Users /\ s \in Sessions
    BY <1>0, <1>4 DEF CheckDelete, At, RequestOK
  <2>2. GoodUpdate /\ RestTyped' /\ (Works \/ Fails)
    BY <1>0, <1>1, <1>4, <2>1 DEF CheckDelete, TypeOK, RestTyped
  <2> QED
    BY <1>0, <1>4, <2>2, ReturnOK, HandlerStep DEF CheckDelete
<1>5. CASE AcceptWrite(h)
  <2>1. s \in Sessions /\ u \in Players(s)
    BY <1>0, <1>5 DEF AcceptWrite, At, RequestOK
  <2>2. RestTyped' /\ (Works \/ Fails)
    BY <1>0, <1>5 DEF AcceptWrite, TypeOK, RestTyped
  <2>3. GoodUpdate
    BY <1>0, <1>1, <1>5, <2>1, StartUpdate, ReadyUpdate DEF AcceptWrite
  <2> QED
    BY <1>0, <1>5, <2>2, <2>3, ReturnOK, HandlerStep DEF AcceptWrite
<1>6. CASE RejectCancel(h)
  <2>1. s \in Sessions /\ status[s] # "absent" /\ u \in Players(s)
    BY <1>0, <1>6 DEF RejectCancel, At, RequestOK
  <2>2. RestTyped' /\ (Works \/ Fails)
    BY <1>0, <1>6 DEF RejectCancel, TypeOK, RestTyped
  <2>3. GoodUpdate
    BY <1>0, <1>1, <1>6, <2>1, CancelUpdate DEF RejectCancel
  <2>4. CASE Return(h)
    BY <1>0, <1>6, <2>2, <2>3, <2>4, ReturnOK, HandlerStep DEF RejectCancel
  <2>5. CASE Goto(h, "rejectRequeue")
    <3>1. /\ request'[h].at = "rejectRequeue"
          /\ request'[h].user = u
          /\ request'[h].sid = s
          /\ request' \in [Handlers -> Request]
          /\ \A g \in Handlers \ {h} : request'[g] = request[g]
      BY <1>0, <2>5, GotoOK DEF Steps
    <3>2. status'[s] # "absent" /\ u \in Players(s)'
      BY <2>1, <2>3, <3>1 DEF GoodUpdate, RowsGrow, Players
    <3>3. RequestOK(h)'
      BY <2>1, <3>1, <3>2 DEF RequestOK, Players
    <3> QED
      BY <1>6, <2>2, <2>3, <3>1, <3>3, HandlerStep DEF RejectCancel
  <2> QED
    BY <1>6, <2>4, <2>5 DEF RejectCancel
<1>7. CASE RejectRequeue(h)
  <2>1. s \in Sessions /\ status[s] # "absent" /\ u \in Players(s)
    BY <1>0, <1>7 DEF RejectRequeue, At, RequestOK
  <2>2. Players(s) \subseteq Users
    BY <1>0, <2>1 DEF RowInv, RowOK, Players
  <2>3. GoodUpdate /\ RestTyped' /\ (Works \/ Fails)
    BY <1>0, <1>1, <1>7, <2>2 DEF RejectRequeue, TypeOK, RestTyped
  <2>4. /\ request'[h].at = "rejectClear"
        /\ request'[h].user = u
        /\ request'[h].sid = s
        /\ request' \in [Handlers -> Request]
        /\ \A g \in Handlers \ {h} : request'[g] = request[g]
    BY <1>0, <1>7, GotoOK DEF RejectRequeue, Steps
  <2>5. status'[s] # "absent" /\ u \in Players(s)'
    BY <2>1, <2>3, <2>4 DEF GoodUpdate, RowsGrow, Players
  <2>6. RequestOK(h)'
    BY <2>1, <2>4, <2>5 DEF RequestOK, Players
  <2> QED
    BY <1>7, <2>3, <2>4, <2>6, HandlerStep DEF RejectRequeue
<1>8. CASE RejectClear(h)
  <2>1. GoodUpdate /\ RestTyped' /\ (Works \/ Fails)
    BY <1>0, <1>1, <1>8 DEF RejectClear, ClearNotices, TypeOK, RestTyped
  <2> QED
    BY <1>0, <1>8, <2>1, ReturnOK, HandlerStep DEF RejectClear
<1>9. ASSUME NEW step \in {"endPay1", "endPay2"}, NEW next \in {"endPay2", "endComplete"},
             NEW v \in Players(s), EndPay(h, step, next, v)
      PROVE  ProtocolInv'
  <2>1. /\ s \in Sessions
        /\ started[s]
        /\ request[h].winner \in Players(s) \cup {NoUser}
    BY <1>0, <1>9 DEF EndPay, At, RequestOK
  <2>2. v \in Users /\ status[s] # "absent"
    BY <1>0, <2>1 DEF RowInv, RowOK, Players
  <2>3. MmrChange(v, request[h].winner) \in Int
    BY RatingsAreInts DEF MmrChange
  <2>4. mmr' \in [Users -> Int]
    BY <1>0, <1>9, <2>2, <2>3 DEF EndPay, TypeOK
  <2>5. GoodUpdate /\ RestTyped' /\ (Works \/ Fails)
    BY <1>0, <1>1, <1>9, <2>4 DEF EndPay, TypeOK, RestTyped
  <2>6. /\ request'[h].at = next
        /\ request'[h].sid = s
        /\ request'[h].winner = request[h].winner
        /\ request' \in [Handlers -> Request]
        /\ \A g \in Handlers \ {h} : request'[g] = request[g]
    BY <1>0, <1>9, GotoOK DEF EndPay, Steps
  <2>7. started'[s] /\ Players(s)' = Players(s)
    BY <2>1, <2>2, <2>5, <2>6 DEF GoodUpdate, RowsGrow, Players
  <2>8. RequestOK(h)'
    BY <2>1, <2>6, <2>7 DEF RequestOK, Players
  <2> QED
    BY <1>9, <2>5, <2>6, <2>8, HandlerStep DEF EndPay
<1>10. CASE EndPay1(h)
  BY <1>9, <1>10 DEF EndPay1, Players
<1>11. CASE EndPay2(h)
  BY <1>9, <1>11 DEF EndPay2, Players
<1>12. CASE EndComplete(h)
  <2>1. /\ s \in Sessions
        /\ started[s]
        /\ request[h].winner \in Users \cup {NoUser}
    BY <1>0, <1>12 DEF EndComplete, At, RequestOK, Request
  <2>2. RestTyped' /\ (Works \/ Fails)
    BY <1>0, <1>12 DEF EndComplete, TypeOK, RestTyped
  <2>3. GoodUpdate
    BY <1>0, <1>1, <1>12, <2>1, CompleteUpdate DEF EndComplete
  <2> QED
    BY <1>0, <1>12, <2>2, <2>3, ReturnOK, HandlerStep DEF EndComplete
<1> QED
  BY <1>2, <1>3, <1>4, <1>5, <1>6, <1>7, <1>8, <1>10, <1>11, <1>12 DEF Proceed

----------------------------------------------------------------------------
(* Every action preserves ProtocolInv: the loops and the environment.      *)

MatcherTyped ==
  matcher \in [at : {"idle", "create", "dequeue", "notify1", "notify2"},
               plan : SUBSET (Users \X Users), sid : Sessions \cup {NoSession}]
ExpirerTyped ==
  expirer \in [at : {"idle", "cancel", "requeue1", "requeue2", "clear"},
               batch : SUBSET Sessions, sid : Sessions \cup {NoSession}]

\* The matcher's step, the expirer being elsewhere.
LEMMA MatcherStep ==
  ASSUME ProtocolInv, GoodUpdate, RestTyped', Works \/ Fails,
         UNCHANGED <<request, expirer>>, MatcherTyped', MatcherOK'
  PROVE  ProtocolInv'
<1>1. ExpirerOK' /\ ExpirerTyped'
  BY DEF ProtocolInv, TypeOK, GoodUpdate, RowsGrow, ExpirerOK, ExpirerTyped
<1> QED
  BY <1>1, LoopStep DEF MatcherTyped, ExpirerTyped

LEMMA ExpirerStep ==
  ASSUME ProtocolInv, GoodUpdate, RestTyped', Works \/ Fails,
         UNCHANGED <<request, matcher>>, ExpirerTyped', ExpirerOK'
  PROVE  ProtocolInv'
<1>1. MatcherOK' /\ MatcherTyped'
  BY DEF ProtocolInv, TypeOK, GoodUpdate, RowsGrow, MatcherOK, MatcherTyped
<1> QED
  BY <1>1, LoopStep DEF MatcherTyped, ExpirerTyped

LEMMA MatcherNextOK ==
  ASSUME NEW plan \in SUBSET (Users \X Users), \A m \in plan : m[1] # m[2],
         MatcherNext(plan)
  PROVE  MatcherTyped' /\ MatcherOK'
BY DEF MatcherNext, MatcherIdle, MatcherTyped, MatcherOK

LEMMA ExpirerNextOK ==
  ASSUME GoodUpdate, NEW batch \in SUBSET Sessions,
         \A s \in batch : status[s] # "absent", ExpirerNext(batch)
  PROVE  ExpirerTyped' /\ ExpirerOK'
BY DEF ExpirerNext, ExpirerIdle, ExpirerTyped, ExpirerOK, GoodUpdate, RowsGrow

LEMMA MatcherStepOK == ASSUME ProtocolInv, Matcher PROVE ProtocolInv'
<1>0. TypeOK /\ RowInv /\ MatcherOK /\ MatcherTyped
  BY DEF ProtocolInv, TypeOK, MatcherTyped
<1>1. UNCHANGED tables => GoodUpdate
  BY <1>0, NoUpdate
<1>2. CASE MatcherRead
  <2>1. PICK M \in Pairings(queue) :
          matcher' = [at |-> "create", plan |-> M, sid |-> NoSession]
    BY <1>2 DEF MatcherRead
  <2>2. M \in SUBSET (Users \X Users) /\ \A m \in M : m[1] # m[2]
    BY <1>0 DEF Pairings, TypeOK
  <2>3. MatcherTyped' /\ MatcherOK'
    BY <2>1, <2>2 DEF MatcherTyped, MatcherOK
  <2>4. GoodUpdate /\ RestTyped'
    BY <1>0, <1>1, <1>2 DEF MatcherRead, TypeOK, RestTyped
  <2> QED
    BY <1>2, <2>3, <2>4, MatcherStep DEF MatcherRead, Works
<1>3. CASE MatcherCreate
  <2>0. RestTyped' /\ (Works \/ Fails)
    BY <1>0, <1>3 DEF MatcherCreate, TypeOK, RestTyped
  <2>1. PICK m \in matcher.plan :
          \/ \E s \in Sessions :
               /\ CreateGameSession(s, m[1], m[2])
               /\ matcher' = [at |-> "dequeue", plan |-> matcher.plan \ {m}, sid |-> s]
          \/ MatcherNext(matcher.plan \ {m}) /\ UNCHANGED tables
    BY <1>3 DEF MatcherCreate
  <2>2. /\ m[1] \in Users /\ m[2] \in Users /\ m[1] # m[2]
        /\ matcher.plan \ {m} \in SUBSET (Users \X Users)
        /\ \A n \in matcher.plan \ {m} : n[1] # n[2]
    BY <1>0 DEF MatcherTyped, MatcherOK
  <2>3. ASSUME NEW s \in Sessions, CreateGameSession(s, m[1], m[2]),
               matcher' = [at |-> "dequeue", plan |-> matcher.plan \ {m}, sid |-> s]
        PROVE  GoodUpdate /\ MatcherTyped' /\ MatcherOK'
    <3>1. GoodUpdate
      BY <1>0, <2>2, <2>3, CreateUpdate
    <3>2. status'[s] # "absent"
      BY <1>0, <2>3 DEF CreateGameSession, TypeOK
    <3> QED
      BY <2>2, <2>3, <3>1, <3>2 DEF MatcherTyped, MatcherOK
  <2>4. CASE MatcherNext(matcher.plan \ {m}) /\ UNCHANGED tables
    BY <1>1, <1>3, <2>0, <2>2, <2>4, MatcherNextOK, MatcherStep DEF MatcherCreate
  <2> QED
    BY <1>3, <2>0, <2>1, <2>3, <2>4, MatcherStep DEF MatcherCreate
<1>4. CASE MatcherDequeue
  <2>1. MatcherTyped' /\ MatcherOK'
    BY <1>0, <1>4 DEF MatcherDequeue, tables, MatcherTyped, MatcherOK
  <2>2. GoodUpdate /\ RestTyped' /\ (Works \/ Fails)
    BY <1>0, <1>1, <1>4 DEF MatcherDequeue, TypeOK, RestTyped
  <2> QED
    BY <1>4, <2>1, <2>2, MatcherStep DEF MatcherDequeue
<1>5. CASE MatcherNotify1
  <2>1. MatcherTyped' /\ MatcherOK'
    BY <1>0, <1>5 DEF MatcherNotify1, tables, MatcherTyped, MatcherOK
  <2>2. matcher.sid \in Sessions
    BY <1>0, <1>5 DEF MatcherNotify1, MatcherOK
  <2>3. GoodUpdate /\ RestTyped' /\ (Works \/ Fails)
    BY <1>0, <1>1, <1>5, <2>2 DEF MatcherNotify1, Notify, TypeOK, RestTyped
  <2> QED
    BY <1>5, <2>1, <2>3, MatcherStep DEF MatcherNotify1
<1>6. CASE MatcherNotify2
  <2>1. MatcherTyped' /\ MatcherOK'
    <3>1. matcher.plan \in SUBSET (Users \X Users) /\ \A m \in matcher.plan : m[1] # m[2]
      BY <1>0 DEF MatcherTyped, MatcherOK
    <3> QED
      BY <1>6, <3>1, MatcherNextOK DEF MatcherNotify2
  <2>2. matcher.sid \in Sessions
    BY <1>0, <1>6 DEF MatcherNotify2, MatcherOK
  <2>3. GoodUpdate /\ RestTyped' /\ (Works \/ Fails)
    BY <1>0, <1>1, <1>6, <2>2 DEF MatcherNotify2, Notify, TypeOK, RestTyped
  <2> QED
    BY <1>6, <2>1, <2>3, MatcherStep DEF MatcherNotify2
<1> QED
  BY <1>2, <1>3, <1>4, <1>5, <1>6 DEF Matcher

LEMMA ExpirerStepOK == ASSUME ProtocolInv, Expirer PROVE ProtocolInv'
<1>0. TypeOK /\ RowInv /\ ExpirerOK /\ ExpirerTyped
  BY DEF ProtocolInv, TypeOK, ExpirerTyped
<1>1. UNCHANGED tables => GoodUpdate
  BY <1>0, NoUpdate
<1>2. CASE ExpirerRead
  <2>1. ExpirerTyped' /\ ExpirerOK'
    BY <1>2 DEF ExpirerRead, ExpiredWaiting, tables, ExpirerTyped, ExpirerOK
  <2>2. GoodUpdate /\ RestTyped'
    BY <1>0, <1>1, <1>2 DEF ExpirerRead, TypeOK, RestTyped
  <2> QED
    BY <1>2, <2>1, <2>2, ExpirerStep DEF ExpirerRead, Works
<1>3. CASE ExpirerCancel
  <2>0. RestTyped' /\ (Works \/ Fails)
    BY <1>0, <1>3 DEF ExpirerCancel, TypeOK, RestTyped
  <2>1. PICK s \in expirer.batch :
          \/ /\ CancelGameSession(s)
             /\ expirer' = [at |-> "requeue1", batch |-> expirer.batch \ {s}, sid |-> s]
          \/ ExpirerNext(expirer.batch \ {s}) /\ UNCHANGED tables
    BY <1>3 DEF ExpirerCancel
  <2>2. /\ s \in Sessions /\ status[s] # "absent"
        /\ expirer.batch \ {s} \in SUBSET Sessions
        /\ \A t \in expirer.batch \ {s} : status[t] # "absent"
    BY <1>0 DEF ExpirerTyped, ExpirerOK
  <2>3. ASSUME CancelGameSession(s),
               expirer' = [at |-> "requeue1", batch |-> expirer.batch \ {s}, sid |-> s]
        PROVE  GoodUpdate /\ ExpirerTyped' /\ ExpirerOK'
    <3>1. GoodUpdate
      BY <1>0, <2>2, <2>3, CancelUpdate
    <3> QED
      BY <2>2, <2>3, <3>1 DEF GoodUpdate, RowsGrow, ExpirerTyped, ExpirerOK
  <2>4. CASE ExpirerNext(expirer.batch \ {s}) /\ UNCHANGED tables
    BY <1>1, <1>3, <2>0, <2>2, <2>4, ExpirerNextOK, ExpirerStep DEF ExpirerCancel
  <2> QED
    BY <1>3, <2>0, <2>1, <2>3, <2>4, ExpirerStep DEF ExpirerCancel
<1>4. ASSUME NEW step \in {"requeue1", "requeue2"}, NEW next \in {"requeue2", "clear"},
             NEW u \in Players(expirer.sid), ExpirerRequeue(step, next, u)
      PROVE  ProtocolInv'
  <2>1. expirer.sid \in Sessions /\ status[expirer.sid] # "absent"
    BY <1>0, <1>4 DEF ExpirerRequeue, ExpirerOK
  <2>2. u \in Users
    BY <1>0, <2>1 DEF RowInv, RowOK, Players
  <2>3. ExpirerTyped' /\ ExpirerOK'
    BY <1>0, <1>4, <2>1 DEF ExpirerRequeue, tables, ExpirerTyped, ExpirerOK
  <2>4. GoodUpdate /\ RestTyped' /\ (Works \/ Fails)
    BY <1>0, <1>1, <1>4, <2>2 DEF ExpirerRequeue, TypeOK, RestTyped
  <2> QED
    BY <1>4, <2>3, <2>4, ExpirerStep DEF ExpirerRequeue
<1>5. CASE ExpirerRequeue1
  BY <1>4, <1>5 DEF ExpirerRequeue1, Players
<1>6. CASE ExpirerRequeue2
  BY <1>4, <1>6 DEF ExpirerRequeue2, Players
<1>7. CASE ExpirerClear
  <2>1. GoodUpdate /\ RestTyped' /\ (Works \/ Fails)
    BY <1>0, <1>1, <1>7 DEF ExpirerClear, ClearNotices, TypeOK, RestTyped
  <2>2. expirer.batch \in SUBSET Sessions /\ \A s \in expirer.batch : status[s] # "absent"
    BY <1>0 DEF ExpirerTyped, ExpirerOK
  <2>3. ExpirerTyped' /\ ExpirerOK'
    BY <1>7, <2>1, <2>2, ExpirerNextOK DEF ExpirerClear
  <2> QED
    BY <1>7, <2>1, <2>3, ExpirerStep DEF ExpirerClear
<1> QED
  BY <1>2, <1>3, <1>5, <1>6, <1>7 DEF Expirer

\* Steps that leave every goroutine where it is.
LEMMA QuietStep ==
  ASSUME ProtocolInv, GoodUpdate, RestTyped', UNCHANGED <<request, matcher, expirer, budget>>
  PROVE  ProtocolInv'
<1>1. MatcherOK' /\ MatcherTyped'
  BY DEF ProtocolInv, TypeOK, GoodUpdate, RowsGrow, MatcherOK, MatcherTyped
<1>2. Works
  BY DEF Works
<1> QED
  BY <1>1, <1>2, MatcherStep

LEMMA CrashOK == ASSUME ProtocolInv, Crash PROVE ProtocolInv'
<1>0. TypeOK /\ RowInv
  BY DEF ProtocolInv
<1>1. GoodUpdate
  BY <1>0, NoUpdate DEF Crash
<1>2. TypeOK'
  BY <1>0, <1>1, BoundsAreNats
     DEF Crash, Idle, Request, Steps, MatcherIdle, ExpirerIdle,
         TypeOK, GoodUpdate, RowsTyped
<1>3. RequestInv'
  BY DEF Crash, RequestInv, RequestOK, Idle
<1>4. MatcherOK' /\ ExpirerOK'
  BY DEF Crash, MatcherOK, ExpirerOK, MatcherIdle, ExpirerIdle
<1> QED
  BY <1>1, <1>2, <1>3, <1>4 DEF ProtocolInv, GoodUpdate

LEMMA NextOK == ASSUME ProtocolInv, [Next]_vars PROVE ProtocolInv'
<1>0. TypeOK /\ RowInv
  BY DEF ProtocolInv
<1>1. UNCHANGED tables => GoodUpdate
  BY <1>0, NoUpdate
<1>2. ASSUME NEW h \in Handlers, Arrive(h) \/ Proceed(h) PROVE ProtocolInv'
  BY <1>2, ArriveOK, ProceedOK
<1>3. ASSUME NEW u \in Users, LeaveQueue(u) PROVE ProtocolInv'
  <2>1. GoodUpdate /\ RestTyped'
    BY <1>0, <1>1, <1>3 DEF LeaveQueue, TypeOK, RestTyped
  <2> QED
    BY <1>3, <2>1, QuietStep DEF LeaveQueue
<1>4. ASSUME NEW u \in Users, NoticeExpires(u) PROVE ProtocolInv'
  <2>1. GoodUpdate /\ RestTyped'
    BY <1>0, <1>1, <1>4 DEF NoticeExpires, TypeOK, RestTyped
  <2> QED
    BY <1>4, <2>1, QuietStep DEF NoticeExpires
<1>5. ASSUME NEW s \in Sessions, DeadlinePasses(s) PROVE ProtocolInv'
  <2>1. GoodUpdate
    BY <1>0, <1>5, DeadlineUpdate
  <2>2. RestTyped'
    BY <1>0, <1>5 DEF DeadlinePasses, TypeOK, RestTyped
  <2> QED
    BY <1>5, <2>1, <2>2, QuietStep DEF DeadlinePasses
<1>6. CASE UNCHANGED vars
  <2>1. GoodUpdate /\ RestTyped'
    BY <1>0, <1>1, <1>6 DEF vars, TypeOK, RestTyped
  <2> QED
    BY <1>6, <2>1, QuietStep DEF vars
<1> QED
  BY <1>2, <1>3, <1>4, <1>5, <1>6, MatcherStepOK, ExpirerStepOK, CrashOK DEF Next

\* In every reachable state, whatever number of users, sessions, concurrent
\* requests, failed statements and crashes: the rows are sound, and what the
\* handlers and the loops read still justifies the statement they are about to
\* execute (handlers.go, main.go of services/matchmaking).
THEOREM ProtocolInvariant == Spec => []ProtocolInv
<1>1. Init => ProtocolInv
  BY InitOK
<1>2. ProtocolInv /\ [Next]_vars => ProtocolInv'
  BY NextOK
<1> QED
  BY <1>1, <1>2, PTL DEF Spec

----------------------------------------------------------------------------
(* The service implements MatchAgreement.                                  *)

\* The rows under the mapping that AgreementKept uses.
Parties == [s \in Sessions |-> IF status[s] = "absent" THEN {} ELSE Players(s)]

LEMMA StutterOnTables ==
  ASSUME UNCHANGED <<status, player1, player2, ready, started>>
  PROVE  UNCHANGED Agreement!avars
BY DEF Agreement!avars, Players

LEMMA ReadyIsConsent ==
  ASSUME ProtocolInv, NEW s \in Sessions, NEW u \in Players(s), SetPlayerReady(s, u)
  PROVE  Agreement!Next
<1>1. status[s] = "waiting" /\ u \in Users /\ Parties[s] = Players(s)
  BY DEF ProtocolInv, RowInv, RowOK, SetPlayerReady, Players, Parties
<1>2. Parties' = Parties
  BY DEF SetPlayerReady, Players, Parties
<1>3. Agreement!Consent(s, u)
  BY <1>1, <1>2 DEF Agreement!Consent, SetPlayerReady, Parties
<1> QED
  BY <1>1, <1>3 DEF Agreement!Next

LEMMA StartIsBegin ==
  ASSUME ProtocolInv, NEW s \in Sessions, NEW u \in Players(s),
         Players(s) \subseteq ready[s] \cup {u}, StartGameSession(s)
  PROVE  Agreement!Next
<1>1. status[s] = "waiting" /\ u \in Users /\ Parties[s] = Players(s)
  BY DEF ProtocolInv, RowInv, RowOK, StartGameSession, Players, Parties
<1>2. Players(s) = ready[s] \cup {u}
  BY <1>1 DEF ProtocolInv, RowInv, RowOK
<1>3. Parties' = Parties
  BY DEF ProtocolInv, TypeOK, StartGameSession, Players, Parties
<1>4. Agreement!Begin(s, u)
  BY <1>1, <1>2, <1>3 DEF Agreement!Begin, StartGameSession, Parties
<1> QED
  BY <1>1, <1>4 DEF Agreement!Next

LEMMA CancelIsVoid ==
  ASSUME ProtocolInv, NEW s \in Sessions, status[s] # "absent", CancelGameSession(s)
  PROVE  Agreement!Next
<1>1. Parties' = Parties
  BY DEF ProtocolInv, TypeOK, CancelGameSession, Players, Parties
<1>2. Agreement!Void(s)
  BY <1>1 DEF Agreement!Void, CancelGameSession, Parties
<1> QED
  BY <1>2 DEF Agreement!Next

LEMMA CreateIsPropose ==
  ASSUME ProtocolInv, NEW s \in Sessions, NEW p \in Users, NEW q \in Users,
         p # q, CreateGameSession(s, p, q)
  PROVE  Agreement!Next
<1>1. Parties' = [Parties EXCEPT ![s] = {p, q}]
  BY DEF ProtocolInv, TypeOK, CreateGameSession, Players, Parties
<1>2. Agreement!Propose(s, p, q)
  BY <1>1 DEF Agreement!Propose, CreateGameSession, Parties
<1> QED
  BY <1>2 DEF Agreement!Next

LEMMA CompleteIsFinish ==
  ASSUME ProtocolInv, NEW s \in Sessions, started[s],
         status' = [status EXCEPT ![s] = "completed"],
         UNCHANGED <<player1, player2, ready, started>>
  PROVE  Agreement!Next
<1>1. status[s] # "absent"
  BY DEF ProtocolInv, RowInv, RowOK
<1>2. Parties' = Parties
  BY <1>1 DEF ProtocolInv, TypeOK, Players, Parties
<1>3. Agreement!Finish(s)
  BY <1>2 DEF Agreement!Finish, Parties
<1> QED
  BY <1>3 DEF Agreement!Next

LEMMA StepIsAgreementStep ==
  ASSUME ProtocolInv, [Next]_vars
  PROVE  [Agreement!Next]_(Agreement!avars)
<1>0. CASE UNCHANGED <<status, player1, player2, ready, started>>
  BY <1>0, StutterOnTables
<1>1. ASSUME NEW h \in Handlers, AcceptWrite(h)
      PROVE  [Agreement!Next]_(Agreement!avars)
  <2>1. RequestOK(h)
    BY DEF ProtocolInv, RequestInv
  <2>2. /\ request[h].sid \in Sessions
        /\ request[h].user \in Players(request[h].sid)
        /\ request[h].both =>
             Players(request[h].sid) \subseteq ready[request[h].sid] \cup {request[h].user}
    BY <1>1, <2>1 DEF AcceptWrite, At, RequestOK
  <2> QED
    BY <1>0, <1>1, <2>2, StartIsBegin, ReadyIsConsent DEF AcceptWrite, tables
<1>2. ASSUME NEW h \in Handlers, RejectCancel(h)
      PROVE  [Agreement!Next]_(Agreement!avars)
  <2>1. request[h].sid \in Sessions /\ status[request[h].sid] # "absent"
    BY <1>2 DEF ProtocolInv, RequestInv, RequestOK, RejectCancel, At
  <2> QED
    BY <1>0, <1>2, <2>1, CancelIsVoid DEF RejectCancel, tables
<1>3. ASSUME NEW h \in Handlers, EndComplete(h)
      PROVE  [Agreement!Next]_(Agreement!avars)
  <2>1. request[h].sid \in Sessions /\ started[request[h].sid]
    BY <1>3 DEF ProtocolInv, RequestInv, RequestOK, EndComplete, At
  <2> QED
    BY <1>0, <1>3, <2>1, CompleteIsFinish DEF EndComplete, tables
<1>4. CASE MatcherCreate
  <2>1. \A m \in matcher.plan : m[1] \in Users /\ m[2] \in Users /\ m[1] # m[2]
    BY DEF ProtocolInv, TypeOK, MatcherOK
  <2> QED
    BY <1>0, <1>4, <2>1, CreateIsPropose DEF MatcherCreate, tables
<1>5. CASE ExpirerCancel
  <2>1. \A s \in expirer.batch : s \in Sessions /\ status[s] # "absent"
    BY DEF ProtocolInv, TypeOK, ExpirerOK
  <2> QED
    BY <1>0, <1>5, <2>1, CancelIsVoid DEF ExpirerCancel, tables
<1>6. CASE MatcherRead \/ MatcherDequeue \/ MatcherNotify1 \/ MatcherNotify2
  BY <1>0, <1>6 DEF MatcherRead, MatcherDequeue, MatcherNotify1, MatcherNotify2, tables
<1>7. CASE ExpirerRead \/ ExpirerRequeue1 \/ ExpirerRequeue2 \/ ExpirerClear
  BY <1>0, <1>7 DEF ExpirerRead, ExpirerRequeue1, ExpirerRequeue2, ExpirerRequeue,
                    ExpirerClear, tables
<1>8. ASSUME NEW h \in Handlers, Arrive(h)
      PROVE  [Agreement!Next]_(Agreement!avars)
  BY <1>0, <1>8 DEF Arrive, JoinCheckSession, CheckRead, AcceptRead, RejectRead,
                    EndRead, tables
<1>9. ASSUME NEW h \in Handlers, Proceed(h)
      PROVE  [Agreement!Next]_(Agreement!avars)
  BY <1>0, <1>1, <1>2, <1>3, <1>9
     DEF Proceed, JoinCheckQueue, JoinInsert, CheckDelete, RejectRequeue, RejectClear,
         EndPay1, EndPay2, EndPay, tables
<1>10. CASE \/ \E u \in Users : LeaveQueue(u) \/ NoticeExpires(u)
            \/ \E s \in Sessions : DeadlinePasses(s)
            \/ Crash
            \/ UNCHANGED vars
  BY <1>0, <1>10 DEF LeaveQueue, NoticeExpires, DeadlinePasses, Crash, tables, vars
<1> QED
  BY <1>4, <1>5, <1>6, <1>7, <1>8, <1>9, <1>10 DEF Next, Matcher, Expirer

\* The accept, reject, expiry and end handlers keep the agreement between the
\* players of every match, for any number of users, sessions and requests.
THEOREM AgreementIsKept == Spec => AgreementKept
<1>1. Init => Agreement!Init
  BY DEF Init, Agreement!Init
<1>2. ProtocolInv /\ [Next]_vars => [Agreement!Next]_(Agreement!avars)
  BY StepIsAgreementStep
<1> QED
  BY <1>1, <1>2, ProtocolInvariant, PTL DEF Spec, AgreementKept, Agreement!Spec
=============================================================================
