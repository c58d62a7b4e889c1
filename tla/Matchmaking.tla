----------------------------- MODULE Matchmaking -----------------------------
(***************************************************************************)
(* The matchmaking service (services/matchmaking): the MySQL tables        *)
(* matchmaking_queue, game_sessions and the mmr column of users, the Redis *)
(* match:<user> notifications, and everything that changes them            *)
(* concurrently: HTTP handlers (one goroutine per request), the            *)
(* matchmaker loop and the expired-matches loop.                           *)
(*                                                                         *)
(* One step of the model is one SQL statement or one Redis command.  The   *)
(* service uses no transaction, so between two statements of a handler any *)
(* other handler or loop may run, a statement may fail, or the process may *)
(* crash and restart with the tables as they are.                          *)
(*                                                                         *)
(* Abstracted: MMR ranges and FIFO order (a tick may pick any disjoint     *)
(* pairs of queued players), bans and deck legality (they only make a join *)
(* or a pairing not happen), the write-only queue:<user> Redis keys.       *)
(***************************************************************************)
EXTENDS Integers, FiniteSets, FiniteSetsExt

CONSTANTS
  Users, Sessions,      \* user ids; the session ids that may be drawn
  Handlers,             \* request goroutines that may be active at once
  Results,              \* bound: the winners that end requests carry (or NoUser)
  Clients,              \* bound: the users whose requests a goroutine may serve
  NoUser, NoSession,    \* SQL NULL / absent key
  WinGain, LossDeduction,
  MaxFaults,            \* bound: statements that may fail in a behaviour
  MaxCrashes            \* bound: crashes of the service in a behaviour

ASSUME NullsAreNotIds == NoUser \notin Users /\ NoSession \notin Sessions
ASSUME RatingsAreInts == WinGain \in Int /\ LossDeduction \in Int
ASSUME InputsAreUsers ==
  Clients \in [Handlers -> SUBSET Users] /\ Results \subseteq Users \cup {NoUser}
ASSUME BoundsAreNats == MaxFaults \in Nat /\ MaxCrashes \in Nat

VARIABLES
  \* MySQL
  queue,      \* user_id of the rows of matchmaking_queue (UNIQUE)
  status,     \* game_sessions.status, "absent" when there is no such row
  player1, player2,
  ready,      \* the players whose playerN_ready is TRUE
  started,    \* started_at IS NOT NULL
  deadline,   \* match_expires_at: "open" (in the future), "passed", "null"
  winner,     \* winner_id
  mmr,        \* users.mmr, as the change since the start
  \* Redis
  notice,     \* match:<user>
  \* the service's goroutines
  request,    \* what each handler goroutine is doing
  matcher, expirer,
  faults, crashes

tables == <<status, player1, player2, ready, started, deadline, winner>>
budget == <<faults, crashes>>
vars == <<queue, tables, mmr, notice, request, matcher, expirer, budget>>

Status == {"absent", "waiting", "in_progress", "completed", "cancelled"}

Players(s) == {player1[s], player2[s]}
OngoingSession(u) ==
  \E s \in Sessions : status[s] \in {"waiting", "in_progress"} /\ u \in Players(s)

\* What one matchmaker tick may create: disjoint pairs of distinct queued players.
Pairings(S) ==
  {M \in SUBSET (S \X S) :
     /\ \A m \in M : m[1] # m[2]
     /\ \A m, n \in M : m # n => {m[1], m[2]} \cap {n[1], n[2]} = {}}

Works == UNCHANGED budget
Fails == faults < MaxFaults /\ faults' = faults + 1 /\ UNCHANGED crashes

----------------------------------------------------------------------------
(* Requests: where a handler goroutine stands and what it has read.        *)

Idle == [at |-> "idle", user |-> NoUser, sid |-> NoSession,
         both |-> FALSE, winner |-> NoUser]
Steps == {"idle", "joinCheckQueue", "joinInsert", "acceptWrite",
          "rejectCancel", "rejectRequeue", "rejectClear",
          "endPay1", "endPay2", "endComplete", "checkDelete"}
Request == [at : Steps, user : Users \cup {NoUser},
            sid : Sessions \cup {NoSession}, both : BOOLEAN,
            winner : Users \cup {NoUser}]
MatcherIdle == [at |-> "idle", plan |-> {}, sid |-> NoSession]
ExpirerIdle == [at |-> "idle", batch |-> {}, sid |-> NoSession]

TypeOK ==
  /\ queue \in SUBSET Users
  /\ status \in [Sessions -> Status]
  /\ player1 \in [Sessions -> Users \cup {NoUser}]
  /\ player2 \in [Sessions -> Users \cup {NoUser}]
  /\ ready \in [Sessions -> SUBSET Users]
  /\ started \in [Sessions -> BOOLEAN]
  /\ deadline \in [Sessions -> {"open", "passed", "null"}]
  /\ winner \in [Sessions -> Users \cup {NoUser}]
  /\ mmr \in [Users -> Int]
  /\ notice \in [Users -> Sessions \cup {NoSession}]
  /\ request \in [Handlers -> Request]
  /\ matcher \in [at : {"idle", "create", "dequeue", "notify1", "notify2"},
                  plan : SUBSET (Users \X Users),
                  sid : Sessions \cup {NoSession}]
  /\ expirer \in [at : {"idle", "cancel", "requeue1", "requeue2", "clear"},
                  batch : SUBSET Sessions, sid : Sessions \cup {NoSession}]
  /\ faults \in 0..MaxFaults
  /\ crashes \in 0..MaxCrashes

Init ==
  /\ queue = {}
  /\ status = [s \in Sessions |-> "absent"]
  /\ player1 = [s \in Sessions |-> NoUser]
  /\ player2 = [s \in Sessions |-> NoUser]
  /\ ready = [s \in Sessions |-> {}]
  /\ started = [s \in Sessions |-> FALSE]
  /\ deadline = [s \in Sessions |-> "null"]
  /\ winner = [s \in Sessions |-> NoUser]
  /\ mmr = [u \in Users |-> 0]
  /\ notice = [u \in Users |-> NoSession]
  /\ request = [h \in Handlers |-> Idle]
  /\ matcher = MatcherIdle
  /\ expirer = ExpirerIdle
  /\ faults = 0
  /\ crashes = 0

At(h, step) == request[h].at = step
Goto(h, step) == request' = [request EXCEPT ![h].at = step]
Return(h) == request' = [request EXCEPT ![h] = Idle]
Serve(h, step, u, s) ==
  request' = [request EXCEPT
    ![h] = [at |-> step, user |-> u, sid |-> s, both |-> FALSE, winner |-> NoUser]]

----------------------------------------------------------------------------
(* POST /matchmaking/queue and its DELETE.                                 *)

\* handleJoinQueue reads whether the user has an ongoing session.  Only a
\* row found stops the join: an error of the query lets it go on.
JoinCheckSession(h, u) ==
  /\ At(h, "idle")
  /\ \/ ~OngoingSession(u) /\ Works
     \/ Fails
  /\ Serve(h, "joinCheckQueue", u, NoSession)
  /\ UNCHANGED <<queue, tables, mmr, notice, matcher, expirer>>

\* ... then whether it is queued already (again, only a row found stops it) ...
JoinCheckQueue(h) ==
  /\ At(h, "joinCheckQueue")
  /\ \/ request[h].user \in queue /\ Works /\ Return(h)
     \/ request[h].user \notin queue /\ Works /\ Goto(h, "joinInsert")
     \/ Fails /\ Goto(h, "joinInsert")
  /\ UNCHANGED <<queue, tables, mmr, notice, matcher, expirer>>

\* ... and inserts the row.  UNIQUE(user_id) turns a second insert into an error.
JoinInsert(h) ==
  /\ At(h, "joinInsert")
  /\ \/ Works /\ queue' = queue \cup {request[h].user}
     \/ Fails /\ UNCHANGED queue
  /\ Return(h)
  /\ UNCHANGED <<tables, mmr, notice, matcher, expirer>>

\* handleLeaveQueue is one DELETE; its failure changes nothing.
LeaveQueue(u) ==
  /\ u \in queue
  /\ queue' = queue \ {u}
  /\ UNCHANGED <<tables, mmr, notice, request, matcher, expirer, budget>>

----------------------------------------------------------------------------
(* GET /matchmaking/match: GET then DEL of the notification.               *)

CheckRead(h, u) ==
  /\ At(h, "idle")
  /\ notice[u] # NoSession
  /\ Serve(h, "checkDelete", u, notice[u])
  /\ UNCHANGED <<queue, tables, mmr, notice, matcher, expirer, budget>>

\* The DEL removes whatever the key holds by now; its error is ignored.
CheckDelete(h) ==
  LET u == request[h].user IN
  /\ At(h, "checkDelete")
  /\ \/ Works /\ notice' = [notice EXCEPT ![u] = NoSession]
     \/ Fails /\ UNCHANGED notice
  /\ Return(h)
  /\ UNCHANGED <<queue, tables, mmr, matcher, expirer>>

----------------------------------------------------------------------------
(* POST /matchmaking/match/accept                                          *)

\* handleAcceptMatch reads the row, refuses unless it is waiting and the
\* user plays in it, and decides from what it read whether both are ready.
AcceptRead(h, u, s) ==
  /\ At(h, "idle")
  /\ status[s] = "waiting"
  /\ u \in Players(s)
  /\ request' = [request EXCEPT
       ![h] = [at |-> "acceptWrite", user |-> u, sid |-> s,
               both |-> (Players(s) \subseteq ready[s] \cup {u}),
               winner |-> NoUser]]
  /\ UNCHANGED <<queue, tables, mmr, notice, matcher, expirer, budget>>

\* Deviation: the UPDATE without AND status = 'waiting'.
StartGameSessionUnguarded(s) ==
  /\ ready' = [ready EXCEPT ![s] = Players(s)]
  /\ status' = [status EXCEPT ![s] = "in_progress"]
  /\ started' = [started EXCEPT ![s] = TRUE]
  /\ deadline' = [deadline EXCEPT ![s] = "null"]
  /\ UNCHANGED <<player1, player2, winner>>

\* StartGameSession: UPDATE ... WHERE status = 'waiting'.
StartGameSession(s) ==
  /\ status[s] = "waiting"
  /\ ready' = [ready EXCEPT ![s] = Players(s)]
  /\ status' = [status EXCEPT ![s] = "in_progress"]
  /\ started' = [started EXCEPT ![s] = TRUE]
  /\ deadline' = [deadline EXCEPT ![s] = "null"]
  /\ UNCHANGED <<player1, player2, winner>>

\* Deviation: the first accept already clears match_expires_at.
SetPlayerReadyClearingDeadline(s, u) ==
  /\ status[s] = "waiting"
  /\ ready' = [ready EXCEPT ![s] = @ \cup {u}]
  /\ deadline' = [deadline EXCEPT ![s] = "null"]
  /\ UNCHANGED <<status, player1, player2, started, winner>>

\* SetPlayer1Ready, SetPlayer2Ready: UPDATE ... WHERE status = 'waiting'.
SetPlayerReady(s, u) ==
  /\ status[s] = "waiting"
  /\ ready' = [ready EXCEPT ![s] = @ \cup {u}]
  /\ UNCHANGED <<status, player1, player2, started, deadline, winner>>

\* The UPDATE the handler chose; it may find the session no longer waiting.
AcceptWrite(h) ==
  LET s == request[h].sid IN
  /\ At(h, "acceptWrite")
  /\ \/ Works /\ request[h].both /\ StartGameSession(s)
     \/ Works /\ ~request[h].both /\ SetPlayerReady(s, request[h].user)
     \/ Works /\ status[s] # "waiting" /\ UNCHANGED tables
     \/ Fails /\ UNCHANGED tables
  /\ Return(h)
  /\ UNCHANGED <<queue, mmr, notice, matcher, expirer>>

----------------------------------------------------------------------------
(* POST /matchmaking/match/reject                                          *)

RejectRead(h, u, s) ==
  /\ At(h, "idle")
  /\ status[s] = "waiting"
  /\ u \in Players(s)
  /\ Serve(h, "rejectCancel", u, s)
  /\ UNCHANGED <<queue, tables, mmr, notice, matcher, expirer, budget>>

\* CancelGameSession: UPDATE ... SET status = 'cancelled', whatever it was.
CancelGameSession(s) ==
  /\ status' = [status EXCEPT ![s] = "cancelled"]
  /\ UNCHANGED <<player1, player2, ready, started, deadline, winner>>

RejectCancel(h) ==
  /\ At(h, "rejectCancel")
  /\ \/ Works /\ CancelGameSession(request[h].sid) /\ Goto(h, "rejectRequeue")
     \/ Fails /\ UNCHANGED tables /\ Return(h)
  /\ UNCHANGED <<queue, mmr, notice, matcher, expirer>>

\* Deviation: the rejecting player is put back instead of the other one.
RejectRequeueRejecter(h) ==
  /\ At(h, "rejectRequeue")
  /\ \/ Works /\ queue' = queue \cup {request[h].user}
     \/ Fails /\ UNCHANGED queue
  /\ Goto(h, "rejectClear")
  /\ UNCHANGED <<tables, mmr, notice, matcher, expirer>>

\* The player who did not reject goes back to the queue; an error is logged.
RejectRequeue(h) ==
  /\ At(h, "rejectRequeue")
  /\ \/ Works /\ queue' = queue \cup (Players(request[h].sid) \ {request[h].user})
     \/ Fails /\ UNCHANGED queue
  /\ Goto(h, "rejectClear")
  /\ UNCHANGED <<tables, mmr, notice, matcher, expirer>>

\* The DELs of the two notifications; the errors are ignored.
ClearNotices(s) ==
  \E kept \in SUBSET Players(s) :
    /\ IF kept = {} THEN Works ELSE Fails
    /\ notice' = [u \in Users |-> IF u \in Players(s) \ kept THEN NoSession ELSE notice[u]]

RejectClear(h) ==
  /\ At(h, "rejectClear")
  /\ ClearNotices(request[h].sid)
  /\ Return(h)
  /\ UNCHANGED <<queue, tables, mmr, matcher, expirer>>

----------------------------------------------------------------------------
(* POST /matchmaking/sessions/end                                          *)

\* Deviation: GetSessionForEndGame without AND gs.status = 'in_progress'.
EndReadAnyStatus(h, s, w) ==
  /\ At(h, "idle")
  /\ status[s] # "absent"
  /\ w \in Players(s) \cup {NoUser}
  /\ request' = [request EXCEPT
       ![h] = [at |-> IF w = NoUser THEN "endComplete" ELSE "endPay1",
               user |-> NoUser, sid |-> s, both |-> FALSE, winner |-> w]]
  /\ UNCHANGED <<queue, tables, mmr, notice, matcher, expirer, budget>>

\* handleEndGame reads the session only if it is in progress; the winner is
\* one of its players, or absent.
EndRead(h, s, w) ==
  /\ At(h, "idle")
  /\ status[s] = "in_progress"
  /\ w \in Players(s) \cup {NoUser}
  /\ request' = [request EXCEPT
       ![h] = [at |-> IF w = NoUser THEN "endComplete" ELSE "endPay1",
               user |-> NoUser, sid |-> s, both |-> FALSE, winner |-> w]]
  /\ UNCHANGED <<queue, tables, mmr, notice, matcher, expirer, budget>>

MmrChange(u, w) ==
  CASE w = NoUser -> 0 [] w = u -> WinGain [] OTHER -> -LossDeduction

\* UpdateUserMMR of one player; the error is ignored.
EndPay(h, step, next, u) ==
  /\ At(h, step)
  /\ \/ Works /\ mmr' = [mmr EXCEPT ![u] = @ + MmrChange(u, request[h].winner)]
     \/ Fails /\ UNCHANGED mmr
  /\ Goto(h, next)
  /\ UNCHANGED <<queue, tables, notice, matcher, expirer>>

EndPay1(h) == EndPay(h, "endPay1", "endPay2", player1[request[h].sid])
EndPay2(h) == EndPay(h, "endPay2", "endComplete", player2[request[h].sid])

\* CompleteGameSession has no status guard either.
EndComplete(h) ==
  LET s == request[h].sid IN
  /\ At(h, "endComplete")
  /\ \/ /\ Works
        /\ status' = [status EXCEPT ![s] = "completed"]
        /\ winner' = [winner EXCEPT ![s] = request[h].winner]
        /\ UNCHANGED <<player1, player2, ready, started, deadline>>
     \/ Fails /\ UNCHANGED tables
  /\ Return(h)
  /\ UNCHANGED <<queue, mmr, notice, matcher, expirer>>

----------------------------------------------------------------------------
(* matchmakerLoop: findMatches and, for each pair, createGameSession.      *)

\* GetActiveQueue and computeMatches.  The guard on fresh ids bounds the model.
MatcherRead ==
  /\ matcher.at = "idle"
  /\ \E M \in Pairings(queue) \ {{}} :
       /\ Cardinality(M) <= Cardinality({s \in Sessions : status[s] = "absent"})
       /\ matcher' = [at |-> "create", plan |-> M, sid |-> NoSession]
  /\ UNCHANGED <<queue, tables, mmr, notice, request, expirer, budget>>

\* On to the next pair of the plan, or done until the next tick.
MatcherNext(plan) ==
  matcher' = IF plan = {} THEN MatcherIdle
             ELSE [at |-> "create", plan |-> plan, sid |-> NoSession]

CreateGameSession(s, p, q) ==
  /\ status[s] = "absent"
  /\ status' = [status EXCEPT ![s] = "waiting"]
  /\ player1' = [player1 EXCEPT ![s] = p]
  /\ player2' = [player2 EXCEPT ![s] = q]
  /\ deadline' = [deadline EXCEPT ![s] = "open"]
  /\ UNCHANGED <<ready, started, winner>>

MatcherCreate ==
  /\ matcher.at = "create"
  /\ \E m \in matcher.plan :
       \/ \E s \in Sessions :
            /\ Works
            /\ CreateGameSession(s, m[1], m[2])
            /\ matcher' = [at |-> "dequeue", plan |-> matcher.plan \ {m}, sid |-> s]
       \/ Fails /\ MatcherNext(matcher.plan \ {m}) /\ UNCHANGED tables
  /\ UNCHANGED <<queue, mmr, notice, request, expirer>>

\* DeleteFromQueueByUsers; the error is ignored.
MatcherDequeue ==
  /\ matcher.at = "dequeue"
  /\ \/ Works /\ queue' = queue \ Players(matcher.sid)
     \/ Fails /\ UNCHANGED queue
  /\ matcher' = [matcher EXCEPT !.at = "notify1"]
  /\ UNCHANGED <<tables, mmr, notice, request, expirer>>

Notify(u, s) ==
  \/ Works /\ notice' = [notice EXCEPT ![u] = s]
  \/ Fails /\ UNCHANGED notice

MatcherNotify1 ==
  /\ matcher.at = "notify1"
  /\ Notify(player1[matcher.sid], matcher.sid)
  /\ matcher' = [matcher EXCEPT !.at = "notify2"]
  /\ UNCHANGED <<queue, tables, mmr, request, expirer>>

MatcherNotify2 ==
  /\ matcher.at = "notify2"
  /\ Notify(player2[matcher.sid], matcher.sid)
  /\ MatcherNext(matcher.plan)
  /\ UNCHANGED <<queue, tables, mmr, request, expirer>>

----------------------------------------------------------------------------
(* expiredMatchesLoop: handleExpiredMatches.                               *)

ExpiredWaiting == {s \in Sessions : status[s] = "waiting" /\ deadline[s] = "passed"}

ExpirerRead ==
  /\ expirer.at = "idle"
  /\ ExpiredWaiting # {}
  /\ expirer' = [at |-> "cancel", batch |-> ExpiredWaiting, sid |-> NoSession]
  /\ UNCHANGED <<queue, tables, mmr, notice, request, matcher, budget>>

ExpirerNext(batch) ==
  expirer' = IF batch = {} THEN ExpirerIdle
             ELSE [at |-> "cancel", batch |-> batch, sid |-> NoSession]

ExpirerCancel ==
  /\ expirer.at = "cancel"
  /\ \E s \in expirer.batch :
       \/ /\ Works
          /\ CancelGameSession(s)
          /\ expirer' = [at |-> "requeue1", batch |-> expirer.batch \ {s}, sid |-> s]
       \/ Fails /\ ExpirerNext(expirer.batch \ {s}) /\ UNCHANGED tables
  /\ UNCHANGED <<queue, mmr, notice, request, matcher>>

\* RequeuePlayer: INSERT ... ON DUPLICATE KEY UPDATE; the error is ignored.
ExpirerRequeue(step, next, u) ==
  /\ expirer.at = step
  /\ \/ Works /\ queue' = queue \cup {u}
     \/ Fails /\ UNCHANGED queue
  /\ expirer' = [expirer EXCEPT !.at = next]
  /\ UNCHANGED <<tables, mmr, notice, request, matcher>>

ExpirerRequeue1 == ExpirerRequeue("requeue1", "requeue2", player1[expirer.sid])
ExpirerRequeue2 == ExpirerRequeue("requeue2", "clear", player2[expirer.sid])

ExpirerClear ==
  /\ expirer.at = "clear"
  /\ ClearNotices(expirer.sid)
  /\ ExpirerNext(expirer.batch)
  /\ UNCHANGED <<queue, tables, mmr, request, matcher>>

----------------------------------------------------------------------------
(* Time and crashes.                                                       *)

\* matchAcceptTimeout (30 s) runs out.
DeadlinePasses(s) ==
  /\ status[s] = "waiting"
  /\ deadline[s] = "open"
  /\ deadline' = [deadline EXCEPT ![s] = "passed"]
  /\ UNCHANGED <<queue, status, player1, player2, ready, started, winner, mmr,
                 notice, request, matcher, expirer, budget>>

\* The five minutes of a match:<user> key run out.
NoticeExpires(u) ==
  /\ notice[u] # NoSession
  /\ notice' = [notice EXCEPT ![u] = NoSession]
  /\ UNCHANGED <<queue, tables, mmr, request, matcher, expirer, budget>>

\* The process dies and is restarted: goroutines are gone, the tables stay.
Crash ==
  /\ crashes < MaxCrashes
  /\ crashes' = crashes + 1
  /\ request' = [h \in Handlers |-> Idle]
  /\ matcher' = MatcherIdle
  /\ expirer' = ExpirerIdle
  /\ UNCHANGED <<queue, tables, mmr, notice, faults>>

----------------------------------------------------------------------------
\* A request starts.
Arrive(h) ==
  \/ \E u \in Clients[h] : JoinCheckSession(h, u) \/ CheckRead(h, u)
  \/ \E u \in Clients[h], s \in Sessions : AcceptRead(h, u, s) \/ RejectRead(h, u, s)
  \/ \E s \in Sessions, w \in Results : EndRead(h, s, w)

\* A request under way takes its next statement.
Proceed(h) ==
  \/ JoinCheckQueue(h) \/ JoinInsert(h)
  \/ CheckDelete(h)
  \/ AcceptWrite(h)
  \/ RejectCancel(h) \/ RejectRequeue(h) \/ RejectClear(h)
  \/ EndPay1(h) \/ EndPay2(h) \/ EndComplete(h)

Matcher == MatcherRead \/ MatcherCreate \/ MatcherDequeue
           \/ MatcherNotify1 \/ MatcherNotify2
Expirer == ExpirerRead \/ ExpirerCancel \/ ExpirerRequeue1
           \/ ExpirerRequeue2 \/ ExpirerClear

Next ==
  \/ \E h \in Handlers : Arrive(h) \/ Proceed(h)
  \/ \E u \in Users : LeaveQueue(u) \/ NoticeExpires(u)
  \/ Matcher
  \/ Expirer
  \/ \E s \in Sessions : DeadlinePasses(s)
  \/ Crash

Spec == Init /\ [][Next]_vars

\* A handler that has started runs to its end, the ticker of the expired-matches
\* loop runs for ever, and time passes.  Clients owe nothing, and no property
\* needs the fairness of the matchmaker's ticker.
Fairness ==
  /\ \A h \in Handlers : WF_vars(Proceed(h))
  /\ WF_vars(Expirer)
  /\ \A s \in Sessions : WF_vars(DeadlinePasses(s))

FairSpec == Spec /\ Fairness
----------------------------------------------------------------------------
(* The inductive invariant.                                                *)

\* A row has two different players; only they can be ready; a session that
\* waits has not started and one that is played or completed has.
RowOK(s) ==
  IF status[s] = "absent"
  THEN ready[s] = {} /\ ~started[s]
  ELSE /\ player1[s] \in Users /\ player2[s] \in Users
       /\ player1[s] # player2[s]
       /\ ready[s] \subseteq Players(s)
       /\ status[s] = "waiting" => ~started[s]
       /\ status[s] \in {"in_progress", "completed"} => started[s]

\* What a handler has read is still true where no UPDATE checks it again:
\* the other player's ready flag of an accept that found both ready (flags
\* are never cleared), and that the game of an end request has started.
RequestOK(h) ==
  LET r == request[h] IN
  /\ r.at \in {"joinCheckQueue", "joinInsert", "checkDelete"} => r.user \in Users
  /\ r.at = "checkDelete" => r.sid \in Sessions
  /\ r.at \in {"acceptWrite", "rejectCancel", "rejectRequeue", "rejectClear"}
       => /\ r.sid \in Sessions
          /\ status[r.sid] # "absent"
          /\ r.user \in Players(r.sid)
  /\ r.at = "acceptWrite" /\ r.both
       => Players(r.sid) \subseteq ready[r.sid] \cup {r.user}
  /\ r.at \in {"endPay1", "endPay2", "endComplete"}
       => /\ r.sid \in Sessions
          /\ started[r.sid]
          /\ r.winner \in Players(r.sid) \cup {NoUser}

\* The loops work on rows that exist, and on pairs of different players.
MatcherOK ==
  /\ \A m \in matcher.plan : m[1] # m[2]
  /\ matcher.at \in {"dequeue", "notify1", "notify2"}
       => matcher.sid \in Sessions /\ status[matcher.sid] # "absent"
ExpirerOK ==
  /\ \A s \in expirer.batch : status[s] # "absent"
  /\ expirer.at \in {"requeue1", "requeue2", "clear"}
       => expirer.sid \in Sessions /\ status[expirer.sid] # "absent"

RowInv == \A s \in Sessions : RowOK(s)
RequestInv == \A h \in Handlers : RequestOK(h)

\* Whatever a handler or a loop read before the statement it is about to
\* execute still justifies that statement, although other handlers, failed
\* statements and crashes came in between.
ProtocolInv == TypeOK /\ RowInv /\ RequestInv /\ MatcherOK /\ ExpirerOK

----------------------------------------------------------------------------
(* Properties.                                                             *)

Agreement == INSTANCE MatchAgreement WITH
  phase <- status,
  parties <- [s \in Sessions |-> IF status[s] = "absent" THEN {} ELSE Players(s)],
  consent <- ready,
  begun <- started

\* The accept, reject, expiry and end handlers together implement the
\* agreement between the two players: however their unguarded reads and
\* writes interleave, fail or are cut by a crash, a game starts only in a
\* waiting session that both of its players accepted, only a started game is
\* completed, and nothing that is over starts again.
AgreementKept == Agreement!Spec

\* A match nobody answers, or that both players accepted at the same time, or
\* whose handlers died in a crash, does not wait for ever: its 30 s run out
\* and a tick of the expired-matches loop cancels it, unless it starts first.
WaitingIsResolved ==
  \A s \in Sessions : []<>(status[s] # "waiting")

\* A matched player is not lost: unless the service crashes or a statement
\* fails, a player of a waiting session gets the game, or is back in the
\* queue (the other one rejected, or the 30 s ran out), or is rejecting it.
NoPlayerStranded ==
  \A s \in Sessions, u \in Users :
    (status[s] = "waiting" /\ u \in Players(s))
      ~> \/ started[s]
         \/ u \in queue
         \/ crashes + faults > 0
         \/ \E h \in Handlers :
              At(h, "rejectCancel") /\ request[h].user = u /\ request[h].sid = s

\* What the sessions table and the end requests under way account for.
Recorded(u) ==
  MapThenSumSet(
    LAMBDA s : IF u \in Players(s) THEN MmrChange(u, winner[s]) ELSE 0, Sessions)
PaidInFlight(u) ==
  MapThenSumSet(
    LAMBDA h : IF \/ At(h, "endPay2") /\ u = player1[request[h].sid]
                  \/ At(h, "endComplete") /\ u \in Players(request[h].sid)
               THEN MmrChange(u, request[h].winner) ELSE 0,
    Handlers)

\* The rating of every player is the sum of the changes the sessions table
\* records for it: each finished game is paid exactly once.
MmrLedger == \A u \in Users : mmr[u] = Recorded(u) + PaidInFlight(u)
=============================================================================
