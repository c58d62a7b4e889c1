----------------------------- MODULE GameSession -----------------------------
(***************************************************************************)
(* One game session of the gameplay service (services/gameplay): the game  *)
(* loop that processes a bounded event queue once per tick, the round      *)
(* timer whose callbacks run in goroutines of their own, and the           *)
(* goroutines of the players' WebSocket connections.                       *)
(*                                                                         *)
(* All of them only share the event queue and the fields of RoundTimer     *)
(* (behind its mutex); the game state belongs to the loop.  A step is one  *)
(* critical section or one handled event.                                  *)
(*                                                                         *)
(* Abstracted: the cards (a card action may succeed, fail or kill a        *)
(* leader whenever the phase allows it), the messages sent back to the     *)
(* clients, the round number (the elixir cap follows it up to its bound).  *)
(* IsConnected is left out: no code ever sets it to true, so a disconnect  *)
(* event only makes the next tick broadcast.                               *)
(***************************************************************************)
EXTENDS Integers, Sequences

CONSTANTS
  QueueSize,       \* capacity of GameLoop.events (64)
  StaleTicks,      \* ticks a client may lag behind (8)
  StartingElixirCap, MaxElixir,
  MaxConnections,  \* bound: WebSocket connections a player opens
  MaxRequests      \* bound: messages sent by the clients

ASSUME QueueIsBounded == QueueSize \in Nat \ {0}
ASSUME LagIsNat == StaleTicks \in Nat
ASSUME CapsAreNats ==
  StartingElixirCap \in Nat /\ MaxElixir \in Nat /\ StartingElixirCap <= MaxElixir
ASSUME BoundsAreNats == MaxConnections \in Nat /\ MaxRequests \in Nat

VARIABLES
  phase, winner,   \* State.Phase, State.WinnerID (0: none)
  dead,            \* the players whose leader has no health left
  elixirCap,
  seq,             \* PlayerNSequenceNumber
  tick, dirty,     \* tickCount (up to TickTop), dirty
  events,          \* the queue of the loop
  armed,           \* the kind of RoundTimer.timer while it runs, "none"
  stopped,         \* RoundTimer.stopped
  fired, posting,  \* the kind of the timer callback that is before, after its
                   \* critical section, "none"
  opened, open,    \* connections a player opened, and those still open
  greeting,        \* handleWebSocket goroutines that still owe their JOIN_GAME
  requests,
  missed           \* a timer event or a JOIN_GAME was dropped, or a JOIN_GAME
                   \* refused that should have started the pre-turn timer

loop == <<phase, winner, dead, elixirCap, seq, tick, dirty>>
timer == <<armed, stopped, fired, posting>>
conns == <<opened, open, greeting, requests>>
vars == <<loop, events, timer, conns, missed>>

Players == {1, 2}
Opponent(p) == 3 - p
Phases == {"WAITING_FOR_PLAYERS", "PRE_TURN", "ACTIVE", "GAME_OVER"}
Timers == {"PreTurnEnd", "RoundEnd"}   \* named for the event they queue
Actions == {"JOIN_GAME", "RECONNECT", "SURRENDER", "CARD_PLACED", "SELECT_CARD"}

\* tickCount is only ever compared with sequence numbers; beyond TickTop every
\* number a player can have is stale, so the model stops counting there.
TickTop == StaleTicks + MaxConnections + MaxRequests + 1
CountTick(n) == IF n < TickTop THEN n + 1 ELSE n

Event ==
  [type : Timers]
    \cup [type : {"Disconnect"}, player : Players]
    \cup [type : {"Action"}, player : Players, action : Actions, seq : Nat]

TypeOK ==
  /\ phase \in Phases
  /\ winner \in Players \cup {0}
  /\ dead \in SUBSET Players
  /\ elixirCap \in StartingElixirCap..MaxElixir
  /\ seq \in [Players -> Nat]
  /\ tick \in 0..TickTop
  /\ dirty \in BOOLEAN
  /\ events \in Seq(Event)
  /\ armed \in Timers \cup {"none"}
  /\ stopped \in BOOLEAN
  /\ fired \in Timers \cup {"none"} /\ posting \in Timers \cup {"none"}
  /\ opened \in [Players -> 0..MaxConnections]
  /\ open \in [Players -> Nat] /\ greeting \in [Players -> Nat]
  /\ requests \in 0..MaxRequests
  /\ missed \in BOOLEAN

\* NewGameSession: the loop runs, the timer was never started.
Init ==
  /\ phase = "WAITING_FOR_PLAYERS" /\ winner = 0 /\ dead = {}
  /\ elixirCap = StartingElixirCap
  /\ seq = [p \in Players |-> 0]
  /\ tick = 0 /\ dirty = FALSE
  /\ events = <<>>
  /\ armed = "none" /\ stopped = TRUE
  /\ fired = "none" /\ posting = "none"
  /\ opened = [p \in Players |-> 0] /\ open = [p \in Players |-> 0]
  /\ greeting = [p \in Players |-> 0]
  /\ requests = 0
  /\ missed = FALSE

----------------------------------------------------------------------------
(* The queue and the timer.                                                *)

StartsPreTurn(e) == e.type = "Action" /\ e.action = "JOIN_GAME"
IsTimerEvent(e) == e.type \in Timers

\* A non-blocking send: a full queue drops the event.
QueueEvent(e) ==
  IF Len(events) < QueueSize
  THEN events' = Append(events, e) /\ UNCHANGED missed
  ELSE UNCHANGED events /\ missed' = (missed \/ IsTimerEvent(e) \/ StartsPreTurn(e))

\* Deviation: stopped stays set from the last callback.
StartTimerStopped(kind) == armed' = kind /\ UNCHANGED <<stopped, fired, posting>>

\* RoundTimer.StartPreTurn and StartRound: Stop does not wait for a callback
\* of the old timer that is already running.
StartTimer(kind) ==
  /\ armed' = kind
  /\ stopped' = FALSE
  /\ UNCHANGED <<fired, posting>>

\* RoundTimer.Stop
StopTimer ==
  /\ armed' = "none"
  /\ stopped' = TRUE
  /\ UNCHANGED <<fired, posting>>

\* The duration has elapsed: the runtime starts the callback.  A duration (10 s,
\* 30 s) outlasts the callback of an earlier timer and the ticks (0.25 s) in
\* which the loop handles its event.
TimerFires ==
  /\ armed # "none"
  /\ fired = "none" /\ posting = "none"
  /\ \A i \in 1..Len(events) : ~IsTimerEvent(events[i])
  /\ fired' = armed
  /\ armed' = "none"
  /\ UNCHANGED <<loop, events, stopped, posting, conns, missed>>

\* The callback's critical section: nothing to do once stopped is set.
CallbackLocks ==
  /\ fired # "none"
  /\ fired' = "none"
  /\ posting' = IF stopped THEN "none" ELSE fired
  /\ stopped' = TRUE
  /\ UNCHANGED <<loop, events, armed, conns, missed>>

CallbackPosts ==
  /\ posting # "none"
  /\ posting' = "none"
  /\ QueueEvent([type |-> posting])
  /\ UNCHANGED <<loop, armed, stopped, fired, conns>>

----------------------------------------------------------------------------
(* The connections.                                                        *)

\* handleWebSocket up to the start of the pumps.
Connect(p) ==
  /\ opened[p] < MaxConnections
  /\ opened' = [opened EXCEPT ![p] = @ + 1]
  /\ open' = [open EXCEPT ![p] = @ + 1]
  /\ greeting' = [greeting EXCEPT ![p] = @ + 1]
  /\ UNCHANGED <<loop, events, timer, requests, missed>>

\* ... and its ProcessAction with the automatic JOIN_GAME.
Greet(p) ==
  /\ greeting[p] > 0
  /\ greeting' = [greeting EXCEPT ![p] = @ - 1]
  /\ QueueEvent([type |-> "Action", player |-> p, action |-> "JOIN_GAME",
                 seq |-> seq[p]])
  /\ UNCHANGED <<loop, timer, opened, open, requests>>

\* ReadPump queues a message; the client claims any tick, recent or old.
ClientSends(p, action, n) ==
  /\ open[p] > 0
  /\ requests < MaxRequests
  /\ requests' = requests + 1
  /\ QueueEvent([type |-> "Action", player |-> p, action |-> action, seq |-> n])
  /\ UNCHANGED <<loop, timer, opened, open, greeting>>

\* PlayerConnection.Close, whichever pump calls it first.
Disconnect(p) ==
  /\ open[p] > 0
  /\ open' = [open EXCEPT ![p] = @ - 1]
  /\ QueueEvent([type |-> "Disconnect", player |-> p])
  /\ UNCHANGED <<loop, timer, opened, greeting, requests>>

----------------------------------------------------------------------------
(* The game loop.                                                          *)

\* drainEvents takes the next event, if it is of this type.
Takes(type) ==
  /\ events # <<>>
  /\ Head(events).type = type
  /\ events' = Tail(events)

Stale(e) == tick > StaleTicks /\ e.seq < tick - StaleTicks

\* handleClientAction with an action that is refused or fails: only an error
\* message is sent, which is no trace here except for a JOIN_GAME.
Refuse(e) ==
  /\ missed' = (missed \/ (StartsPreTurn(e) /\ phase \in {"WAITING_FOR_PLAYERS", "PRE_TURN"}))
  /\ UNCHANGED <<loop, timer>>

\* Deviation: a join starts the pre-turn timer in every phase.
JoinGameAnyPhase(e) ==
  /\ phase' = IF phase = "WAITING_FOR_PLAYERS" THEN "PRE_TURN" ELSE phase
  /\ seq' = [seq EXCEPT ![e.player] = @ + 1]
  /\ dirty' = TRUE
  /\ IF e.action = "JOIN_GAME" THEN StartTimer("PreTurnEnd") ELSE UNCHANGED timer
  /\ UNCHANGED <<winner, dead, elixirCap, tick, missed>>

\* HandleJoinGame, also called for RECONNECT, and what the loop adds for a
\* JOIN_GAME that finds or puts the game in the pre-turn.
JoinGame(e) ==
  /\ phase' = IF phase = "WAITING_FOR_PLAYERS" THEN "PRE_TURN" ELSE phase
  /\ seq' = [seq EXCEPT ![e.player] = @ + 1]
  /\ dirty' = TRUE
  /\ IF e.action = "JOIN_GAME" /\ phase' = "PRE_TURN"
     THEN StartTimer("PreTurnEnd")
     ELSE UNCHANGED timer
  /\ UNCHANGED <<winner, dead, elixirCap, tick, missed>>

\* HandleSurrender: in any phase, and the timer keeps running.
Surrender(e) ==
  /\ phase' = "GAME_OVER"
  /\ winner' = Opponent(e.player)
  /\ seq' = [seq EXCEPT ![e.player] = @ + 1]
  /\ dirty' = TRUE
  /\ UNCHANGED <<dead, elixirCap, tick, timer, missed>>

\* CARD_PLACED and SELECT_CARD succeed only in their phase; a summon effect
\* may kill leaders.
UseCard(e, killed) ==
  /\ \/ e.action = "CARD_PLACED" /\ phase = "ACTIVE"
     \/ e.action = "SELECT_CARD" /\ phase = "PRE_TURN" /\ killed = {}
  /\ dead' = dead \cup killed
  /\ dirty' = TRUE
  /\ UNCHANGED <<phase, winner, elixirCap, seq, tick, timer, missed>>

HandleClientAction ==
  /\ Takes("Action")
  /\ UNCHANGED conns
  /\ LET e == Head(events) IN
     \/ Stale(e) /\ Refuse(e)
     \/ ~Stale(e) /\ e.action \in {"JOIN_GAME", "RECONNECT"} /\ JoinGame(e)
     \/ ~Stale(e) /\ e.action = "SURRENDER" /\ Surrender(e)
     \/ ~Stale(e) /\ \E killed \in SUBSET Players : UseCard(e, killed)
     \/ ~Stale(e) /\ e.action \in {"CARD_PLACED", "SELECT_CARD"} /\ Refuse(e)

\* Deviation: without the check of the phase.
HandlePreTurnEndUnguarded ==
  /\ Takes("PreTurnEnd")
  /\ phase' = "ACTIVE" /\ dirty' = TRUE /\ StartTimer("RoundEnd")
  /\ UNCHANGED <<winner, dead, elixirCap, seq, tick, conns, missed>>

\* handlePreTurnEnd and StartRound, unless the game is over.
HandlePreTurnEnd ==
  /\ Takes("PreTurnEnd")
  /\ IF phase = "GAME_OVER"
     THEN UNCHANGED <<phase, dirty, timer>>
     ELSE phase' = "ACTIVE" /\ dirty' = TRUE /\ StartTimer("RoundEnd")
  /\ UNCHANGED <<winner, dead, elixirCap, seq, tick, conns, missed>>

\* Deviation: the pre-turn is entered but its timer is not started.
HandleRoundEndNoTimer ==
  /\ Takes("RoundEnd")
  /\ IF phase = "GAME_OVER"
     THEN UNCHANGED <<phase, elixirCap, dirty>>
     ELSE /\ elixirCap' = IF elixirCap < MaxElixir THEN elixirCap + 1 ELSE elixirCap
          /\ phase' = "PRE_TURN" /\ dirty' = TRUE
  /\ UNCHANGED <<winner, dead, seq, tick, timer, conns, missed>>

\* handleRoundEnd, AdvanceRound and enterPreTurn.
HandleRoundEnd ==
  /\ Takes("RoundEnd")
  /\ IF phase = "GAME_OVER"
     THEN UNCHANGED <<phase, elixirCap, dirty, timer>>
     ELSE /\ elixirCap' = IF elixirCap < MaxElixir THEN elixirCap + 1 ELSE elixirCap
          /\ phase' = "PRE_TURN" /\ dirty' = TRUE /\ StartTimer("PreTurnEnd")
  /\ UNCHANGED <<winner, dead, seq, tick, conns, missed>>

HandleDisconnect ==
  /\ Takes("Disconnect")
  /\ dirty' = TRUE
  /\ UNCHANGED <<phase, winner, dead, elixirCap, seq, tick, timer, conns, missed>>

\* CheckWinCondition: player 1's leader is looked at first.
WinnerGiven(d) == IF 1 \in d THEN 2 ELSE 1

\* The rest of processTick, once the queue is empty: in the active phase the
\* elixir and the board (attacks may kill leaders), then handleGameOver, then
\* the broadcast that counts the tick.
FinishTick ==
  /\ events = <<>>
  /\ \E killed \in SUBSET Players, changed \in BOOLEAN :
       /\ phase # "ACTIVE" => killed = {} /\ ~changed
       /\ dead' = dead \cup killed
       /\ IF dead' # {} /\ phase # "GAME_OVER"
          THEN phase' = "GAME_OVER" /\ winner' = WinnerGiven(dead') /\ StopTimer
          ELSE UNCHANGED <<phase, winner, timer>>
       /\ tick' = IF dirty \/ changed \/ phase' # phase THEN CountTick(tick) ELSE tick
  /\ dirty' = FALSE
  /\ UNCHANGED <<elixirCap, seq, events, conns, missed>>

HandleEvent ==
  HandleClientAction \/ HandlePreTurnEnd \/ HandleRoundEnd \/ HandleDisconnect
Loop == HandleEvent \/ FinishTick
Client(p) ==
  \/ Connect(p) \/ Disconnect(p)
  \/ \E a \in Actions, n \in {0, TickTop} : ClientSends(p, a, n)

Next ==
  \/ Loop
  \/ TimerFires \/ CallbackLocks \/ CallbackPosts
  \/ \E p \in Players : Client(p) \/ Greet(p)

Spec == Init /\ [][Next]_vars

\* The ticker keeps the loop going, a running timer fires, and goroutines that
\* have started run on.  Clients owe nothing.
Fairness ==
  /\ WF_vars(Loop)
  /\ WF_vars(TimerFires) /\ WF_vars(CallbackLocks) /\ WF_vars(CallbackPosts)
  /\ \A p \in Players : WF_vars(Greet(p))

FairSpec == Spec /\ Fairness
----------------------------------------------------------------------------
(* Properties.                                                             *)

\* Something is on its way that will end the current phase: a timer that runs
\* or a callback that will not find itself stopped, a callback about to queue
\* its event, the event itself, or a JOIN_GAME that will start the timer.
JoinIsComing ==
  \/ \E p \in Players : greeting[p] > 0
  \/ \E i \in 1..Len(events) : StartsPreTurn(events[i])
SomethingWillEndThePhase ==
  \/ ~stopped /\ (armed # "none" \/ fired # "none")
  \/ posting # "none"
  \/ \E i \in 1..Len(events) : IsTimerEvent(events[i])
  \/ phase = "PRE_TURN" /\ JoinIsComing

\* A game that has begun and is not over never hangs in a phase with nothing
\* left to end it, although joins restart the timer under running callbacks,
\* unless the queue dropped the very event, or refused the very join, for it.
PhaseIsTimed ==
  phase \in {"PRE_TURN", "ACTIVE"} => SomethingWillEndThePhase \/ missed

\* While the game waits, a player who has connected owes the JOIN_GAME that will
\* start the timer, so no RECONNECT of an early client can begin it without one.
JoinIsOwed ==
  LET someone == \E p \in Players : opened[p] > 0 IN
  /\ phase = "WAITING_FOR_PLAYERS" /\ someone => JoinIsComing \/ missed
  /\ \A p \in Players : open[p] > 0 \/ greeting[p] > 0 => someone
  /\ \A i \in 1..Len(events) : events[i].type = "Action" => someone

\* The winner is known exactly when the game is over.
WinnerIsKnown == winner # 0 <=> phase = "GAME_OVER"

\* At most one timer event is past its timer: being called back or queued.
OneEventInFlight ==
  /\ fired = "none" \/ posting = "none"
  /\ \A i \in 1..Len(events) :
       IsTimerEvent(events[i]) =>
         /\ fired = "none" /\ posting = "none"
         /\ \A j \in 1..Len(events) : IsTimerEvent(events[j]) => i = j

\* The timer of a phase that has one.
TimerOf(ph) == IF ph = "PRE_TURN" THEN "PreTurnEnd" ELSE "RoundEnd"

\* Unless the game is over, every timer, callback and timer event belongs to
\* the current phase; before the game begins there is none.
TimersMatchPhase ==
  phase # "GAME_OVER" =>
    LET allowed == IF phase = "WAITING_FOR_PLAYERS" THEN {} ELSE {TimerOf(phase)} IN
    /\ armed \in allowed \cup {"none"}
    /\ fired \in allowed \cup {"none"}
    /\ posting \in allowed \cup {"none"}
    /\ \A i \in 1..Len(events) : IsTimerEvent(events[i]) => events[i].type \in allowed

SessionInv ==
  /\ TypeOK /\ PhaseIsTimed /\ JoinIsOwed
  /\ WinnerIsKnown /\ OneEventInFlight /\ TimersMatchPhase

\* The round cycle is PRE_TURN, ACTIVE, PRE_TURN, ...: although every join of
\* a player restarts the pre-turn timer under its running callback, the event
\* that ends a phase is handled in that phase, so no phase is skipped.
RoundCycle ==
  events # <<>> /\ phase # "GAME_OVER" =>
    /\ Head(events).type = "PreTurnEnd" => phase = "PRE_TURN"
    /\ Head(events).type = "RoundEnd" => phase = "ACTIVE"

\* A finished game is not brought back: no timer event still on its way, no
\* join and no reconnect leads out of GAME_OVER.
GameOverIsFinal == [][phase = "GAME_OVER" => phase' = "GAME_OVER"]_vars

\* Every pre-turn and every active phase ends, unless an event was missed.
PhasesEnd ==
  \A ph \in {"PRE_TURN", "ACTIVE"} :
    (phase = ph) ~> (phase # ph \/ missed)
=============================================================================
