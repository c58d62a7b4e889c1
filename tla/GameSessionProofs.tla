-------------------------- MODULE GameSessionProofs --------------------------
(***************************************************************************)
(* Proofs about the game loop, for any capacity of the queue, any lag the  *)
(* clients are allowed, any number of connections and messages.            *)
(***************************************************************************)
EXTENDS GameSession, TLAPS

LEMMA TickTopIsNat == TickTop \in Nat
BY LagIsNat, BoundsAreNats DEF TickTop

LEMMA InitOK == Init => SessionInv
<1> SUFFICES ASSUME Init PROVE SessionInv
  OBVIOUS
<1>0. events = <<>> /\ Len(events) = 0 /\ \A i \in 1..Len(events) : FALSE
  BY DEF Init
<1>1. TypeOK
  <2>1. events \in Seq(Event)
    BY <1>0
  <2>2. /\ seq \in [Players -> Nat]
        /\ open \in [Players -> Nat] /\ greeting \in [Players -> Nat]
        /\ opened \in [Players -> 0..MaxConnections]
    BY BoundsAreNats DEF Init
  <2>3. elixirCap \in StartingElixirCap..MaxElixir
    BY CapsAreNats DEF Init
  <2>4. tick \in 0..TickTop /\ requests \in 0..MaxRequests
    BY TickTopIsNat, BoundsAreNats DEF Init
  <2>5. /\ phase \in Phases /\ winner \in Players \cup {0} /\ dead \in SUBSET Players
        /\ dirty \in BOOLEAN /\ stopped \in BOOLEAN /\ missed \in BOOLEAN
        /\ armed \in Timers \cup {"none"}
        /\ fired \in Timers \cup {"none"} /\ posting \in Timers \cup {"none"}
    BY DEF Init, Phases, Players
  <2> QED
    BY <2>1, <2>2, <2>3, <2>4, <2>5 DEF TypeOK
<1>2. PhaseIsTimed /\ WinnerIsKnown
  BY DEF Init, PhaseIsTimed, WinnerIsKnown
<1>5. JoinIsOwed
  BY <1>0 DEF Init, JoinIsOwed
<1>3. OneEventInFlight
  BY <1>0 DEF Init, OneEventInFlight
<1>4. TimersMatchPhase
  BY <1>0 DEF Init, TimersMatchPhase
<1> QED
  BY <1>1, <1>2, <1>3, <1>4, <1>5 DEF SessionInv

\* What QueueEvent does to the queue: nothing, or one more event at its end.
LEMMA QueueEventShape ==
  ASSUME events \in Seq(Event), missed \in BOOLEAN, NEW e \in Event, QueueEvent(e)
  PROVE  /\ events' \in Seq(Event) /\ missed' \in BOOLEAN
         /\ missed => missed'
         /\ \/ /\ Len(events') = Len(events) + 1
               /\ events'[Len(events) + 1] = e
               /\ \A i \in 1..Len(events) : events'[i] = events[i]
            \/ /\ events' = events
               /\ IsTimerEvent(e) \/ StartsPreTurn(e) => missed'
<1>1. CASE Len(events) < QueueSize
  <2>1. events' = Append(events, e) /\ missed' = missed
    BY <1>1 DEF QueueEvent
  <2>2. /\ Append(events, e) \in Seq(Event)
        /\ Len(Append(events, e)) = Len(events) + 1
        /\ Append(events, e)[Len(events) + 1] = e
        /\ \A i \in 1..Len(events) : Append(events, e)[i] = events[i]
    OBVIOUS
  <2> QED
    BY <2>1, <2>2
<1>2. CASE ~(Len(events) < QueueSize)
  <2>1. /\ events' = events
        /\ missed' = (missed \/ IsTimerEvent(e) \/ StartsPreTurn(e))
    BY <1>2 DEF QueueEvent
  <2>2. missed' \in BOOLEAN /\ (missed => missed')
        /\ (IsTimerEvent(e) \/ StartsPreTurn(e) => missed')
    BY <2>1
  <2> QED
    BY <2>1, <2>2
<1> QED
  BY <1>1, <1>2

\* Taking the head of the queue shifts the rest.
LEMMA TakeShape ==
  ASSUME events \in Seq(Event), NEW type, Takes(type)
  PROVE  /\ Head(events) \in Event /\ Head(events) = events[1]
         /\ Head(events).type = type
         /\ 1 \in 1..Len(events)
         /\ events' \in Seq(Event)
         /\ \A i \in 1..Len(events') : i + 1 \in 1..Len(events) /\ events'[i] = events[i + 1]
         /\ \A i \in 1..Len(events) :
              i = 1 \/ (i - 1 \in 1..Len(events') /\ events'[i - 1] = events[i])
<1>1. /\ Head(events) \in Event /\ Head(events) = events[1]
      /\ Head(events).type = type
      /\ events' \in Seq(Event)
      /\ Len(events) \in Nat /\ Len(events) > 0
      /\ Len(events') = Len(events) - 1
      /\ \A i \in 1..Len(events') : events'[i] = events[i + 1]
  BY DEF Takes
<1>2. \A i \in 1..Len(events) : i # 1 => i - 1 \in 1..Len(events') /\ i = (i - 1) + 1
  BY <1>1
<1> QED
  BY <1>1, <1>2

----------------------------------------------------------------------------
(* The safety part of the invariant, without the types.                    *)

Ordered == PhaseIsTimed /\ JoinIsOwed /\ WinnerIsKnown /\ OneEventInFlight /\ TimersMatchPhase

\* A client goroutine queues an event of its own.
LEMMA ClientQueues ==
  ASSUME SessionInv, NEW e \in Event, ~IsTimerEvent(e), QueueEvent(e),
         UNCHANGED <<loop, timer, opened>>,
         \E p \in Players : opened[p] > 0,
         (\E p \in Players : greeting[p] > 0)
            => (\E p \in Players : greeting'[p] > 0) \/ StartsPreTurn(e)
  PROVE  events' \in Seq(Event) /\ missed' \in BOOLEAN /\ Ordered'
<1>0. events \in Seq(Event) /\ missed \in BOOLEAN /\ Len(events) \in Nat
  BY DEF SessionInv, TypeOK
<1>1. /\ events' \in Seq(Event) /\ missed' \in BOOLEAN
      /\ missed => missed'
      /\ \/ /\ Len(events') = Len(events) + 1
            /\ events'[Len(events) + 1] = e
            /\ \A i \in 1..Len(events) : events'[i] = events[i]
         \/ /\ events' = events
            /\ IsTimerEvent(e) \/ StartsPreTurn(e) => missed'
  BY <1>0, QueueEventShape
<1>2. \A i \in 1..Len(events') :
         \/ i \in 1..Len(events) /\ events'[i] = events[i]
         \/ i = Len(events) + 1 /\ events'[i] = e
  BY <1>0, <1>1
<1>3. \A i \in 1..Len(events) : i \in 1..Len(events') /\ events'[i] = events[i]
  BY <1>0, <1>1
<1>4. \A i \in 1..Len(events') :
         IsTimerEvent(events'[i]) => i \in 1..Len(events) /\ events'[i] = events[i]
  BY <1>2
<1>5. JoinIsComing => JoinIsComing' \/ missed'
  <2>1. StartsPreTurn(e) => JoinIsComing' \/ missed'
    BY <1>0, <1>1 DEF JoinIsComing
  <2>2. (\E i \in 1..Len(events) : StartsPreTurn(events[i])) => JoinIsComing'
    BY <1>3 DEF JoinIsComing
  <2> QED
    BY <2>1, <2>2 DEF JoinIsComing
<1>6. PhaseIsTimed'
  <2>1. SomethingWillEndThePhase => SomethingWillEndThePhase' \/ missed'
    <3>1. (\E i \in 1..Len(events) : IsTimerEvent(events[i]))
             => \E i \in 1..Len(events') : IsTimerEvent(events'[i])
      BY <1>3
    <3> QED
      BY <1>5, <3>1 DEF SomethingWillEndThePhase, loop, timer
  <2> QED
    BY <1>1, <2>1 DEF SessionInv, PhaseIsTimed, loop
<1>7. JoinIsOwed'
  BY <1>1, <1>5 DEF SessionInv, JoinIsOwed, loop
<1>8. WinnerIsKnown'
  BY DEF SessionInv, WinnerIsKnown, loop
<1>9. OneEventInFlight'
  BY <1>4 DEF SessionInv, OneEventInFlight, timer
<1>10. TimersMatchPhase'
  BY <1>4 DEF SessionInv, TimersMatchPhase, TimerOf, loop, timer
<1> QED
  BY <1>1, <1>6, <1>7, <1>8, <1>9, <1>10 DEF Ordered

\* The loop takes an event that is not a timer's, and neither phase nor timer
\* changes; a JOIN_GAME that was needed is recorded as missed.
LEMMA LoopTakesOther ==
  ASSUME SessionInv, NEW type, type \notin Timers, Takes(type),
         UNCHANGED <<phase, winner, timer, conns>>, missed' \in BOOLEAN, missed => missed',
         StartsPreTurn(Head(events)) =>
           phase \notin {"WAITING_FOR_PLAYERS", "PRE_TURN"} \/ missed'
  PROVE  events' \in Seq(Event) /\ Ordered'
<1>0. events \in Seq(Event)
  BY DEF SessionInv, TypeOK
<1>1. /\ Head(events) = events[1] /\ Head(events).type = type
      /\ events' \in Seq(Event)
      /\ \A i \in 1..Len(events') : i + 1 \in 1..Len(events) /\ events'[i] = events[i + 1]
      /\ \A i \in 1..Len(events) :
           i = 1 \/ (i - 1 \in 1..Len(events') /\ events'[i - 1] = events[i])
  BY <1>0, TakeShape
<1>2. ~IsTimerEvent(events[1])
  BY <1>1 DEF IsTimerEvent
<1>3. phase \in {"WAITING_FOR_PLAYERS", "PRE_TURN"} /\ JoinIsComing => JoinIsComing' \/ missed'
  BY <1>1 DEF JoinIsComing, conns
<1>4. PhaseIsTimed'
  <2>1. (\E i \in 1..Len(events) : IsTimerEvent(events[i]))
           => \E i \in 1..Len(events') : IsTimerEvent(events'[i])
    BY <1>1, <1>2
  <2>2. SomethingWillEndThePhase => SomethingWillEndThePhase' \/ missed'
    BY <1>3, <2>1 DEF SomethingWillEndThePhase, timer
  <2> QED
    BY <2>2 DEF SessionInv, PhaseIsTimed
<1>5. JoinIsOwed'
  <2>1. \A i \in 1..Len(events') : events'[i].type = "Action" => \E p \in Players : opened[p] > 0
    BY <1>1 DEF SessionInv, JoinIsOwed
  <2> QED
    BY <1>3, <2>1 DEF SessionInv, JoinIsOwed, conns
<1>6. WinnerIsKnown'
  BY DEF SessionInv, WinnerIsKnown
<1>7. OneEventInFlight'
  <2>1. \A i, j \in 1..Len(events') : i + 1 = j + 1 => i = j
    BY <1>1
  <2>2. \A i \in 1..Len(events') : IsTimerEvent(events'[i]) =>
           IsTimerEvent(events[i + 1]) /\ i + 1 \in 1..Len(events)
    BY <1>1
  <2> QED
    BY <2>1, <2>2 DEF SessionInv, OneEventInFlight, timer
<1>8. TimersMatchPhase'
  BY <1>1 DEF SessionInv, TimersMatchPhase, TimerOf, timer
<1> QED
  BY <1>1, <1>4, <1>5, <1>6, <1>7, <1>8 DEF Ordered

\* The loop takes the one timer event there is: no other is left, in the queue
\* or on its way to it, and it belongs to the phase.
LEMMA LoopTakesTimer ==
  ASSUME SessionInv, NEW type \in Timers, Takes(type)
  PROVE  /\ events' \in Seq(Event)
         /\ \A i \in 1..Len(events') : ~IsTimerEvent(events'[i])
         /\ fired = "none" /\ posting = "none"
         /\ phase # "GAME_OVER" =>
              /\ phase # "WAITING_FOR_PLAYERS"
              /\ type = TimerOf(phase)
         /\ \A i \in 1..Len(events') : events'[i].type = "Action" =>
              \E p \in Players : opened[p] > 0
<1>0. events \in Seq(Event)
  BY DEF SessionInv, TypeOK
<1>1. /\ Head(events) = events[1] /\ Head(events).type = type
      /\ 1 \in 1..Len(events)
      /\ events' \in Seq(Event)
      /\ \A i \in 1..Len(events') : i + 1 \in 1..Len(events) /\ events'[i] = events[i + 1]
  BY <1>0, TakeShape
<1>2. IsTimerEvent(events[1])
  BY <1>1 DEF IsTimerEvent
<1>3. \A i \in 1..Len(events') : i + 1 # 1
  BY <1>1
<1>4. fired = "none" /\ posting = "none"
  BY <1>1, <1>2 DEF SessionInv, OneEventInFlight
<1>5. \A i \in 1..Len(events') : ~IsTimerEvent(events'[i])
  BY <1>1, <1>2, <1>3 DEF SessionInv, OneEventInFlight
<1>6. phase # "GAME_OVER" => phase # "WAITING_FOR_PLAYERS" /\ type = TimerOf(phase)
  BY <1>1, <1>2 DEF SessionInv, TimersMatchPhase
<1>7. \A i \in 1..Len(events') : events'[i].type = "Action" =>
        \E p \in Players : opened[p] > 0
  BY <1>1 DEF SessionInv, JoinIsOwed
<1> QED
  BY <1>1, <1>4, <1>5, <1>6, <1>7
\* What every handler of a client's action keeps, whatever it does to the phase.
LEMMA LoopTakesAction ==
  ASSUME SessionInv, Takes("Action"), UNCHANGED <<fired, posting, conns>>
  PROVE  /\ events' \in Seq(Event) /\ Head(events) \in Event
         /\ Head(events).type = "Action"
         /\ OneEventInFlight'
         /\ \E p \in Players : opened[p] > 0
         /\ \A p \in Players : open'[p] > 0 \/ greeting'[p] > 0 => \E q \in Players : opened'[q] > 0
         /\ \A i \in 1..Len(events') : events'[i].type = "Action" => \E p \in Players : opened'[p] > 0
         /\ \A i \in 1..Len(events') :
              IsTimerEvent(events'[i]) => \E j \in 1..Len(events) : events'[i] = events[j]
         /\ JoinIsComing => JoinIsComing' \/ StartsPreTurn(Head(events))
<1>0. events \in Seq(Event)
  BY DEF SessionInv, TypeOK
<1>1. /\ Head(events) = events[1] /\ Head(events).type = "Action" /\ Head(events) \in Event
      /\ 1 \in 1..Len(events)
      /\ events' \in Seq(Event)
      /\ \A i \in 1..Len(events') : i + 1 \in 1..Len(events) /\ events'[i] = events[i + 1]
      /\ \A i \in 1..Len(events) :
           i = 1 \/ (i - 1 \in 1..Len(events') /\ events'[i - 1] = events[i])
  BY <1>0, TakeShape
<1>2. OneEventInFlight'
  <2>1. \A i, j \in 1..Len(events') : i + 1 = j + 1 => i = j
    BY <1>1
  <2>2. \A i \in 1..Len(events') : IsTimerEvent(events'[i]) =>
           IsTimerEvent(events[i + 1]) /\ i + 1 \in 1..Len(events)
    BY <1>1
  <2> QED
    BY <2>1, <2>2 DEF SessionInv, OneEventInFlight
<1>3. \E p \in Players : opened[p] > 0
  BY <1>1 DEF SessionInv, JoinIsOwed
<1>4. JoinIsComing => JoinIsComing' \/ StartsPreTurn(Head(events))
  BY <1>1 DEF JoinIsComing, conns
<1>5. \A p \in Players : open'[p] > 0 \/ greeting'[p] > 0 => \E q \in Players : opened'[q] > 0
  BY <1>3 DEF conns
<1>6. \A i \in 1..Len(events') : events'[i].type = "Action" => \E p \in Players : opened'[p] > 0
  BY <1>3 DEF conns
<1>7. \A i \in 1..Len(events') :
        IsTimerEvent(events'[i]) => \E j \in 1..Len(events) : events'[i] = events[j]
  BY <1>1
<1> QED
  BY <1>1, <1>2, <1>3, <1>4, <1>5, <1>6, <1>7

LEMMA ActionHasPlayer ==
  ASSUME NEW e \in Event, e.type = "Action"
  PROVE  e.player \in Players /\ e.action \in Actions /\ e.seq \in Nat
BY DEF Event, Timers

\* A join: the timer starts, or nothing changes the phase, or a RECONNECT was
\* first and the JOIN_GAME of its player is still to come.
LEMMA JoinKeepsOrder ==
  ASSUME SessionInv, Takes("Action"), UNCHANGED conns, JoinGame(Head(events)),
         Head(events).action \in {"JOIN_GAME", "RECONNECT"}
  PROVE  events' \in Seq(Event) /\ Ordered'
<1> DEFINE e == Head(events)
<1>0. /\ fired' = fired /\ posting' = posting /\ winner' = winner /\ missed' = missed
      /\ missed \in BOOLEAN
  BY DEF JoinGame, StartTimer, timer, SessionInv, TypeOK
<1>1. /\ events' \in Seq(Event) /\ e \in Event /\ e.type = "Action"
      /\ OneEventInFlight'
      /\ \E p \in Players : opened[p] > 0
      /\ \A p \in Players : open'[p] > 0 \/ greeting'[p] > 0 => \E q \in Players : opened'[q] > 0
      /\ \A i \in 1..Len(events') : events'[i].type = "Action" => \E p \in Players : opened'[p] > 0
      /\ \A i \in 1..Len(events') :
           IsTimerEvent(events'[i]) => \E j \in 1..Len(events) : events'[i] = events[j]
      /\ JoinIsComing => JoinIsComing' \/ StartsPreTurn(e)
  BY <1>0, LoopTakesAction
<1>2. phase' # "WAITING_FOR_PLAYERS"
  BY DEF JoinGame
<1>3. JoinIsOwed'
  BY <1>1, <1>2 DEF JoinIsOwed
<1>4. WinnerIsKnown'
  BY <1>0 DEF JoinGame, SessionInv, WinnerIsKnown
<1>5. phase = "WAITING_FOR_PLAYERS" => TimersMatchPhase' /\ PhaseIsTimed'
  <2> SUFFICES ASSUME phase = "WAITING_FOR_PLAYERS" PROVE TimersMatchPhase' /\ PhaseIsTimed'
    OBVIOUS
  <2>1. phase' = "PRE_TURN"
    BY DEF JoinGame
  <2>2. /\ armed = "none" /\ fired = "none" /\ posting = "none"
        /\ \A i \in 1..Len(events) : ~IsTimerEvent(events[i])
    BY DEF SessionInv, TimersMatchPhase
  <2>3. armed' \in {"none", "PreTurnEnd"}
    BY <2>2 DEF JoinGame, StartTimer, timer
  <2>4. TimersMatchPhase'
    BY <1>0, <1>1, <2>1, <2>2, <2>3 DEF TimersMatchPhase, TimerOf
  <2>5. JoinIsComing \/ missed
    BY <1>1 DEF SessionInv, JoinIsOwed
  <2>6. CASE e.action = "JOIN_GAME"
    BY <2>1, <2>4, <2>6 DEF JoinGame, StartTimer, PhaseIsTimed, SomethingWillEndThePhase
  <2>7. CASE e.action = "RECONNECT"
    <3>1. ~StartsPreTurn(e)
      BY <2>7 DEF StartsPreTurn
    <3> QED
      BY <1>0, <1>1, <2>1, <2>4, <2>5, <3>1 DEF PhaseIsTimed, SomethingWillEndThePhase
  <2> QED
    BY <2>4, <2>6, <2>7
<1>6. phase # "WAITING_FOR_PLAYERS" => TimersMatchPhase' /\ PhaseIsTimed'
  <2> SUFFICES ASSUME phase # "WAITING_FOR_PLAYERS" PROVE TimersMatchPhase' /\ PhaseIsTimed'
    OBVIOUS
  <2>1. phase' = phase
    BY DEF JoinGame
  <2>2. CASE e.action = "JOIN_GAME" /\ phase = "PRE_TURN"
    <3>1. armed' = "PreTurnEnd" /\ stopped' = FALSE
      BY <2>1, <2>2 DEF JoinGame, StartTimer
    <3>2. PhaseIsTimed'
      BY <3>1 DEF PhaseIsTimed, SomethingWillEndThePhase
    <3>3. TimersMatchPhase'
      BY <1>0, <1>1, <2>1, <2>2, <3>1 DEF SessionInv, TimersMatchPhase, TimerOf
    <3> QED
      BY <3>2, <3>3
  <2>3. CASE ~(e.action = "JOIN_GAME" /\ phase = "PRE_TURN")
    <3>1. UNCHANGED timer
      BY <2>1, <2>3 DEF JoinGame
    <3>2. StartsPreTurn(e) => phase \notin {"WAITING_FOR_PLAYERS", "PRE_TURN"}
      BY <2>3 DEF StartsPreTurn
    <3>3. "Action" \notin Timers
      BY DEF Timers
    <3>4. Ordered'
      BY <1>0, <2>1, <3>1, <3>2, <3>3, LoopTakesOther
    <3> QED
      BY <3>4 DEF Ordered
  <2> QED
    BY <2>2, <2>3
<1> QED
  BY <1>1, <1>3, <1>4, <1>5, <1>6 DEF Ordered

\* A surrender ends the game, whatever timer still runs.
LEMMA SurrenderKeepsOrder ==
  ASSUME SessionInv, Takes("Action"), UNCHANGED conns, Surrender(Head(events))
  PROVE  events' \in Seq(Event) /\ Ordered'
<1>0. /\ fired' = fired /\ posting' = posting
  BY DEF Surrender, timer
<1>1. /\ events' \in Seq(Event) /\ Head(events) \in Event /\ Head(events).type = "Action"
      /\ OneEventInFlight'
      /\ \A p \in Players : open'[p] > 0 \/ greeting'[p] > 0 => \E q \in Players : opened'[q] > 0
      /\ \A i \in 1..Len(events') : events'[i].type = "Action" => \E p \in Players : opened'[p] > 0
  BY <1>0, LoopTakesAction
<1>2. phase' = "GAME_OVER" /\ winner' = Opponent(Head(events).player)
  BY DEF Surrender
<1>3. winner' # 0
  BY <1>1, <1>2, ActionHasPlayer DEF Opponent, Players
<1>4. JoinIsOwed'
  BY <1>1, <1>2 DEF JoinIsOwed
<1>5. PhaseIsTimed' /\ WinnerIsKnown' /\ TimersMatchPhase'
  BY <1>2, <1>3 DEF PhaseIsTimed, WinnerIsKnown, TimersMatchPhase
<1> QED
  BY <1>1, <1>4, <1>5 DEF Ordered

\* A card action changes neither the phase nor the timer; a refused action at
\* most records a JOIN_GAME that was needed.
LEMMA OtherActionsKeepOrder ==
  ASSUME SessionInv, Takes("Action"), UNCHANGED conns,
         Refuse(Head(events)) \/ \E killed \in SUBSET Players : UseCard(Head(events), killed)
  PROVE  events' \in Seq(Event) /\ Ordered'
<1>1. "Action" \notin Timers
  BY DEF Timers
<1>2. missed \in BOOLEAN
  BY DEF SessionInv, TypeOK
<1>3. CASE Refuse(Head(events))
  <2>1. UNCHANGED <<phase, winner, timer>>
    BY <1>3 DEF Refuse, loop
  <2>2. /\ missed' \in BOOLEAN /\ (missed => missed')
        /\ StartsPreTurn(Head(events)) =>
             phase \notin {"WAITING_FOR_PLAYERS", "PRE_TURN"} \/ missed'
    BY <1>2, <1>3 DEF Refuse
  <2> QED
    BY <1>1, <2>1, <2>2, LoopTakesOther
<1>4. ASSUME NEW killed \in SUBSET Players, UseCard(Head(events), killed)
      PROVE  events' \in Seq(Event) /\ Ordered'
  <2>1. UNCHANGED <<phase, winner, timer, missed>>
    BY <1>4 DEF UseCard
  <2>2. ~StartsPreTurn(Head(events))
    BY <1>4 DEF UseCard, StartsPreTurn
  <2> QED
    BY <1>1, <1>2, <2>1, <2>2, LoopTakesOther
<1> QED
  BY <1>3, <1>4

\* A timer event ends its phase and starts the timer of the next, or finds the
\* game over.
LEMMA TimerEventKeepsOrder ==
  ASSUME SessionInv, HandlePreTurnEnd \/ HandleRoundEnd
  PROVE  events' \in Seq(Event) /\ Ordered'
<1> DEFINE type == IF Head(events).type = "PreTurnEnd" THEN "PreTurnEnd" ELSE "RoundEnd"
<1> DEFINE next == IF Head(events).type = "PreTurnEnd" THEN "ACTIVE" ELSE "PRE_TURN"
<1>1. /\ Takes(type) /\ type \in Timers
      /\ winner' = winner /\ missed' = missed /\ UNCHANGED conns
      /\ phase = "GAME_OVER" => phase' = "GAME_OVER" /\ UNCHANGED timer
      /\ phase # "GAME_OVER" =>
           /\ phase' = next
           /\ armed' = TimerOf(next) /\ stopped' = FALSE /\ UNCHANGED <<fired, posting>>
  BY DEF HandlePreTurnEnd, HandleRoundEnd, Takes, StartTimer, timer, TimerOf, Timers
<1> HIDE DEF type
<1>2. /\ events' \in Seq(Event)
      /\ \A i \in 1..Len(events') : ~IsTimerEvent(events'[i])
      /\ fired = "none" /\ posting = "none"
      /\ phase # "GAME_OVER" => phase # "WAITING_FOR_PLAYERS"
      /\ \A i \in 1..Len(events') : events'[i].type = "Action" =>
           \E p \in Players : opened[p] > 0
  BY <1>1, LoopTakesTimer
<1>3. fired' = "none" /\ posting' = "none"
  BY <1>1, <1>2 DEF timer
<1>4. phase' # "WAITING_FOR_PLAYERS"
  BY <1>1
<1>5. PhaseIsTimed'
  BY <1>1 DEF PhaseIsTimed, SomethingWillEndThePhase, TimerOf
<1>6. JoinIsOwed'
  BY <1>1, <1>2, <1>4 DEF SessionInv, JoinIsOwed, conns
<1>7. WinnerIsKnown'
  BY <1>1 DEF SessionInv, WinnerIsKnown
<1>8. OneEventInFlight'
  BY <1>2, <1>3 DEF OneEventInFlight
<1>9. TimersMatchPhase'
  BY <1>1, <1>2, <1>3 DEF TimersMatchPhase, TimerOf
<1> QED
  BY <1>2, <1>5, <1>6, <1>7, <1>8, <1>9 DEF Ordered

\* The end of a tick ends the game or leaves phase and timer alone.
LEMMA FinishTickKeepsOrder ==
  ASSUME SessionInv, FinishTick
  PROVE  events' \in Seq(Event) /\ Ordered'
<1>1. UNCHANGED <<events, conns, missed>> /\ events \in Seq(Event)
  BY DEF FinishTick, SessionInv, TypeOK
<1>2. CASE UNCHANGED <<phase, winner, timer>>
  <2>1. SomethingWillEndThePhase => SomethingWillEndThePhase'
    BY <1>1, <1>2 DEF SomethingWillEndThePhase, JoinIsComing, timer, conns
  <2>2. PhaseIsTimed' /\ WinnerIsKnown'
    BY <1>1, <1>2, <2>1 DEF SessionInv, PhaseIsTimed, WinnerIsKnown
  <2>3. JoinIsOwed'
    BY <1>1, <1>2 DEF SessionInv, JoinIsOwed, JoinIsComing, conns
  <2>4. OneEventInFlight' /\ TimersMatchPhase'
    BY <1>1, <1>2 DEF SessionInv, OneEventInFlight, TimersMatchPhase, TimerOf, timer
  <2> QED
    BY <1>1, <2>2, <2>3, <2>4 DEF Ordered
<1>3. CASE phase' = "GAME_OVER" /\ winner' # 0 /\ StopTimer
  <2>1. PhaseIsTimed' /\ WinnerIsKnown' /\ TimersMatchPhase'
    BY <1>3 DEF PhaseIsTimed, WinnerIsKnown, TimersMatchPhase
  <2>2. JoinIsOwed'
    BY <1>1, <1>3 DEF SessionInv, JoinIsOwed, conns
  <2>3. OneEventInFlight'
    BY <1>1, <1>3 DEF SessionInv, OneEventInFlight, StopTimer
  <2> QED
    BY <1>1, <2>1, <2>2, <2>3 DEF Ordered
<1>4. \/ UNCHANGED <<phase, winner, timer>>
      \/ phase' = "GAME_OVER" /\ winner' # 0 /\ StopTimer
  BY DEF FinishTick, WinnerGiven
<1> QED
  BY <1>2, <1>3, <1>4

\* The timer fires and its callback runs, perhaps beside a timer restarted.
LEMMA CallbacksKeepOrder ==
  ASSUME SessionInv, TimerFires \/ CallbackLocks
  PROVE  events' \in Seq(Event) /\ Ordered'
<1>1. UNCHANGED <<loop, events, conns, missed>> /\ events \in Seq(Event)
  BY DEF TimerFires, CallbackLocks, SessionInv, TypeOK
<1>2. WinnerIsKnown' /\ JoinIsOwed'
  BY <1>1 DEF SessionInv, WinnerIsKnown, JoinIsOwed, JoinIsComing, loop, conns
<1>3. JoinIsComing => JoinIsComing'
  BY <1>1 DEF JoinIsComing, conns
<1>4. PhaseIsTimed'
  <2>1. SomethingWillEndThePhase => SomethingWillEndThePhase'
    <3>1. CASE TimerFires
      BY <1>1, <1>3, <3>1 DEF SomethingWillEndThePhase, TimerFires, loop
    <3>2. CASE CallbackLocks
      BY <1>1, <1>3, <3>2 DEF SomethingWillEndThePhase, CallbackLocks, loop, SessionInv, OneEventInFlight
    <3> QED
      BY <3>1, <3>2
  <2> QED
    BY <1>1, <2>1 DEF SessionInv, PhaseIsTimed, loop
<1>5. OneEventInFlight'
  <2>1. CASE TimerFires
    BY <1>1, <2>1 DEF SessionInv, OneEventInFlight, TimerFires
  <2>2. CASE CallbackLocks
    BY <1>1, <2>2 DEF SessionInv, OneEventInFlight, CallbackLocks
  <2> QED
    BY <2>1, <2>2
<1>6. TimersMatchPhase'
  BY <1>1 DEF SessionInv, TimersMatchPhase, TimerOf, TimerFires, CallbackLocks, loop
<1> QED
  BY <1>1, <1>2, <1>4, <1>5, <1>6 DEF Ordered

\* The callback queues its event, the only one, or the full queue drops it.
LEMMA CallbackPostsKeepsOrder ==
  ASSUME SessionInv, CallbackPosts
  PROVE  events' \in Seq(Event) /\ missed' \in BOOLEAN /\ Ordered'
<1> DEFINE e == [type |-> posting]
<1>0. events \in Seq(Event) /\ missed \in BOOLEAN /\ Len(events) \in Nat
  BY DEF SessionInv, TypeOK
<1>1. /\ posting \in Timers /\ posting' = "none" /\ fired = "none" /\ fired' = "none"
      /\ armed' = armed /\ stopped' = stopped /\ UNCHANGED <<loop, conns>> /\ QueueEvent(e)
      /\ \A i \in 1..Len(events) : ~IsTimerEvent(events[i])
  BY DEF CallbackPosts, SessionInv, TypeOK, OneEventInFlight
<1>2. e \in Event /\ IsTimerEvent(e)
  BY <1>1 DEF Event, IsTimerEvent
<1>3. /\ events' \in Seq(Event) /\ missed' \in BOOLEAN
      /\ missed => missed'
      /\ \/ /\ Len(events') = Len(events) + 1
            /\ events'[Len(events) + 1] = e
            /\ \A i \in 1..Len(events) : events'[i] = events[i]
         \/ /\ events' = events
            /\ missed'
  BY <1>0, <1>1, <1>2, QueueEventShape
<1>4. \A i \in 1..Len(events') :
         \/ i \in 1..Len(events) /\ events'[i] = events[i]
         \/ i = Len(events) + 1 /\ events'[i] = e
  BY <1>0, <1>3
<1>5. \A i \in 1..Len(events) : i \in 1..Len(events') /\ events'[i] = events[i]
  BY <1>0, <1>3
<1>6. PhaseIsTimed'
  <2>1. missed' \/ \E i \in 1..Len(events') : IsTimerEvent(events'[i])
    BY <1>0, <1>2, <1>3
  <2> QED
    BY <2>1 DEF PhaseIsTimed, SomethingWillEndThePhase
<1>7. JoinIsOwed'
  <2>1. JoinIsComing => JoinIsComing'
    BY <1>1, <1>5 DEF JoinIsComing, conns
  <2>2. e.type # "Action"
    BY <1>1 DEF Timers
  <2> QED
    BY <1>1, <1>3, <1>4, <2>1, <2>2 DEF SessionInv, JoinIsOwed, loop, conns
<1>8. WinnerIsKnown'
  BY <1>1 DEF SessionInv, WinnerIsKnown, loop
<1>9. OneEventInFlight'
  BY <1>1, <1>4 DEF OneEventInFlight
<1>10. TimersMatchPhase'
  <2>1. phase # "GAME_OVER" => phase # "WAITING_FOR_PLAYERS" /\ posting = TimerOf(phase)
    BY <1>1 DEF SessionInv, TimersMatchPhase, Timers
  <2>2. \A i \in 1..Len(events') : IsTimerEvent(events'[i]) => events'[i].type = posting
    BY <1>1, <1>4
  <2>3. phase' = phase
    BY <1>1 DEF loop
  <2>4. phase # "GAME_OVER" => armed' \in {TimerOf(phase), "none"}
    BY <1>1, <2>1 DEF SessionInv, TimersMatchPhase
  <2> QED
    BY <1>1, <2>1, <2>2, <2>3, <2>4 DEF TimersMatchPhase, TimerOf
<1> QED
  BY <1>3, <1>6, <1>7, <1>8, <1>9, <1>10 DEF Ordered

----------------------------------------------------------------------------
(* The types, but for the queue and missed.                                *)

StateTypes ==
  /\ phase \in Phases
  /\ winner \in Players \cup {0}
  /\ dead \in SUBSET Players
  /\ elixirCap \in StartingElixirCap..MaxElixir
  /\ seq \in [Players -> Nat]
  /\ tick \in 0..TickTop
  /\ dirty \in BOOLEAN
LoopTypes ==
  /\ StateTypes
  /\ armed \in Timers \cup {"none"}
  /\ stopped \in BOOLEAN
  /\ fired \in Timers \cup {"none"} /\ posting \in Timers \cup {"none"}
ConnTypes ==
  /\ opened \in [Players -> 0..MaxConnections]
  /\ open \in [Players -> Nat] /\ greeting \in [Players -> Nat]
  /\ requests \in 0..MaxRequests

LEMMA TypesTogether ==
  TypeOK <=> LoopTypes /\ ConnTypes /\ events \in Seq(Event) /\ missed \in BOOLEAN
BY DEF TypeOK, LoopTypes, StateTypes, ConnTypes

LEMMA ClientTypes ==
  ASSUME TypeOK, NEW p \in Players, Client(p) \/ Greet(p)
  PROVE  LoopTypes' /\ ConnTypes'
<1>1. ConnTypes
  BY TypesTogether
<1>2. LoopTypes'
  <2>1. UNCHANGED <<loop, timer>>
    BY DEF Client, Connect, Disconnect, ClientSends, Greet
  <2> QED
    BY <2>1, TypesTogether DEF LoopTypes, StateTypes, loop, timer
<1>3. CASE Connect(p)
  BY <1>1, <1>2, <1>3, BoundsAreNats DEF Connect, ConnTypes
<1>4. CASE Disconnect(p)
  BY <1>1, <1>2, <1>4 DEF Disconnect, ConnTypes
<1>5. CASE Greet(p)
  BY <1>1, <1>2, <1>5 DEF Greet, ConnTypes
<1>6. ASSUME NEW a \in Actions, NEW n \in {0, TickTop}, ClientSends(p, a, n)
      PROVE  ConnTypes'
  BY <1>1, <1>6, BoundsAreNats DEF ClientSends, ConnTypes
<1> QED
  BY <1>2, <1>3, <1>4, <1>5, <1>6 DEF Client

LEMMA TimerTypes ==
  ASSUME TypeOK, TimerFires \/ CallbackLocks \/ CallbackPosts
  PROVE  LoopTypes' /\ ConnTypes'
<1>1. UNCHANGED <<loop, conns>>
  BY DEF TimerFires, CallbackLocks, CallbackPosts
<1>2. ConnTypes' /\ StateTypes'
  BY <1>1, TypesTogether DEF LoopTypes, StateTypes, ConnTypes, loop, conns
<1>3. /\ armed' \in Timers \cup {"none"} /\ stopped' \in BOOLEAN
      /\ fired' \in Timers \cup {"none"} /\ posting' \in Timers \cup {"none"}
  BY DEF TypeOK, TimerFires, CallbackLocks, CallbackPosts
<1> QED
  BY <1>2, <1>3 DEF LoopTypes

LEMMA ActionTypes ==
  ASSUME TypeOK, NEW e \in Event, e.type = "Action",
         Refuse(e) \/ JoinGame(e) \/ Surrender(e) \/ \E k \in SUBSET Players : UseCard(e, k)
  PROVE  LoopTypes'
<1>0. LoopTypes /\ e.player \in Players
  BY TypesTogether, ActionHasPlayer
<1>1. CASE Refuse(e)
  BY <1>0, <1>1 DEF Refuse, LoopTypes, StateTypes, loop, timer
<1>2. CASE JoinGame(e)
  <2>1. /\ armed' \in Timers \cup {"none"} /\ stopped' \in BOOLEAN
        /\ fired' = fired /\ posting' = posting
    BY <1>0, <1>2 DEF JoinGame, StartTimer, timer, LoopTypes, Timers
  <2>2. seq' \in [Players -> Nat]
    BY <1>0, <1>2 DEF JoinGame, LoopTypes, StateTypes
  <2> QED
    BY <1>0, <1>2, <2>1, <2>2 DEF JoinGame, LoopTypes, StateTypes, Phases
<1>3. CASE Surrender(e)
  <2>1. seq' \in [Players -> Nat] /\ Opponent(e.player) \in Players
    BY <1>0, <1>3 DEF Surrender, LoopTypes, StateTypes, Opponent, Players
  <2> QED
    BY <1>0, <1>3, <2>1 DEF Surrender, LoopTypes, StateTypes, Phases, timer
<1>4. ASSUME NEW k \in SUBSET Players, UseCard(e, k)
      PROVE  LoopTypes'
  BY <1>0, <1>4 DEF UseCard, LoopTypes, StateTypes, timer
<1> QED
  BY <1>1, <1>2, <1>3, <1>4

LEMMA LoopStepTypes ==
  ASSUME TypeOK, Loop
  PROVE  LoopTypes' /\ ConnTypes'
<1>0. LoopTypes /\ ConnTypes /\ events \in Seq(Event)
  BY TypesTogether
<1>1. ConnTypes'
  <2>1. UNCHANGED conns
    BY DEF Loop, HandleEvent, HandleClientAction, HandlePreTurnEnd, HandleRoundEnd,
           HandleDisconnect, FinishTick
  <2> QED
    BY <1>0, <2>1 DEF ConnTypes, conns
<1>2. CASE HandleClientAction
  <2>1. Head(events) \in Event /\ Head(events).type = "Action"
    BY <1>0, <1>2, TakeShape DEF HandleClientAction
  <2> QED
    BY <1>1, <1>2, <2>1, ActionTypes DEF HandleClientAction
<1>3. CASE HandlePreTurnEnd
  BY <1>0, <1>1, <1>3 DEF HandlePreTurnEnd, StartTimer, timer, LoopTypes, StateTypes, Phases, Timers
<1>4. CASE HandleRoundEnd
  <2>1. elixirCap' \in StartingElixirCap..MaxElixir
    BY <1>0, <1>4, CapsAreNats DEF HandleRoundEnd, LoopTypes, StateTypes
  <2> QED
    BY <1>0, <1>1, <1>4, <2>1
       DEF HandleRoundEnd, StartTimer, timer, LoopTypes, StateTypes, Phases, Timers
<1>5. CASE HandleDisconnect
  BY <1>0, <1>1, <1>5 DEF HandleDisconnect, LoopTypes, StateTypes, timer
<1>6. CASE FinishTick
  <2>1. tick' \in 0..TickTop
    BY <1>0, <1>6, TickTopIsNat DEF FinishTick, CountTick, LoopTypes, StateTypes
  <2>2. /\ dead' \in SUBSET Players
        /\ phase' \in Phases /\ winner' \in Players \cup {0}
        /\ UNCHANGED timer \/ StopTimer
    BY <1>0, <1>6 DEF FinishTick, WinnerGiven, LoopTypes, StateTypes, Phases, Players
  <2>3. dirty' = FALSE /\ UNCHANGED <<elixirCap, seq>>
    BY <1>6 DEF FinishTick
  <2> QED
    BY <1>0, <1>1, <2>1, <2>2, <2>3 DEF StopTimer, timer, LoopTypes, StateTypes
<1> QED
  BY <1>2, <1>3, <1>4, <1>5, <1>6 DEF Loop, HandleEvent

\* A new connection owes its JOIN_GAME.
LEMMA ConnectKeepsOrder ==
  ASSUME SessionInv, NEW p \in Players, Connect(p)
  PROVE  events' \in Seq(Event) /\ missed' \in BOOLEAN /\ Ordered'
<1>1. /\ UNCHANGED <<loop, events, timer, missed>>
      /\ events \in Seq(Event) /\ missed \in BOOLEAN
      /\ greeting' = [greeting EXCEPT ![p] = @ + 1] /\ opened' = [opened EXCEPT ![p] = @ + 1]
      /\ greeting \in [Players -> Nat] /\ opened \in [Players -> 0..MaxConnections]
  BY DEF Connect, SessionInv, TypeOK
<1>2. greeting'[p] > 0 /\ opened'[p] > 0
  BY <1>1, BoundsAreNats
<1>3. JoinIsComing'
  BY <1>2 DEF JoinIsComing
<1>4. PhaseIsTimed'
  <2>1. SomethingWillEndThePhase => SomethingWillEndThePhase'
    BY <1>1, <1>3 DEF SomethingWillEndThePhase, loop, timer
  <2> QED
    BY <1>1, <2>1 DEF SessionInv, PhaseIsTimed, loop
<1>5. JoinIsOwed'
  BY <1>2, <1>3 DEF JoinIsOwed
<1>6. WinnerIsKnown' /\ OneEventInFlight' /\ TimersMatchPhase'
  BY <1>1 DEF SessionInv, WinnerIsKnown, OneEventInFlight, TimersMatchPhase, TimerOf, loop, timer
<1> QED
  BY <1>1, <1>4, <1>5, <1>6 DEF Ordered

LEMMA VarsUnchanged == SessionInv /\ UNCHANGED vars => SessionInv'
BY DEF vars, loop, timer, conns, SessionInv, TypeOK, PhaseIsTimed, JoinIsOwed, JoinIsComing,
       SomethingWillEndThePhase, WinnerIsKnown, OneEventInFlight, TimersMatchPhase, TimerOf

----------------------------------------------------------------------------
(* The theorems.                                                           *)

LEMMA InvTogether ==
  LoopTypes' /\ ConnTypes' /\ events' \in Seq(Event) /\ missed' \in BOOLEAN /\ Ordered'
    => SessionInv'
BY DEF SessionInv, Ordered, TypeOK, LoopTypes, StateTypes, ConnTypes

\* Every step keeps the invariant.
LEMMA StepOK ==
  ASSUME SessionInv, [Next]_vars
  PROVE  SessionInv'
<1>0. TypeOK /\ missed \in BOOLEAN /\ "Action" \notin Timers /\ "Disconnect" \notin Timers
  BY DEF SessionInv, TypeOK, Timers
<1>1. CASE Loop
  <2>1. LoopTypes' /\ ConnTypes'
    BY <1>0, <1>1, LoopStepTypes
  <2>2. missed' \in BOOLEAN
    BY <1>0, <1>1 DEF Loop, HandleEvent, HandleClientAction, HandlePreTurnEnd,
        HandleRoundEnd, HandleDisconnect, FinishTick, JoinGame, Surrender, UseCard, Refuse
  <2>3. CASE HandleClientAction
    <3>1. Takes("Action") /\ UNCHANGED conns
      BY <2>3 DEF HandleClientAction
    <3>2. \/ Head(events).action \in {"JOIN_GAME", "RECONNECT"} /\ JoinGame(Head(events))
          \/ Surrender(Head(events))
          \/ Refuse(Head(events)) \/ \E k \in SUBSET Players : UseCard(Head(events), k)
      BY <2>3 DEF HandleClientAction
    <3>3. events' \in Seq(Event) /\ Ordered'
      BY <3>1, <3>2, JoinKeepsOrder, SurrenderKeepsOrder, OtherActionsKeepOrder
    <3> QED
      BY <2>1, <2>2, <3>3, InvTogether
  <2>4. CASE HandlePreTurnEnd \/ HandleRoundEnd
    BY <2>1, <2>2, <2>4, TimerEventKeepsOrder, InvTogether
  <2>5. CASE HandleDisconnect
    <3>1. Takes("Disconnect") /\ UNCHANGED <<phase, winner, timer, conns, missed>>
      BY <2>5 DEF HandleDisconnect
    <3>2. ~StartsPreTurn(Head(events))
      BY <3>1 DEF Takes, StartsPreTurn
    <3>3. events' \in Seq(Event) /\ Ordered'
      BY <1>0, <3>1, <3>2, LoopTakesOther
    <3> QED
      BY <2>1, <2>2, <3>3, InvTogether
  <2>6. CASE FinishTick
    BY <2>1, <2>2, <2>6, FinishTickKeepsOrder, InvTogether
  <2> QED
    BY <1>1, <2>3, <2>4, <2>5, <2>6 DEF Loop, HandleEvent
<1>2. CASE TimerFires \/ CallbackLocks
  <2>1. missed' = missed
    BY <1>2 DEF TimerFires, CallbackLocks
  <2> QED
    BY <1>0, <1>2, <2>1, TimerTypes, CallbacksKeepOrder, InvTogether
<1>3. CASE CallbackPosts
  BY <1>0, <1>3, TimerTypes, CallbackPostsKeepsOrder, InvTogether
<1>4. ASSUME NEW p \in Players, Client(p) \/ Greet(p)
      PROVE  SessionInv'
  <2>1. LoopTypes' /\ ConnTypes'
    BY <1>0, <1>4, ClientTypes
  <2>2. CASE Connect(p)
    BY <1>0, <2>1, <2>2, ConnectKeepsOrder, InvTogether
  <2>3. CASE Disconnect(p)
    <3> DEFINE e == [type |-> "Disconnect", player |-> p]
    <3>1. e \in Event /\ ~IsTimerEvent(e)
      BY DEF Event, IsTimerEvent, Timers
    <3>2. /\ UNCHANGED <<loop, timer, opened, greeting>> /\ QueueEvent(e)
          /\ \E q \in Players : opened[q] > 0
      BY <2>3 DEF Disconnect, SessionInv, JoinIsOwed
    <3>3. events' \in Seq(Event) /\ missed' \in BOOLEAN /\ Ordered'
      BY <3>1, <3>2, ClientQueues
    <3> QED
      BY <2>1, <3>3, InvTogether
  <2>4. ASSUME NEW a \in Actions, NEW n \in {0, TickTop}, ClientSends(p, a, n)
        PROVE  SessionInv'
    <3> DEFINE e == [type |-> "Action", player |-> p, action |-> a, seq |-> n]
    <3>1. e \in Event /\ ~IsTimerEvent(e)
      BY TickTopIsNat DEF Event, IsTimerEvent, Timers
    <3>2. /\ UNCHANGED <<loop, timer, opened, greeting>> /\ QueueEvent(e)
          /\ \E q \in Players : opened[q] > 0
      BY <2>4 DEF ClientSends, SessionInv, JoinIsOwed
    <3>3. events' \in Seq(Event) /\ missed' \in BOOLEAN /\ Ordered'
      BY <3>1, <3>2, ClientQueues
    <3> QED
      BY <2>1, <3>3, InvTogether
  <2>5. CASE Greet(p)
    <3> DEFINE e == [type |-> "Action", player |-> p, action |-> "JOIN_GAME", seq |-> seq[p]]
    <3>1. e \in Event /\ ~IsTimerEvent(e) /\ StartsPreTurn(e)
      BY <1>0 DEF Event, IsTimerEvent, StartsPreTurn, Timers, Actions, TypeOK
    <3>2. /\ UNCHANGED <<loop, timer, opened>> /\ QueueEvent(e)
          /\ \E q \in Players : opened[q] > 0
      BY <2>5 DEF Greet, SessionInv, JoinIsOwed
    <3>3. events' \in Seq(Event) /\ missed' \in BOOLEAN /\ Ordered'
      BY <3>1, <3>2, ClientQueues
    <3> QED
      BY <2>1, <3>3, InvTogether
  <2> QED
    BY <1>4, <2>2, <2>3, <2>4, <2>5 DEF Client
<1>5. CASE UNCHANGED vars
  BY <1>5, VarsUnchanged
<1> QED
  BY <1>1, <1>2, <1>3, <1>4, <1>5 DEF Next

\* At any capacity of the queue and whatever the clients do: a phase has
\* something left to end it unless an event was missed, the winner is known
\* exactly when the game is over, and every timer, callback or timer event
\* belongs to the current phase.
THEOREM SessionInvariant == Spec => []SessionInv
<1>1. Init => SessionInv
  BY InitOK
<1>2. SessionInv /\ [Next]_vars => SessionInv'
  BY StepOK
<1> QED
  BY <1>1, <1>2, PTL DEF Spec

\* A timer event is handled in the phase it was meant for.
THEOREM RoundsCycle == Spec => []RoundCycle
<1>1. SessionInv => RoundCycle
  <2> SUFFICES ASSUME SessionInv, events # <<>>, phase # "GAME_OVER",
                      Head(events).type \in Timers
               PROVE  /\ Head(events).type = "PreTurnEnd" => phase = "PRE_TURN"
                      /\ Head(events).type = "RoundEnd" => phase = "ACTIVE"
    BY DEF RoundCycle, Timers
  <2>1. events \in Seq(Event)
    BY DEF SessionInv, TypeOK
  <2>2. Head(events) = events[1] /\ 1 \in 1..Len(events)
    BY <2>1
  <2>3. phase \in Phases
    BY DEF SessionInv, TypeOK
  <2> QED
    BY <2>2, <2>3 DEF SessionInv, TimersMatchPhase, TimerOf, IsTimerEvent, Phases
<1> QED
  BY <1>1, SessionInvariant, PTL

\* No timer, join or reconnect brings a finished game back.
THEOREM GameOverStays == Spec => GameOverIsFinal
<1>1. [Next]_vars => [phase = "GAME_OVER" => phase' = "GAME_OVER"]_vars
  <2> SUFFICES ASSUME Next, phase = "GAME_OVER" PROVE phase' = "GAME_OVER"
    OBVIOUS
  <2>1. CASE HandleClientAction
    BY <2>1 DEF HandleClientAction, Refuse, JoinGame, Surrender, UseCard, loop
  <2>2. CASE HandlePreTurnEnd \/ HandleRoundEnd \/ HandleDisconnect
    BY <2>2 DEF HandlePreTurnEnd, HandleRoundEnd, HandleDisconnect
  <2>3. CASE FinishTick
    BY <2>3 DEF FinishTick
  <2>4. CASE TimerFires \/ CallbackLocks \/ CallbackPosts
    BY <2>4 DEF TimerFires, CallbackLocks, CallbackPosts, loop
  <2>5. ASSUME NEW p \in Players, Client(p) \/ Greet(p)
        PROVE  phase' = "GAME_OVER"
    BY <2>5 DEF Client, Connect, Disconnect, ClientSends, Greet, loop
  <2> QED
    BY <2>1, <2>2, <2>3, <2>4, <2>5 DEF Next, Loop, HandleEvent
<1> QED
  BY <1>1, PTL DEF Spec, GameOverIsFinal
=============================================================================
