----------------------------- MODULE Connections -----------------------------
(***************************************************************************)
(* The WebSocket connections of one session id and the registry of games   *)
(* (services/gameplay: websocket.go, manager.go, handleWebSocket of        *)
(* main.go), with the part of the game loop that talks to them.            *)
(*                                                                         *)
(* The goroutines are the handler of each upgrade, the read and the write  *)
(* pump of each connection, the loop of each game (which nothing stops,    *)
(* also when its game leaves the registry) and the cleanup.  They share    *)
(* the registry, the slots and the queue of a game, and each connection's  *)
(* channel and closed flag.                                                *)
(*                                                                         *)
(* Abstracted: the game (a state of it is only the current one or an old   *)
(* one; whether an action succeeds, and when the game is over, is left     *)
(* open), the message a write pump holds (it is still the first of its     *)
(* channel), and durations: half an hour may pass between any two steps.   *)
(***************************************************************************)
EXTENDS Integers, Sequences

CONSTANTS
  SendSize,     \* capacity of PlayerConnection.Send (256)
  QueueSize,    \* capacity of GameLoop.events (64)
  MaxConns,     \* bound: WebSocket upgrades requested
  MaxGames      \* bound: games created for the session id

ASSUME SizesArePositive == SendSize \in Nat \ {0} /\ QueueSize \in Nat \ {0}
ASSUME BoundsAreNats == MaxConns \in Nat /\ MaxGames \in Nat

VARIABLES
  registered,       \* GameStateManager.sessions[id]: a game, or 0
  created,          \* the games are numbered in the order of their creation
  phase,            \* of a game: "waiting", "playing" or "over"
  slot,             \* Player1Conn, Player2Conn of a game
  events, dirty,    \* the queue and the flag of its loop
  sending,          \* the connection its broadcast has looked up: <<player, conn>>
  handler,          \* what the handler of an upgrade does next ("none": not
                    \* requested), or "done", or "failed"
  game, player,     \* the fields of a PlayerConnection
  link,             \* the socket: "none", "up", "gone" (only the server's end is
                    \* left), "down"
  closed, send,
  reader, writer,   \* the pumps: "none", "running", "ended"
  shown,            \* whether the client displays the current state
  reached           \* (history) the open connections whose JOIN_GAME the loop has
                    \* accepted, or whose channel took the state it sent last

registry == <<registered, created>>
loops == <<phase, events, dirty, sending>>
handling == <<handler, game, player>>
pumps == <<link, closed, reader, writer>>
mail == <<send, shown, reached>>
vars == <<registry, slot, loops, handling, pumps, mail>>

Players == {1, 2}
Opponent(p) == 3 - p
Games == 1..MaxGames
Conns == 1..MaxConns   \* in the order of the requests
NoConn == 0
Updates == {"current", "old"}
Messages == Updates \cup {"answer"}
Event == [type : {"Join", "Action"}, conn : Conns] \cup [type : {"Disconnect"}]
Draining == <<>>
\* Of a handler: before Upgrade, SetPlayerConnection, the start of the pumps, and
\* ProcessAction.
Positions == {"upgrade", "attach", "startPumps", "join", "done"}

TypeOK ==
  /\ created \in 0..MaxGames /\ registered \in 0..created
  /\ phase \in [Games -> {"waiting", "playing", "over"}]
  /\ slot \in [Games -> [Players -> Conns \cup {NoConn}]]
  /\ events \in [Games -> Seq(Event)] /\ \A g \in Games : Len(events[g]) <= QueueSize
  /\ dirty \in [Games -> BOOLEAN]
  /\ sending \in [Games -> {Draining} \cup (Players \X (Conns \cup {NoConn}))]
  /\ handler \in [Conns -> {"none", "failed"} \cup Positions]
  /\ game \in [Conns -> Games \cup {0}] /\ player \in [Conns -> Players \cup {0}]
  /\ link \in [Conns -> {"none", "up", "gone", "down"}]
  /\ closed \in [Conns -> BOOLEAN]
  /\ send \in [Conns -> Seq(Messages)] /\ \A c \in Conns : Len(send[c]) <= SendSize
  /\ reader \in [Conns -> {"none", "running", "ended"}]
  /\ writer \in [Conns -> {"none", "running", "ended"}]
  /\ shown \in [Conns -> Updates]
  /\ reached \in SUBSET Conns

Init ==
  /\ registered = 0 /\ created = 0
  /\ phase = [g \in Games |-> "waiting"]
  /\ slot = [g \in Games |-> [p \in Players |-> NoConn]]
  /\ events = [g \in Games |-> <<>>]
  /\ dirty = [g \in Games |-> FALSE]
  /\ sending = [g \in Games |-> Draining]
  /\ handler = [c \in Conns |-> "none"]
  /\ game = [c \in Conns |-> 0] /\ player = [c \in Conns |-> 0]
  /\ link = [c \in Conns |-> "none"]
  /\ closed = [c \in Conns |-> FALSE]
  /\ send = [c \in Conns |-> <<>>]
  /\ reader = [c \in Conns |-> "none"] /\ writer = [c \in Conns |-> "none"]
  /\ shown = [c \in Conns |-> "old"]
  /\ reached = {}

----------------------------------------------------------------------------
(* Channels and queues.                                                    *)

\* A non-blocking send: a full queue drops the event.
QueueEvent(g, e) ==
  events' = IF Len(events[g]) < QueueSize THEN [events EXCEPT ![g] = Append(@, e)] ELSE events

\* Deviation: the closed flag is not looked at.
SentUnchecked(channels, c, m) ==
  IF c = NoConn THEN channels
  ELSE IF Len(channels[c]) >= SendSize
  THEN channels ELSE [channels EXCEPT ![c] = Append(@, m)]

\* SendMessage, under the connection's mutex: a closed connection and a full
\* channel refuse the message, and no caller looks at the error.
Sent(channels, c, m) ==
  IF c = NoConn THEN channels
  ELSE IF closed[c] \/ Len(channels[c]) >= SendSize
  THEN channels ELSE [channels EXCEPT ![c] = Append(@, m)]

Aged(x) == IF x = "current" THEN "old" ELSE x

\* Deviation: the loop is not told to broadcast.
ChangesQuietly(g, channels) ==
  /\ UNCHANGED dirty
  /\ shown' = [c \in Conns |-> IF game[c] = g THEN Aged(shown[c]) ELSE shown[c]]
  /\ send' = [c \in Conns |->
       IF game[c] = g THEN [i \in DOMAIN channels[c] |-> Aged(channels[c][i])]
       ELSE channels[c]]

\* The state of the game changes: what was the current state is an old one.
Changes(g, channels) ==
  /\ dirty' = [dirty EXCEPT ![g] = TRUE]
  /\ shown' = [c \in Conns |-> IF game[c] = g THEN Aged(shown[c]) ELSE shown[c]]
  /\ send' = [c \in Conns |->
       IF game[c] = g THEN [i \in DOMAIN channels[c] |-> Aged(channels[c][i])]
       ELSE channels[c]]

\* What is left in a closed channel can not be written any more, and the page
\* of a closed connection is gone.
Forget(c) ==
  /\ send' = [send EXCEPT ![c] = <<>>]
  /\ shown' = [shown EXCEPT ![c] = "old"]
  /\ reached' = reached \ {c}

\* Deviation: the socket is left to the other pump.
CloseKeepingSocket(c) ==
  IF closed[c] THEN UNCHANGED <<closed, link, events, mail>>
  ELSE /\ closed' = [closed EXCEPT ![c] = TRUE]
       /\ QueueEvent(game[c], [type |-> "Disconnect"])
       /\ Forget(c)
       /\ UNCHANGED link

\* Close, under the mutex and once: the flag, the channel, the socket, and one event.
Close(c) ==
  IF closed[c] THEN UNCHANGED <<closed, link, events, mail>>
  ELSE /\ closed' = [closed EXCEPT ![c] = TRUE]
       /\ link' = [link EXCEPT ![c] = "down"]
       /\ QueueEvent(game[c], [type |-> "Disconnect"])
       /\ Forget(c)

----------------------------------------------------------------------------
(* handleWebSocket.                                                        *)

\* GetOrCreateSession, under the manager's mutex; NewGameSession starts the loop.
GetOrCreateSession ==
  \/ registered # 0 /\ UNCHANGED registry
  \/ /\ registered = 0 /\ created < MaxGames
     /\ created' = created + 1
     /\ registered' = created + 1

\* By a player of the session, which the database still calls in progress.
Request(c, p) ==
  /\ handler[c] = "none" /\ \A d \in 1..c - 1 : handler[d] # "none"
  /\ GetOrCreateSession
  /\ handler' = [handler EXCEPT ![c] = "upgrade"]
  /\ game' = [game EXCEPT ![c] = registered']
  /\ player' = [player EXCEPT ![c] = p]
  /\ UNCHANGED <<slot, loops, pumps, mail>>

\* The handler goes from one position to the next.
Moves(c, from, to) == handler[c] = from /\ handler' = [handler EXCEPT ![c] = to]

UpgradeFails(c) ==
  /\ Moves(c, "upgrade", "failed")
  /\ UNCHANGED <<registry, slot, loops, game, player, pumps, mail>>

Upgrade(c) ==
  /\ Moves(c, "upgrade", "attach")
  /\ link' = [link EXCEPT ![c] = "up"]
  /\ UNCHANGED <<registry, slot, loops, game, player, closed, reader, writer, mail>>

\* SetPlayerConnection, under the session's mutex: another connection is replaced
\* without being closed.
SetPlayerConnection(c) ==
  /\ Moves(c, "attach", "startPumps")
  /\ slot' = [slot EXCEPT ![game[c]][player[c]] = c]
  /\ UNCHANGED <<registry, loops, game, player, pumps, mail>>

\* go WritePump() and go ReadPump(): each of them runs when it is scheduled.
StartPumps(c) ==
  /\ Moves(c, "startPumps", "join")
  /\ reader' = [reader EXCEPT ![c] = "running"]
  /\ writer' = [writer EXCEPT ![c] = "running"]
  /\ UNCHANGED <<registry, slot, loops, game, player, link, closed, mail>>

\* ProcessAction queues the automatic JOIN_GAME, also of a connection that its
\* pumps have closed meanwhile.
ProcessAction(c) ==
  /\ Moves(c, "join", "done")
  /\ QueueEvent(game[c], [type |-> "Join", conn |-> c])
  /\ UNCHANGED <<registry, phase, slot, dirty, sending, game, player, pumps, mail>>

----------------------------------------------------------------------------
(* The clients and the pumps.                                              *)

\* The client closes the page, or the network fails without a word.
ClientLeaves(c) ==
  /\ link[c] = "up"
  /\ link' = [link EXCEPT ![c] = "gone"]
  /\ UNCHANGED <<registry, slot, loops, handling, closed, reader, writer, mail>>

\* ReadPump: a message becomes an event, a malformed one is answered at once.
Read(c) ==
  /\ reader[c] = "running" /\ link[c] = "up"
  /\ \/ QueueEvent(game[c], [type |-> "Action", conn |-> c]) /\ UNCHANGED send
     \/ send' = Sent(send, c, "answer") /\ UNCHANGED events
  /\ UNCHANGED <<registry, phase, slot, dirty, sending, handling, pumps, shown, reached>>

\* Deviation: the pump returns without closing.
ReadFailsSilently(c) ==
  /\ reader[c] = "running"
  /\ link[c] # "up"
  /\ reader' = [reader EXCEPT ![c] = "ended"]
  /\ UNCHANGED <<registry, slot, loops, handling, link, closed, writer, mail>>

\* The read fails: the socket is closed, or no pong has come before PongWait.
ReadFails(c) ==
  /\ reader[c] = "running"
  /\ link[c] # "up"
  /\ reader' = [reader EXCEPT ![c] = "ended"]
  /\ Close(c)
  /\ UNCHANGED <<registry, phase, slot, dirty, sending, handling, writer>>

\* WritePump: a message arrives at the client.
Write(c) ==
  /\ writer[c] = "running" /\ link[c] = "up"
  /\ send[c] # <<>>
  /\ send' = [send EXCEPT ![c] = Tail(@)]
  /\ shown' = IF Head(send[c]) \in Updates
              THEN [shown EXCEPT ![c] = Head(send[c])] ELSE shown
  /\ UNCHANGED <<registry, slot, loops, handling, pumps, reached>>

\* A write or a ping fails, also to a client that reads too slowly (WriteWait),
\* or the channel is closed.
WriteFails(c) ==
  /\ writer[c] = "running"
  /\ link[c] # "up" \/ closed[c] \/ send[c] # <<>>
  /\ writer' = [writer EXCEPT ![c] = "ended"]
  /\ Close(c)
  /\ UNCHANGED <<registry, phase, slot, dirty, sending, handling, reader>>

----------------------------------------------------------------------------
(* The loop of a game.                                                     *)

\* handleClientAction: too far behind, or refused by its handler.
Refuse(e) ==
  /\ send' = Sent(send, e.conn, "answer")
  /\ UNCHANGED <<phase, dirty, shown, reached>>

\* An action that succeeds is acknowledged; JOIN_GAME tells both players first,
\* a surrender ends the game.
Accept(g, e) ==
  \/ /\ e.type = "Join"
     /\ LET mine == Sent(send, e.conn, "answer")
            both == Sent(mine, slot[g][Opponent(player[e.conn])], "answer")
        IN Changes(g, Sent(both, e.conn, "answer"))
     /\ reached' = IF closed[e.conn] THEN reached ELSE reached \cup {e.conn}
     /\ phase' = [phase EXCEPT ![g] = IF @ = "waiting" THEN "playing" ELSE @]
  \/ /\ e.type = "Action"
     /\ Changes(g, Sent(send, e.conn, "answer"))
     /\ phase' \in {phase, [phase EXCEPT ![g] = "over"]}
     /\ UNCHANGED reached

\* drainEvents, one event; a disconnect only makes the tick broadcast.
HandleEvent(g) ==
  /\ sending[g] = Draining
  /\ events[g] # <<>>
  /\ events' = [events EXCEPT ![g] = Tail(@)]
  /\ LET e == Head(events[g]) IN
     \/ e.type = "Disconnect" /\ Changes(g, send) /\ UNCHANGED <<phase, reached>>
     \/ e.type # "Disconnect" /\ (Refuse(e) \/ Accept(g, e))
  /\ UNCHANGED <<registry, slot, sending, handling, pumps>>

\* Time passes in the game: elixir, charges, the timers, the win condition.
Play(g) ==
  /\ phase[g] = "playing"
  /\ sending[g] = Draining
  /\ Changes(g, send)
  /\ phase' \in {phase, [phase EXCEPT ![g] = "over"]}
  /\ UNCHANGED <<registry, slot, events, sending, handling, pumps, reached>>

\* broadcastTickUpdate looks a connection up and then sends to it.
Broadcast(g) ==
  /\ sending[g] = Draining
  /\ dirty[g] /\ events[g] = <<>>
  /\ sending' = [sending EXCEPT ![g] = <<1, slot[g][1]>>]
  /\ UNCHANGED <<registry, phase, slot, events, dirty, handling, pumps, mail>>

SendUpdate(g) ==
  /\ sending[g] # Draining
  /\ LET p == sending[g][1]  c == sending[g][2] IN
     /\ send' = Sent(send, c, "current")
     /\ reached' = IF send' = send THEN reached \ {c} ELSE reached \cup {c}
     /\ sending' = [sending EXCEPT ![g] = IF p = 1 THEN <<2, slot[g][2]>> ELSE Draining]
     /\ dirty' = [dirty EXCEPT ![g] = (p = 1)]
  /\ UNCHANGED <<registry, phase, slot, events, handling, pumps, shown>>

\* CleanupInactiveSessions, of a game that is over or without action for half an
\* hour: neither its loop nor its connections are stopped.
Cleanup ==
  /\ registered # 0
  /\ registered' = 0
  /\ UNCHANGED <<created, slot, loops, handling, pumps, mail>>

LoopStep(g) == HandleEvent(g) \/ Broadcast(g) \/ SendUpdate(g)
HandlerStep(c) ==
  \/ UpgradeFails(c) \/ Upgrade(c) \/ SetPlayerConnection(c)
  \/ StartPumps(c) \/ ProcessAction(c)
WriterStep(c) == Write(c) \/ WriteFails(c)

Next ==
  \/ \E c \in Conns, p \in Players : Request(c, p)
  \/ \E c \in Conns : \/ HandlerStep(c) \/ ClientLeaves(c)
                      \/ Read(c) \/ ReadFails(c) \/ WriterStep(c)
  \/ \E g \in Games : LoopStep(g) \/ Play(g)
  \/ Cleanup

Spec == Init /\ [][Next]_vars

\* The goroutines of a connection and the loops run on, and the deadlines of the
\* sockets pass.  It is enough that some goroutine of a connection takes a step when
\* one can; clients, games and the cleanup owe nothing.
Fairness ==
  /\ \A c \in Conns : WF_vars(HandlerStep(c) \/ ReadFails(c) \/ WriterStep(c))
  /\ \A g \in Games : WF_vars(LoopStep(g))

FairSpec == Spec /\ Fairness
----------------------------------------------------------------------------
(* Properties.                                                             *)

Attached(c) == handler[c] \in {"startPumps", "join", "done"}
Serves(c) == link[c] = "up" /\ ~closed[c] /\ slot[game[c]][player[c]] = c

\* A pump that has ended has closed its connection, and a closed connection has
\* no socket, so that the other pump can end, also one that its handler has still
\* to start.
PumpsShareFate ==
  \A c \in Conns :
    /\ reader[c] = "ended" \/ writer[c] = "ended" => closed[c]
    /\ closed[c] <=> link[c] = "down"
    /\ link[c] = "none" <=> handler[c] \in {"none", "upgrade", "failed"}
    /\ writer[c] # "none" <=> handler[c] \in {"join", "done"}
    /\ reader[c] # "none" <=> handler[c] \in {"join", "done"}
    /\ c \in reached => ~closed[c]
    /\ handler[c] # "none" => game[c] \in Games /\ player[c] \in Players

\* Slots, broadcasts and events hold connections that were attached to their game,
\* and an event is from a connection whose pumps were started.
PointersAreAttached ==
  /\ \A g \in Games, p \in Players : slot[g][p] # NoConn =>
       Attached(slot[g][p]) /\ game[slot[g][p]] = g /\ player[slot[g][p]] = p
  /\ \A g \in Games : sending[g] # Draining /\ sending[g][2] # NoConn =>
       Attached(sending[g][2]) /\ game[sending[g][2]] = g
  /\ \A g \in Games : \A i \in 1..Len(events[g]) : events[g][i].type # "Disconnect" =>
       reader[events[g][i].conn] # "none" /\ game[events[g][i].conn] = g

\* What a client displays never goes back to an older state: no old state is in
\* a channel after the current one, or when the current one is displayed.
InOrder(queue, displayed) ==
  /\ displayed = "current" => \A i \in 1..Len(queue) : queue[i] # "old"
  /\ \A i, j \in 1..Len(queue) : i < j /\ queue[i] = "current" => queue[j] # "old"

NeverBackwards == \A c \in Conns : InOrder(send[c], shown[c])

ConnectionsInv == TypeOK /\ PumpsShareFate /\ PointersAreAttached /\ NeverBackwards

\* A send on a closed channel would crash the service: whoever still holds a
\* closed connection (a slot, a broadcast, an event, a pump) sends nothing to it.
ClosedIsSilent ==
  [][\A c \in Conns : closed[c] => closed'[c] /\ Len(send'[c]) <= Len(send[c])]_vars

\* A connection whose client has gone, or that one pump has closed, loses both
\* pumps, also when another connection has taken its slot or its game is not
\* registered any more.
PumpsEnd ==
  []<>(\A c \in Conns :
         closed[c] \/ link[c] = "gone" => reader[c] = "ended" /\ writer[c] = "ended")

\* The connection in a player's slot displays the current state again and again
\* unless the game keeps changing, the channel was full at the last broadcast,
\* or the loop refused its JOIN_GAME and has not broadcast since.
NewestArrives ==
  \A c \in Conns : []<>(Serves(c) /\ c \in reached => shown[c] = "current" \/ dirty[game[c]])

=============================================================================
