-------------------------- MODULE ConnectionsProofs --------------------------
(***************************************************************************)
(* Proofs about the connections, for any number of sockets and of games    *)
(* and any capacities of the channels and queues.                          *)
(***************************************************************************)
EXTENDS Connections, TLAPS

USE SizesArePositive, BoundsAreNats

----------------------------------------------------------------------------
(* The channels.                                                           *)

\* A channel that may be there when its client displays d.
Fine(q, d) == q \in Seq(Messages) /\ Len(q) <= SendSize /\ InOrder(q, d)

ChannelsFine(channels) ==
  /\ channels \in [Conns -> Seq(Messages)]
  /\ \A c \in Conns : Fine(channels[c], shown[c])

\* What SendMessage does to a channel: nothing, unless it is open and has room.
LEMMA SentIsFine ==
  ASSUME NEW channels, ChannelsFine(channels), closed \in [Conns -> BOOLEAN],
         NEW c \in Conns \cup {NoConn}, NEW m \in {"answer", "current"}
  PROVE  /\ ChannelsFine(Sent(channels, c, m))
         /\ \A d \in Conns : closed[d] => Sent(channels, c, m)[d] = channels[d]
         /\ c = NoConn => Sent(channels, c, m) = channels
<1>1. CASE c = NoConn \/ closed[c] \/ Len(channels[c]) >= SendSize
  BY <1>1 DEF Sent
<1>2. CASE c \in Conns /\ ~closed[c] /\ ~(Len(channels[c]) >= SendSize)
  <2>1. c # NoConn
    BY <1>2 DEF Conns, NoConn
  <2>2. Sent(channels, c, m) = [channels EXCEPT ![c] = Append(@, m)]
    BY <1>2, <2>1 DEF Sent
  <2>3. channels[c] \in Seq(Messages) /\ InOrder(channels[c], shown[c])
    BY <1>2 DEF ChannelsFine, Fine
  <2>4. Append(channels[c], m) \in Seq(Messages) /\ Len(Append(channels[c], m)) <= SendSize
    BY <1>2, <2>3 DEF Messages, Updates
  <2>5. InOrder(Append(channels[c], m), shown[c])
    BY <2>3 DEF InOrder
  <2> QED
    BY <1>2, <2>1, <2>2, <2>4, <2>5 DEF ChannelsFine, Fine
<1> QED
  BY <1>1, <1>2 DEF NoConn

\* When the state of a game changes, the channels keep their lengths and there is
\* no current state in them any more.
LEMMA AgedIsFine ==
  ASSUME NEW g \in Games, NEW channels, ChannelsFine(channels),
         shown \in [Conns -> Updates], dirty \in [Games -> BOOLEAN], Changes(g, channels)
  PROVE  /\ ChannelsFine(send)'
         /\ shown' \in [Conns -> Updates]
         /\ dirty' \in [Games -> BOOLEAN]
         /\ \A d \in Conns : Len(send'[d]) = Len(channels[d])
<1>1. ASSUME NEW q \in Seq(Messages)
      PROVE  /\ [i \in DOMAIN q |-> Aged(q[i])] \in Seq(Messages)
             /\ Len([i \in DOMAIN q |-> Aged(q[i])]) = Len(q)
             /\ \A i \in 1..Len(q) : [k \in DOMAIN q |-> Aged(q[k])][i] = Aged(q[i])
             /\ \A i \in 1..Len(q) : Aged(q[i]) # "current"
  <2>1. DOMAIN q = 1..Len(q) /\ Len(q) \in Nat /\ \A i \in 1..Len(q) : q[i] \in Messages
    OBVIOUS
  <2>2. \A i \in 1..Len(q) : Aged(q[i]) \in Messages /\ Aged(q[i]) # "current"
    BY <2>1 DEF Aged, Messages, Updates
  <2> QED
    BY <2>1, <2>2
<1>2. shown' = [c \in Conns |-> IF game[c] = g THEN Aged(shown[c]) ELSE shown[c]]
  BY DEF Changes
<1>3. send' = [c \in Conns |->
        IF game[c] = g THEN [i \in DOMAIN channels[c] |-> Aged(channels[c][i])]
        ELSE channels[c]]
  BY DEF Changes
<1>4. ASSUME NEW d \in Conns
      PROVE  Fine(send'[d], shown'[d]) /\ Len(send'[d]) = Len(channels[d])
             /\ shown'[d] \in Updates
  <2>1. channels[d] \in Seq(Messages) /\ Fine(channels[d], shown[d])
    BY DEF ChannelsFine
  <2>2. CASE game[d] = g
    <3>1. shown'[d] = "old"
      BY <1>2, <2>2 DEF Aged, Updates
    <3>2. send'[d] = [i \in DOMAIN channels[d] |-> Aged(channels[d][i])]
      BY <1>3, <2>2
    <3>3. /\ send'[d] \in Seq(Messages) /\ Len(send'[d]) = Len(channels[d])
          /\ \A i \in 1..Len(channels[d]) : send'[d][i] # "current"
      BY <1>1, <2>1, <3>2
    <3> QED
      BY <2>1, <3>1, <3>3 DEF Fine, InOrder, Updates
  <2>3. CASE game[d] # g
    BY <1>2, <1>3, <2>1, <2>3
  <2> QED
    BY <2>2, <2>3
<1>5. send' \in [Conns -> Seq(Messages)]
  BY <1>3, <1>4 DEF Fine
<1> QED
  BY <1>2, <1>4, <1>5 DEF ChannelsFine, Changes

\* The queue of a loop.
QueuesFine ==
  events \in [Games -> Seq(Event)] /\ \A g \in Games : Len(events[g]) <= QueueSize

LEMMA QueuedIsFine ==
  ASSUME QueuesFine, NEW g \in Games, NEW e \in Event, QueueEvent(g, e)
  PROVE  /\ QueuesFine'
         /\ \A k \in Games : \A i \in 1..Len(events'[k]) :
              \/ i \in 1..Len(events[k]) /\ events'[k][i] = events[k][i]
              \/ k = g /\ events'[k][i] = e
<1>1. events[g] \in Seq(Event)
  BY DEF QueuesFine
<1>2. CASE Len(events[g]) < QueueSize
  <2>1. events' = [events EXCEPT ![g] = Append(@, e)]
    BY <1>2 DEF QueueEvent
  <2>2. /\ Append(events[g], e) \in Seq(Event)
        /\ Len(Append(events[g], e)) = Len(events[g]) + 1
        /\ \A i \in 1..Len(events[g]) + 1 :
             Append(events[g], e)[i] = IF i <= Len(events[g]) THEN events[g][i] ELSE e
    BY <1>1
  <2>3. \A k \in Games : events'[k] = IF k = g THEN Append(events[g], e) ELSE events[k]
    BY <2>1 DEF QueuesFine
  <2>4. QueuesFine'
    BY <1>1, <1>2, <2>1, <2>2, <2>3 DEF QueuesFine
  <2>5. ASSUME NEW k \in Games, NEW i \in 1..Len(events'[k])
        PROVE  \/ i \in 1..Len(events[k]) /\ events'[k][i] = events[k][i]
               \/ k = g /\ events'[k][i] = e
    <3>1. CASE k # g
      BY <2>3, <3>1
    <3>2. CASE k = g
      <4>1. events'[k] = Append(events[g], e)
        BY <2>3, <3>2
      <4>2. Len(events'[k]) = Len(events[g]) + 1
        BY <2>2, <4>1
      <4>3. i \in 1..Len(events[g]) + 1
        BY <4>2
      <4>4. events'[k][i] = IF i <= Len(events[g]) THEN events[g][i] ELSE e
        BY <2>2, <4>1, <4>3
      <4>5. i \in 1..Len(events[g]) \/ ~(i <= Len(events[g]))
        BY <1>1, <4>3
      <4> QED
        BY <3>2, <4>4, <4>5
    <3> QED
      BY <3>1, <3>2
  <2> QED
    BY <2>4, <2>5
<1>3. CASE ~(Len(events[g]) < QueueSize)
  BY <1>3 DEF QueueEvent, QueuesFine
<1> QED
  BY <1>2, <1>3

----------------------------------------------------------------------------
(* The steps.                                                              *)

Silent == \A c \in Conns : closed[c] => closed'[c] /\ Len(send'[c]) <= Len(send[c])

\* After the step: attached to its game, and with its pumps started.
Seated(c) == handler'[c] \in {"startPumps", "join", "done"}
Started(c) == reader'[c] # "none"

LEMMA MailIsFine == ConnectionsInv => ChannelsFine(send) /\ QueuesFine
BY DEF ConnectionsInv, TypeOK, ChannelsFine, Fine, NeverBackwards, QueuesFine

LEMMA EventsAreRead ==
  ASSUME ConnectionsInv, NEW g \in Games, NEW i \in 1..Len(events[g])
  PROVE  /\ events[g][i] \in Event
         /\ events[g][i].type # "Disconnect" => events[g][i].conn \in Conns
BY DEF ConnectionsInv, TypeOK, Event

\* The pointers stay good when the connections they may point to keep their pumps
\* and their seats, and what is new points to such connections.
LEMMA PointersStay ==
  ASSUME ConnectionsInv,
         \A c \in Conns : Attached(c) =>
           Seated(c) /\ game'[c] = game[c] /\ player'[c] = player[c],
         \A c \in Conns : reader[c] # "none" => Started(c),
         UNCHANGED <<slot, sending>>,
         \A g \in Games : \A i \in 1..Len(events'[g]) :
           \/ i \in 1..Len(events[g]) /\ events'[g][i] = events[g][i]
           \/ events'[g][i].type = "Disconnect"
           \/ /\ events'[g][i].conn \in Conns
              /\ Started(events'[g][i].conn) /\ game'[events'[g][i].conn] = g
  PROVE  PointersAreAttached'
<1>1. ASSUME NEW g \in Games, NEW p \in Players, slot'[g][p] # NoConn
      PROVE  Seated(slot'[g][p]) /\ game'[slot'[g][p]] = g /\ player'[slot'[g][p]] = p
  <2>1. slot[g][p] \in Conns
    BY <1>1 DEF ConnectionsInv, TypeOK
  <2> QED
    BY <1>1, <2>1 DEF ConnectionsInv, PointersAreAttached
<1>2. ASSUME NEW g \in Games, sending'[g] # Draining, sending'[g][2] # NoConn
      PROVE  Seated(sending'[g][2]) /\ game'[sending'[g][2]] = g
  <2>1. sending[g][2] \in Conns
    BY <1>2 DEF ConnectionsInv, TypeOK
  <2> QED
    BY <1>2, <2>1 DEF ConnectionsInv, PointersAreAttached
<1>3. ASSUME NEW g \in Games, NEW i \in 1..Len(events'[g]), events'[g][i].type # "Disconnect"
      PROVE  Started(events'[g][i].conn) /\ game'[events'[g][i].conn] = g
  <2>1. CASE i \in 1..Len(events[g]) /\ events'[g][i] = events[g][i]
    <3>1. events[g][i].conn \in Conns
      BY <1>3, <2>1, EventsAreRead
    <3>2. reader[events[g][i].conn] # "none" /\ game[events[g][i].conn] = g
      BY <1>3, <2>1 DEF ConnectionsInv, PointersAreAttached
    <3>3. Attached(events[g][i].conn)
      BY <3>1, <3>2 DEF ConnectionsInv, PumpsShareFate, Attached
    <3> QED
      BY <2>1, <3>1, <3>2, <3>3
  <2>2. CASE ~(i \in 1..Len(events[g]) /\ events'[g][i] = events[g][i])
    BY <1>3, <2>2
  <2> QED
    BY <2>1, <2>2
<1> QED
  BY <1>1, <1>2, <1>3 DEF PointersAreAttached, Attached, Seated, Started

LEMMA RequestStep ==
  ASSUME ConnectionsInv, NEW c \in Conns, NEW p \in Players, Request(c, p)
  PROVE  ConnectionsInv' /\ Silent
<1> USE DEF ConnectionsInv
<1>1. /\ registered' \in Games /\ created' \in 0..MaxGames /\ registered' \in 0..created'
      /\ handler[c] = "none" /\ link[c] = "none" /\ ~Attached(c)
  BY DEF Request, GetOrCreateSession, registry, TypeOK, PumpsShareFate, Games, Attached
<1>2. TypeOK'
  BY <1>1 DEF Request, TypeOK, loops, pumps, mail, Positions
<1>3. PumpsShareFate'
  BY <1>1 DEF Request, TypeOK, PumpsShareFate, pumps, mail
<1>4. /\ \A d \in Conns : Attached(d) =>
           Seated(d) /\ game'[d] = game[d] /\ player'[d] = player[d]
      /\ \A d \in Conns : reader[d] # "none" => Started(d)
  BY <1>1 DEF Request, TypeOK, Attached, Seated, Started, pumps
<1>5. PointersAreAttached'
  BY <1>4, PointersStay DEF Request, loops
<1>6. NeverBackwards' /\ Silent
  BY DEF Request, pumps, mail, NeverBackwards, InOrder, Silent, TypeOK
<1> QED
  BY <1>2, <1>3, <1>5, <1>6

LEMMA UpgradeFailsStep ==
  ASSUME ConnectionsInv, NEW c \in Conns, UpgradeFails(c)
  PROVE  ConnectionsInv' /\ Silent
<1> USE DEF ConnectionsInv
<1>1. TypeOK'
  BY DEF UpgradeFails, Moves, TypeOK, registry, loops, pumps, mail
<1>2. PumpsShareFate'
  BY DEF UpgradeFails, Moves, TypeOK, PumpsShareFate, pumps, mail
<1>3. /\ \A d \in Conns : Attached(d) =>
           Seated(d) /\ game'[d] = game[d] /\ player'[d] = player[d]
      /\ \A d \in Conns : reader[d] # "none" => Started(d)
  BY DEF UpgradeFails, Moves, TypeOK, Attached, Seated, Started, pumps
<1>4. PointersAreAttached'
  BY <1>3, PointersStay DEF UpgradeFails, loops
<1>5. NeverBackwards' /\ Silent
  BY DEF UpgradeFails, pumps, mail, NeverBackwards, InOrder, Silent, TypeOK
<1> QED
  BY <1>1, <1>2, <1>4, <1>5

LEMMA UpgradeStep ==
  ASSUME ConnectionsInv, NEW c \in Conns, Upgrade(c)
  PROVE  ConnectionsInv' /\ Silent
<1> USE DEF ConnectionsInv
<1>1. TypeOK'
  BY DEF Upgrade, Moves, TypeOK, registry, loops, mail, Positions
<1>2. PumpsShareFate'
  BY DEF Upgrade, Moves, TypeOK, PumpsShareFate, mail
<1>3. /\ \A d \in Conns : Attached(d) =>
           Seated(d) /\ game'[d] = game[d] /\ player'[d] = player[d]
      /\ \A d \in Conns : reader[d] # "none" => Started(d)
  BY DEF Upgrade, Moves, TypeOK, Attached, Seated, Started
<1>4. PointersAreAttached'
  BY <1>3, PointersStay DEF Upgrade, loops
<1>5. NeverBackwards' /\ Silent
  BY DEF Upgrade, mail, NeverBackwards, InOrder, Silent, TypeOK
<1> QED
  BY <1>1, <1>2, <1>4, <1>5

\* The slot points to the connection, and what it pointed to before is still attached
\* to the game.
LEMMA SetPlayerConnectionStep ==
  ASSUME ConnectionsInv, NEW c \in Conns, SetPlayerConnection(c)
  PROVE  ConnectionsInv' /\ Silent
<1> USE DEF ConnectionsInv
<1>1. game[c] \in Games /\ player[c] \in Players /\ handler[c] = "attach"
  BY DEF SetPlayerConnection, Moves, TypeOK, PumpsShareFate
<1>2. TypeOK'
  <2>1. slot' \in [Games -> [Players -> Conns \cup {NoConn}]]
    BY <1>1 DEF SetPlayerConnection, TypeOK
  <2> QED
    BY <2>1 DEF SetPlayerConnection, Moves, TypeOK, registry, loops, pumps, mail, Positions
<1>3. PumpsShareFate'
  BY <1>1 DEF SetPlayerConnection, Moves, TypeOK, PumpsShareFate, pumps, mail
<1>4. /\ \A d \in Conns : Attached(d) => Seated(d)
      /\ Seated(c) /\ UNCHANGED <<game, player, sending, events, reader>>
  BY DEF SetPlayerConnection, Moves, TypeOK, Attached, Seated, loops, pumps
<1>5. PointersAreAttached'
  <2>1. ASSUME NEW g \in Games, NEW p \in Players, slot'[g][p] # NoConn
        PROVE  Seated(slot'[g][p]) /\ game'[slot'[g][p]] = g /\ player'[slot'[g][p]] = p
    <3>1. slot'[g][p] = IF g = game[c] /\ p = player[c] THEN c ELSE slot[g][p]
      BY <1>1 DEF SetPlayerConnection, TypeOK
    <3>2. CASE g = game[c] /\ p = player[c]
      BY <1>4, <3>1, <3>2
    <3>3. CASE ~(g = game[c] /\ p = player[c])
      <4>1. slot'[g][p] = slot[g][p] /\ slot[g][p] \in Conns
        BY <2>1, <3>1, <3>3 DEF TypeOK
      <4> QED
        BY <1>4, <2>1, <4>1 DEF PointersAreAttached
    <3> QED
      BY <3>2, <3>3
  <2>2. ASSUME NEW g \in Games, sending'[g] # Draining, sending'[g][2] # NoConn
        PROVE  Seated(sending'[g][2]) /\ game'[sending'[g][2]] = g
    <3>1. sending[g][2] \in Conns
      BY <1>4, <2>2 DEF TypeOK
    <3> QED
      BY <1>4, <2>2, <3>1 DEF PointersAreAttached
  <2>3. ASSUME NEW g \in Games, NEW i \in 1..Len(events'[g]), events'[g][i].type # "Disconnect"
        PROVE  Started(events'[g][i].conn) /\ game'[events'[g][i].conn] = g
    BY <1>4, <2>3 DEF PointersAreAttached, Started
  <2> QED
    BY <2>1, <2>2, <2>3 DEF PointersAreAttached, Attached, Seated, Started
<1>6. NeverBackwards' /\ Silent
  BY DEF SetPlayerConnection, pumps, mail, NeverBackwards, InOrder, Silent, TypeOK
<1> QED
  BY <1>2, <1>3, <1>5, <1>6

LEMMA StartPumpsStep ==
  ASSUME ConnectionsInv, NEW c \in Conns, StartPumps(c)
  PROVE  ConnectionsInv' /\ Silent
<1> USE DEF ConnectionsInv
<1>1. TypeOK'
  BY DEF StartPumps, Moves, TypeOK, registry, loops, mail, Positions
<1>2. PumpsShareFate'
  BY DEF StartPumps, Moves, TypeOK, PumpsShareFate, mail
<1>3. /\ \A d \in Conns : Attached(d) =>
           Seated(d) /\ game'[d] = game[d] /\ player'[d] = player[d]
      /\ \A d \in Conns : reader[d] # "none" => Started(d)
  BY DEF StartPumps, Moves, TypeOK, Attached, Seated, Started
<1>4. PointersAreAttached'
  BY <1>3, PointersStay DEF StartPumps, loops
<1>5. NeverBackwards' /\ Silent
  BY DEF StartPumps, mail, NeverBackwards, InOrder, Silent, TypeOK
<1> QED
  BY <1>1, <1>2, <1>4, <1>5

\* The automatic JOIN_GAME is from a connection whose pumps were started.
LEMMA ProcessActionStep ==
  ASSUME ConnectionsInv, NEW c \in Conns, ProcessAction(c)
  PROVE  ConnectionsInv' /\ Silent
<1> USE DEF ConnectionsInv
<1> DEFINE e == [type |-> "Join", conn |-> c]
<1>1. game[c] \in Games /\ e \in Event /\ reader[c] # "none"
  BY DEF ProcessAction, Moves, TypeOK, PumpsShareFate, Event
<1>2. /\ QueuesFine'
      /\ \A g \in Games : \A i \in 1..Len(events'[g]) :
           \/ i \in 1..Len(events[g]) /\ events'[g][i] = events[g][i]
           \/ g = game[c] /\ events'[g][i] = e
  BY <1>1, MailIsFine, QueuedIsFine DEF ProcessAction
<1>3. TypeOK'
  BY <1>2 DEF ProcessAction, Moves, TypeOK, QueuesFine, registry, pumps, mail, Positions
<1>4. PumpsShareFate'
  BY DEF ProcessAction, Moves, TypeOK, PumpsShareFate, pumps, mail
<1>5. /\ \A d \in Conns : Attached(d) =>
           Seated(d) /\ game'[d] = game[d] /\ player'[d] = player[d]
      /\ \A d \in Conns : reader[d] # "none" => Started(d)
      /\ UNCHANGED <<slot, sending, game>>
  BY DEF ProcessAction, Moves, TypeOK, Attached, Seated, Started, pumps
<1>6. \A g \in Games : \A i \in 1..Len(events'[g]) :
        \/ i \in 1..Len(events[g]) /\ events'[g][i] = events[g][i]
        \/ events'[g][i].type = "Disconnect"
        \/ /\ events'[g][i].conn \in Conns
           /\ Started(events'[g][i].conn) /\ game'[events'[g][i].conn] = g
  BY <1>1, <1>2, <1>5
<1>7. PointersAreAttached'
  BY <1>5, <1>6, PointersStay
<1>8. NeverBackwards' /\ Silent
  BY DEF ProcessAction, pumps, mail, NeverBackwards, InOrder, Silent, TypeOK
<1> QED
  BY <1>3, <1>4, <1>7, <1>8

LEMMA ClientLeavesStep ==
  ASSUME ConnectionsInv, NEW c \in Conns, ClientLeaves(c)
  PROVE  ConnectionsInv' /\ Silent
<1> USE DEF ConnectionsInv
<1>1. TypeOK'
  BY DEF ClientLeaves, TypeOK, registry, loops, handling, mail
<1>2. PumpsShareFate'
  BY DEF ClientLeaves, TypeOK, PumpsShareFate, handling, mail
<1>3. PointersAreAttached'
  BY PointersStay DEF ClientLeaves, loops, handling, Attached, Seated, Started
<1>4. NeverBackwards' /\ Silent
  BY DEF ClientLeaves, mail, NeverBackwards, InOrder, Silent, TypeOK
<1> QED
  BY <1>1, <1>2, <1>3, <1>4

\* A message of the client: an action for the loop, or an answer at once.
LEMMA ReadStep ==
  ASSUME ConnectionsInv, NEW c \in Conns, Read(c)
  PROVE  ConnectionsInv' /\ Silent
<1> USE DEF ConnectionsInv
<1> DEFINE e == [type |-> "Action", conn |-> c]
<1>1. game[c] \in Games /\ e \in Event /\ reader[c] # "none" /\ closed \in [Conns -> BOOLEAN]
  BY DEF Read, TypeOK, PumpsShareFate, Event
<1>2. /\ QueuesFine'
      /\ \A g \in Games : \A i \in 1..Len(events'[g]) :
           \/ i \in 1..Len(events[g]) /\ events'[g][i] = events[g][i]
           \/ g = game[c] /\ events'[g][i] = e
  <2>1. CASE QueueEvent(game[c], e)
    BY <1>1, <2>1, MailIsFine, QueuedIsFine
  <2>2. CASE UNCHANGED events
    BY <2>2, MailIsFine DEF QueuesFine
  <2> QED
    BY <2>1, <2>2 DEF Read
<1>3. ChannelsFine(send') /\ \A d \in Conns : closed[d] => send'[d] = send[d]
  <2>1. ChannelsFine(send)
    BY MailIsFine
  <2>2. CASE send' = Sent(send, c, "answer")
    BY <1>1, <2>1, <2>2, SentIsFine
  <2>3. CASE UNCHANGED send
    BY <2>1, <2>3
  <2> QED
    BY <2>2, <2>3 DEF Read
<1>4. UNCHANGED <<registry, phase, slot, dirty, sending, handling, pumps, shown, reached>>
  BY DEF Read
<1>5. TypeOK'
  BY <1>2, <1>3, <1>4 DEF TypeOK, QueuesFine, ChannelsFine, Fine, registry, handling, pumps
<1>6. PumpsShareFate'
  BY <1>4 DEF PumpsShareFate, handling, pumps
<1>7. PointersAreAttached'
  BY <1>1, <1>2, <1>4, PointersStay DEF handling, pumps, Attached, Seated, Started
<1>8. NeverBackwards' /\ Silent
  BY <1>3, <1>4 DEF NeverBackwards, ChannelsFine, Fine, InOrder, Silent, pumps, TypeOK
<1> QED
  BY <1>5, <1>6, <1>7, <1>8

\* A pump that fails closes its connection, unless the other one has.
LEMMA PumpFails ==
  ASSUME ConnectionsInv, NEW c \in Conns, reader[c] # "none", Close(c),
         \/ reader' = [reader EXCEPT ![c] = "ended"] /\ UNCHANGED writer
         \/ writer' = [writer EXCEPT ![c] = "ended"] /\ UNCHANGED reader,
         UNCHANGED <<registry, phase, slot, dirty, sending, handling>>
  PROVE  ConnectionsInv' /\ Silent
<1> USE DEF ConnectionsInv
<1> DEFINE e == [type |-> "Disconnect"]
<1>1. game[c] \in Games /\ e \in Event
  BY DEF TypeOK, PumpsShareFate, Event
<1>2. /\ closed' = [closed EXCEPT ![c] = TRUE]
      /\ link' = [link EXCEPT ![c] = "down"]
  BY DEF Close, TypeOK, PumpsShareFate
<1>3. /\ QueuesFine'
      /\ \A g \in Games : \A i \in 1..Len(events'[g]) :
           \/ i \in 1..Len(events[g]) /\ events'[g][i] = events[g][i]
           \/ events'[g][i] = e
  <2>1. CASE closed[c]
    BY <2>1, MailIsFine DEF Close, QueuesFine
  <2>2. CASE ~closed[c]
    BY <1>1, <2>2, MailIsFine, QueuedIsFine DEF Close
  <2> QED
    BY <2>1, <2>2
<1>4. /\ reached' \in {reached, reached \ {c}} /\ (~closed[c] => c \notin reached')
      /\ shown' \in [Conns -> Updates]
      /\ send' \in [Conns -> Seq(Messages)]
      /\ \A d \in Conns : \/ send'[d] = send[d] /\ shown'[d] = shown[d]
                         \/ send'[d] = <<>>
  <2>1. CASE closed[c]
    BY <2>1 DEF Close, mail, TypeOK
  <2>2. CASE ~closed[c]
    <3>1. /\ send' = [send EXCEPT ![c] = <<>>] /\ shown' = [shown EXCEPT ![c] = "old"]
          /\ reached' = reached \ {c}
      BY <2>2 DEF Close, Forget
    <3>2. <<>> \in Seq(Messages) /\ "old" \in Updates
      BY DEF Updates
    <3>3. send' \in [Conns -> Seq(Messages)] /\ shown' \in [Conns -> Updates]
      BY <3>1, <3>2 DEF TypeOK
    <3>4. \A d \in Conns : \/ send'[d] = send[d] /\ shown'[d] = shown[d]
                           \/ send'[d] = <<>>
      BY <3>1 DEF TypeOK
    <3> QED
      BY <3>1, <3>3, <3>4
  <2> QED
    BY <2>1, <2>2
<1>5. TypeOK'
  <2>1. \A d \in Conns : Len(send'[d]) <= SendSize
    BY <1>4 DEF TypeOK
  <2> QED
    BY <1>2, <1>3, <1>4, <2>1 DEF TypeOK, QueuesFine, registry, handling
<1>6. PumpsShareFate'
  BY <1>2, <1>4 DEF TypeOK, PumpsShareFate, handling
<1>7. PointersAreAttached'
  BY <1>3, PointersStay DEF handling, TypeOK, Attached, Seated, Started
<1>8. NeverBackwards' /\ Silent
  <2>1. ASSUME NEW d \in Conns
        PROVE  InOrder(send'[d], shown'[d]) /\ Len(send'[d]) <= Len(send[d])
    <3>1. CASE send'[d] = send[d] /\ shown'[d] = shown[d]
      BY <3>1 DEF NeverBackwards, TypeOK
    <3>2. CASE send'[d] = <<>>
      BY <3>2 DEF InOrder, TypeOK
    <3> QED
      BY <1>4, <3>1, <3>2
  <2> QED
    BY <1>2, <2>1 DEF NeverBackwards, Silent, TypeOK
<1> QED
  BY <1>5, <1>6, <1>7, <1>8

LEMMA ReadFailsStep ==
  ASSUME ConnectionsInv, NEW c \in Conns, ReadFails(c)
  PROVE  ConnectionsInv' /\ Silent
BY PumpFails DEF ReadFails

LEMMA WriteFailsStep ==
  ASSUME ConnectionsInv, NEW c \in Conns, WriteFails(c)
  PROVE  ConnectionsInv' /\ Silent
<1>1. reader[c] # "none"
  BY DEF WriteFails, ConnectionsInv, PumpsShareFate
<1> QED
  BY <1>1, PumpFails DEF WriteFails

\* The first message of the channel reaches the client.
LEMMA WriteStep ==
  ASSUME ConnectionsInv, NEW c \in Conns, Write(c)
  PROVE  ConnectionsInv' /\ Silent
<1> USE DEF ConnectionsInv
<1>1. /\ send[c] \in Seq(Messages) /\ Len(send[c]) <= SendSize /\ send[c] # <<>>
      /\ send' = [send EXCEPT ![c] = Tail(@)] /\ ~closed[c]
  BY DEF Write, TypeOK, PumpsShareFate
<1>2. /\ Tail(send[c]) \in Seq(Messages) /\ Len(Tail(send[c])) = Len(send[c]) - 1
      /\ Len(send[c]) \in Nat \ {0} /\ Head(send[c]) = send[c][1] /\ Head(send[c]) \in Messages
      /\ \A i \in 1..Len(send[c]) - 1 : Tail(send[c])[i] = send[c][i + 1]
  BY <1>1
<1>3. shown' = [shown EXCEPT ![c] = IF Head(send[c]) \in Updates THEN Head(send[c]) ELSE @]
  BY DEF Write, TypeOK
<1>4. TypeOK'
  <2>1. shown' \in [Conns -> Updates]
    BY <1>3 DEF TypeOK
  <2>2. send' \in [Conns -> Seq(Messages)] /\ \A d \in Conns : Len(send'[d]) <= SendSize
    BY <1>1, <1>2 DEF TypeOK
  <2> QED
    BY <2>1, <2>2 DEF Write, TypeOK, registry, loops, handling, pumps
<1>5. PumpsShareFate' /\ PointersAreAttached'
  <2>1. PumpsShareFate'
    BY DEF Write, PumpsShareFate, handling, pumps
  <2>2. PointersAreAttached'
    BY PointersStay DEF Write, loops, handling, pumps, Attached, Seated, Started
  <2> QED
    BY <2>1, <2>2
<1>6. InOrder(Tail(send[c]), shown'[c])
  <2>1. InOrder(send[c], shown[c]) /\ shown'[c] = IF Head(send[c]) \in Updates THEN Head(send[c]) ELSE shown[c]
    BY <1>3 DEF NeverBackwards, TypeOK
  <2>2. ASSUME shown'[c] = "current", NEW i \in 1..Len(send[c]) - 1
        PROVE  send[c][i + 1] # "old"
    <3>1. i + 1 \in 1..Len(send[c]) /\ 1 \in 1..Len(send[c]) /\ 1 < i + 1
      BY <1>2
    <3> QED
      BY <1>2, <2>1, <2>2, <3>1 DEF InOrder
  <2>3. ASSUME NEW i \in 1..Len(send[c]) - 1, NEW j \in 1..Len(send[c]) - 1, i < j,
               send[c][i + 1] = "current"
        PROVE  send[c][j + 1] # "old"
    <3>1. i + 1 \in 1..Len(send[c]) /\ j + 1 \in 1..Len(send[c]) /\ i + 1 < j + 1
      BY <1>2, <2>3
    <3> QED
      BY <2>1, <2>3, <3>1 DEF InOrder
  <2> QED
    BY <1>2, <2>2, <2>3 DEF InOrder
<1>7. NeverBackwards' /\ Silent
  <2>1. ASSUME NEW d \in Conns
        PROVE  InOrder(send'[d], shown'[d]) /\ Len(send'[d]) <= Len(send[d])
    <3>1. CASE d = c
      BY <1>1, <1>2, <1>6, <3>1 DEF TypeOK
    <3>2. CASE d # c
      BY <1>1, <1>3, <3>2 DEF NeverBackwards, TypeOK
    <3> QED
      BY <3>1, <3>2
  <2> QED
    BY <2>1 DEF Write, NeverBackwards, Silent, TypeOK, pumps
<1> QED
  BY <1>4, <1>5, <1>7
----------------------------------------------------------------------------
(* The loop.                                                               *)

\* The event that the loop handles leaves the queue; the rest stays as it was.
LEMMA Dequeued ==
  ASSUME ConnectionsInv, NEW g \in Games, events[g] # <<>>,
         events' = [events EXCEPT ![g] = Tail(@)]
  PROVE  /\ QueuesFine'
         /\ Head(events[g]) = events[g][1] /\ 1 \in 1..Len(events[g])
         /\ \A k \in Games : \A i \in 1..Len(events'[k]) : \E j \in 1..Len(events[k]) :
              events'[k][i] = events[k][j]
<1>1. events[g] \in Seq(Event) /\ QueuesFine
  BY MailIsFine DEF QueuesFine
<1>2. /\ Tail(events[g]) \in Seq(Event) /\ Len(Tail(events[g])) = Len(events[g]) - 1
      /\ Len(events[g]) \in Nat \ {0} /\ Head(events[g]) = events[g][1]
      /\ \A i \in 1..Len(events[g]) - 1 : Tail(events[g])[i] = events[g][i + 1]
  BY <1>1
<1>3. \A k \in Games : events'[k] = IF k = g THEN Tail(events[g]) ELSE events[k]
  BY <1>1 DEF QueuesFine
<1>4. QueuesFine'
  BY <1>1, <1>2, <1>3 DEF QueuesFine
<1>5. ASSUME NEW k \in Games, NEW i \in 1..Len(events'[k])
      PROVE  \E j \in 1..Len(events[k]) : events'[k][i] = events[k][j]
  <2>1. CASE k # g
    BY <1>3, <2>1
  <2>2. CASE k = g
    <3>1. i \in 1..Len(events[g]) - 1 /\ i + 1 \in 1..Len(events[g])
      <4>1. events'[k] = Tail(events[g]) /\ i \in 1..Len(events'[k])
        BY <1>3, <2>2
      <4>2. i \in 1..Len(events[g]) - 1
        BY <1>2, <4>1
      <4> QED
        BY <1>2, <4>2
    <3>2. events'[k][i] = events[g][i + 1]
      BY <1>2, <1>3, <2>2, <3>1
    <3> QED
      BY <2>2, <3>1, <3>2
  <2> QED
    BY <2>1, <2>2
<1> QED
  BY <1>2, <1>4, <1>5

\* What a step of the loop may do to the mail and the game; the sockets, the pumps
\* and the slots are not its own.
LEMMA LoopPreserves ==
  ASSUME ConnectionsInv, QueuesFine',
         \A k \in Games : \A i \in 1..Len(events'[k]) : \E j \in 1..Len(events[k]) :
           events'[k][i] = events[k][j],
         ChannelsFine(send)', shown' \in [Conns -> Updates],
         dirty' \in [Games -> BOOLEAN],
         phase' \in [Games -> {"waiting", "playing", "over"}],
         reached' \in SUBSET Conns, \A c \in reached' : ~closed[c],
         \A c \in Conns : closed[c] => Len(send'[c]) <= Len(send[c]),
         UNCHANGED <<registry, slot, handling, pumps>>,
         sending' \in [Games -> {Draining} \cup (Players \X (Conns \cup {NoConn}))],
         \A g \in Games : sending'[g] # Draining /\ sending'[g][2] # NoConn =>
           Attached(sending'[g][2]) /\ game[sending'[g][2]] = g
  PROVE  ConnectionsInv' /\ Silent
<1> USE DEF ConnectionsInv
<1>1. TypeOK'
  BY DEF TypeOK, QueuesFine, ChannelsFine, Fine, registry, handling, pumps
<1>2. PumpsShareFate'
  BY DEF PumpsShareFate, handling, pumps
<1>3. PointersAreAttached'
  <2>1. ASSUME NEW g \in Games, NEW i \in 1..Len(events'[g]), events'[g][i].type # "Disconnect"
        PROVE  reader[events'[g][i].conn] # "none" /\ game[events'[g][i].conn] = g
    <3>1. PICK j \in 1..Len(events[g]) : events'[g][i] = events[g][j]
      BY <2>1
    <3> QED
      BY <2>1, <3>1 DEF PointersAreAttached
  <2> QED
    BY <2>1 DEF PointersAreAttached, Attached, handling, pumps
<1>4. NeverBackwards' /\ Silent
  BY DEF NeverBackwards, ChannelsFine, Fine, Silent, pumps, InOrder
<1> QED
  BY <1>1, <1>2, <1>3, <1>4

\* The answers to an event: the channels they leave are fine, and the closed ones
\* are as they were.
LEMMA AnswersAreFine ==
  ASSUME ConnectionsInv, NEW g \in Games, NEW e \in Event, e.type # "Disconnect",
         reader[e.conn] # "none", Refuse(e) \/ Accept(g, e)
  PROVE  /\ ChannelsFine(send)' /\ shown' \in [Conns -> Updates]
         /\ dirty' \in [Games -> BOOLEAN]
         /\ phase' \in [Games -> {"waiting", "playing", "over"}]
         /\ reached' \in SUBSET Conns /\ \A c \in reached' : ~closed[c]
         /\ \A c \in Conns : closed[c] => Len(send'[c]) <= Len(send[c])
<1> USE DEF ConnectionsInv
<1>1. /\ ChannelsFine(send) /\ closed \in [Conns -> BOOLEAN] /\ e.conn \in Conns
      /\ shown \in [Conns -> Updates] /\ dirty \in [Games -> BOOLEAN]
      /\ phase \in [Games -> {"waiting", "playing", "over"}]
      /\ reached \in SUBSET Conns /\ \A c \in reached : ~closed[c]
  BY MailIsFine DEF TypeOK, PumpsShareFate, Event
<1> DEFINE mine == Sent(send, e.conn, "answer")
<1>2. ChannelsFine(mine) /\ \A d \in Conns : closed[d] => mine[d] = send[d]
  BY <1>1, SentIsFine
<1>3. CASE Refuse(e)
  <2>1. send' = mine /\ UNCHANGED <<phase, dirty, shown, reached>>
    BY <1>3 DEF Refuse
  <2>2. ChannelsFine(send)'
    BY <1>2, <2>1 DEF ChannelsFine
  <2> QED
    BY <1>1, <1>2, <2>1, <2>2
<1>4. CASE e.type = "Join" /\ Accept(g, e)
  <2> DEFINE other == slot[g][Opponent(player[e.conn])]
             both == Sent(mine, other, "answer")
             all == Sent(both, e.conn, "answer")
  <2>1. Changes(g, all)
    BY <1>4 DEF Accept
  <2>2. other \in Conns \cup {NoConn}
    <3>1. Opponent(player[e.conn]) \in Players
      <4>1. player[e.conn] \in Players
        BY <1>1 DEF TypeOK, PumpsShareFate
      <4> QED
        BY <4>1 DEF Players, Opponent
    <3> QED
      BY <3>1 DEF TypeOK
  <2> HIDE DEF mine, other
  <2>3. ChannelsFine(both) /\ \A d \in Conns : closed[d] => both[d] = mine[d]
    BY <1>1, <1>2, <2>2, SentIsFine
  <2> HIDE DEF both
  <2>4. ChannelsFine(all) /\ \A d \in Conns : closed[d] => all[d] = both[d]
    BY <1>1, <2>3, SentIsFine
  <2> HIDE DEF all
  <2>5. /\ ChannelsFine(send)' /\ shown' \in [Conns -> Updates]
        /\ dirty' \in [Games -> BOOLEAN] /\ \A d \in Conns : Len(send'[d]) = Len(all[d])
    BY <1>1, <2>1, <2>4, AgedIsFine
  <2>6. \A d \in Conns : closed[d] => Len(send'[d]) = Len(send[d])
    BY <1>2, <2>3, <2>4, <2>5
  <2>7. /\ reached' = IF closed[e.conn] THEN reached ELSE reached \cup {e.conn}
        /\ phase' = [phase EXCEPT ![g] = IF @ = "waiting" THEN "playing" ELSE @]
    BY <1>4 DEF Accept
  <2> QED
    BY <1>1, <2>5, <2>6, <2>7, MailIsFine DEF TypeOK
<1>5. CASE e.type # "Join" /\ Accept(g, e)
  <2>1. /\ Changes(g, mine) /\ phase' \in {phase, [phase EXCEPT ![g] = "over"]}
        /\ UNCHANGED reached
    BY <1>5 DEF Accept
  <2> HIDE DEF mine
  <2>2. /\ ChannelsFine(send)' /\ shown' \in [Conns -> Updates]
        /\ dirty' \in [Games -> BOOLEAN] /\ \A d \in Conns : Len(send'[d]) = Len(mine[d])
    BY <1>1, <1>2, <2>1, AgedIsFine
  <2>3. \A d \in Conns : closed[d] => Len(send'[d]) = Len(send[d])
    BY <1>2, <2>2
  <2> QED
    BY <1>1, <2>1, <2>2, <2>3 DEF TypeOK
<1> QED
  BY <1>3, <1>4, <1>5

LEMMA HandleEventStep ==
  ASSUME ConnectionsInv, NEW g \in Games, HandleEvent(g)
  PROVE  ConnectionsInv' /\ Silent
<1> DEFINE e == Head(events[g])
<1>1. /\ QueuesFine' /\ e = events[g][1] /\ 1 \in 1..Len(events[g])
      /\ \A k \in Games : \A i \in 1..Len(events'[k]) : \E j \in 1..Len(events[k]) :
           events'[k][i] = events[k][j]
  BY Dequeued DEF HandleEvent
<1>2. e \in Event
  BY <1>1, EventsAreRead
<1>3. /\ ChannelsFine(send)' /\ shown' \in [Conns -> Updates]
      /\ dirty' \in [Games -> BOOLEAN]
      /\ phase' \in [Games -> {"waiting", "playing", "over"}]
      /\ reached' \in SUBSET Conns /\ \A c \in reached' : ~closed[c]
      /\ \A c \in Conns : closed[c] => Len(send'[c]) <= Len(send[c])
  <2>1. CASE e.type = "Disconnect"
    <3>1. /\ ChannelsFine(send) /\ shown \in [Conns -> Updates]
          /\ dirty \in [Games -> BOOLEAN] /\ send \in [Conns -> Seq(Messages)]
          /\ phase \in [Games -> {"waiting", "playing", "over"}]
          /\ reached \in SUBSET Conns /\ \A c \in reached : ~closed[c]
      BY MailIsFine DEF ConnectionsInv, TypeOK, PumpsShareFate
    <3>2. Changes(g, send) /\ UNCHANGED <<phase, reached>>
      BY <2>1 DEF HandleEvent
    <3>3. /\ ChannelsFine(send)' /\ shown' \in [Conns -> Updates]
          /\ dirty' \in [Games -> BOOLEAN] /\ \A d \in Conns : Len(send'[d]) = Len(send[d])
      BY <3>1, <3>2, AgedIsFine
    <3> QED
      BY <3>1, <3>2, <3>3
  <2>2. CASE e.type # "Disconnect"
    <3>1. Refuse(e) \/ Accept(g, e)
      BY <2>2 DEF HandleEvent
    <3>2. reader[e.conn] # "none"
      BY <1>1, <2>2 DEF ConnectionsInv, PointersAreAttached
    <3> HIDE DEF e
    <3> QED
      BY <1>2, <2>2, <3>1, <3>2, AnswersAreFine
  <2> QED
    BY <2>1, <2>2
<1>4. UNCHANGED <<registry, slot, sending, handling, pumps>>
  BY DEF HandleEvent
<1>5. /\ sending' \in [Games -> {Draining} \cup (Players \X (Conns \cup {NoConn}))]
      /\ \A k \in Games : sending'[k] # Draining /\ sending'[k][2] # NoConn =>
           Attached(sending'[k][2]) /\ game[sending'[k][2]] = k
  BY <1>4 DEF ConnectionsInv, TypeOK, PointersAreAttached
<1> HIDE DEF e
<1> QED
  BY <1>1, <1>3, <1>4, <1>5, LoopPreserves

LEMMA PlayStep ==
  ASSUME ConnectionsInv, NEW g \in Games, Play(g)
  PROVE  ConnectionsInv' /\ Silent
<1>1. /\ ChannelsFine(send) /\ shown \in [Conns -> Updates]
      /\ dirty \in [Games -> BOOLEAN] /\ send \in [Conns -> Seq(Messages)]
      /\ phase \in [Games -> {"waiting", "playing", "over"}]
      /\ reached \in SUBSET Conns /\ \A c \in reached : ~closed[c]
  BY MailIsFine DEF ConnectionsInv, TypeOK, PumpsShareFate
<1>2. /\ Changes(g, send) /\ phase' \in {phase, [phase EXCEPT ![g] = "over"]}
      /\ UNCHANGED <<registry, slot, events, sending, handling, pumps, reached>>
  BY DEF Play
<1>3. /\ ChannelsFine(send)' /\ shown' \in [Conns -> Updates]
      /\ dirty' \in [Games -> BOOLEAN] /\ \A d \in Conns : Len(send'[d]) = Len(send[d])
  BY <1>1, <1>2, AgedIsFine
<1>4. QueuesFine' /\ phase' \in [Games -> {"waiting", "playing", "over"}]
  BY <1>1, <1>2, MailIsFine DEF QueuesFine
<1>5. \A d \in Conns : closed[d] => Len(send'[d]) <= Len(send[d])
  BY <1>1, <1>3
<1>6. /\ sending' \in [Games -> {Draining} \cup (Players \X (Conns \cup {NoConn}))]
      /\ \A k \in Games : sending'[k] # Draining /\ sending'[k][2] # NoConn =>
           Attached(sending'[k][2]) /\ game[sending'[k][2]] = k
  BY <1>2 DEF ConnectionsInv, TypeOK, PointersAreAttached
<1> QED
  BY <1>1, <1>2, <1>3, <1>4, <1>5, <1>6, LoopPreserves

\* What a broadcast looks up was attached to the game of the loop.
LEMMA SlotsAreAttached ==
  ASSUME ConnectionsInv, NEW g \in Games, NEW p \in Players
  PROVE  /\ <<p, slot[g][p]>> \in Players \X (Conns \cup {NoConn})
         /\ slot[g][p] # NoConn => Attached(slot[g][p]) /\ game[slot[g][p]] = g
BY DEF ConnectionsInv, TypeOK, PointersAreAttached

LEMMA BroadcastStep ==
  ASSUME ConnectionsInv, NEW g \in Games, Broadcast(g)
  PROVE  ConnectionsInv' /\ Silent
<1>1. /\ ChannelsFine(send) /\ QueuesFine /\ shown \in [Conns -> Updates]
      /\ dirty \in [Games -> BOOLEAN] /\ send \in [Conns -> Seq(Messages)]
      /\ phase \in [Games -> {"waiting", "playing", "over"}]
      /\ reached \in SUBSET Conns /\ \A c \in reached : ~closed[c]
  BY MailIsFine DEF ConnectionsInv, TypeOK, PumpsShareFate
<1>2. UNCHANGED <<registry, phase, slot, events, dirty, handling, pumps, mail>>
  BY DEF Broadcast
<1>3. ChannelsFine(send)' /\ QueuesFine'
  BY <1>1, <1>2 DEF ChannelsFine, QueuesFine, mail
<1>4. \A d \in Conns : closed[d] => Len(send'[d]) <= Len(send[d])
  BY <1>1, <1>2 DEF mail
<1>5. /\ sending' \in [Games -> {Draining} \cup (Players \X (Conns \cup {NoConn}))]
      /\ \A k \in Games : sending'[k] # Draining /\ sending'[k][2] # NoConn =>
           Attached(sending'[k][2]) /\ game[sending'[k][2]] = k
  <2>1. sending' = [sending EXCEPT ![g] = <<1, slot[g][1]>>] /\ 1 \in Players
    BY DEF Broadcast, Players
  <2> QED
    BY <2>1, SlotsAreAttached DEF ConnectionsInv, TypeOK, PointersAreAttached
<1> QED
  BY <1>1, <1>2, <1>3, <1>4, <1>5, LoopPreserves DEF mail

LEMMA SendUpdateStep ==
  ASSUME ConnectionsInv, NEW g \in Games, SendUpdate(g)
  PROVE  ConnectionsInv' /\ Silent
<1>1. /\ ChannelsFine(send) /\ QueuesFine /\ shown \in [Conns -> Updates]
      /\ dirty \in [Games -> BOOLEAN] /\ send \in [Conns -> Seq(Messages)]
      /\ phase \in [Games -> {"waiting", "playing", "over"}]
      /\ reached \in SUBSET Conns /\ \A c \in reached : ~closed[c]
      /\ closed \in [Conns -> BOOLEAN]
  BY MailIsFine DEF ConnectionsInv, TypeOK, PumpsShareFate
<1> DEFINE p == sending[g][1]
           c == sending[g][2]
<1>2. c \in Conns \cup {NoConn} /\ p \in Players
  BY DEF ConnectionsInv, TypeOK, SendUpdate
<1>3. /\ send' = Sent(send, c, "current")
      /\ reached' = IF send' = send THEN reached \ {c} ELSE reached \cup {c}
      /\ sending' = [sending EXCEPT ![g] = IF p = 1 THEN <<2, slot[g][2]>> ELSE Draining]
      /\ dirty' = [dirty EXCEPT ![g] = (p = 1)]
      /\ UNCHANGED <<registry, phase, slot, events, handling, pumps, shown>>
  BY DEF SendUpdate
<1> HIDE DEF p, c
<1>4. /\ ChannelsFine(Sent(send, c, "current"))
      /\ \A d \in Conns : closed[d] => Sent(send, c, "current")[d] = send[d]
      /\ c = NoConn => Sent(send, c, "current") = send
  BY <1>1, <1>2, SentIsFine
<1>5. ChannelsFine(send)' /\ QueuesFine'
  BY <1>1, <1>3, <1>4 DEF ChannelsFine, QueuesFine
<1>6. \A d \in Conns : closed[d] => Len(send'[d]) <= Len(send[d])
  BY <1>1, <1>3, <1>4
<1>7. reached' \in SUBSET Conns /\ \A d \in reached' : ~closed[d]
  <2>1. CASE send' = send
    BY <1>1, <1>3, <2>1
  <2>2. CASE send' # send
    <3>1. c \in Conns /\ ~closed[c]
      BY <1>2, <1>3, <2>2 DEF Sent
    <3> QED
      BY <1>1, <1>3, <2>2, <3>1
  <2> QED
    BY <2>1, <2>2
<1>8. /\ sending' \in [Games -> {Draining} \cup (Players \X (Conns \cup {NoConn}))]
      /\ \A k \in Games : sending'[k] # Draining /\ sending'[k][2] # NoConn =>
           Attached(sending'[k][2]) /\ game[sending'[k][2]] = k
  <2>1. 2 \in Players
    BY DEF Players
  <2> QED
    BY <1>3, <2>1, SlotsAreAttached DEF ConnectionsInv, TypeOK, PointersAreAttached
<1>9. dirty' \in [Games -> BOOLEAN]
  BY <1>1, <1>3
<1> QED
  BY <1>1, <1>3, <1>5, <1>6, <1>7, <1>8, <1>9, LoopPreserves

LEMMA CleanupStep ==
  ASSUME ConnectionsInv, Cleanup
  PROVE  ConnectionsInv' /\ Silent
<1> USE DEF ConnectionsInv
<1>1. TypeOK'
  BY DEF Cleanup, TypeOK, loops, handling, pumps, mail
<1>2. PumpsShareFate'
  BY DEF Cleanup, PumpsShareFate, handling, pumps, mail
<1>3. PointersAreAttached'
  BY PointersStay DEF Cleanup, loops, handling, pumps, Attached, Seated, Started
<1>4. NeverBackwards' /\ Silent
  BY DEF Cleanup, pumps, mail, NeverBackwards, InOrder, Silent, TypeOK
<1> QED
  BY <1>1, <1>2, <1>3, <1>4

----------------------------------------------------------------------------
(* The theorems.                                                           *)

LEMMA StartsFine == Init => ConnectionsInv
BY DEF Init, ConnectionsInv, TypeOK, PumpsShareFate, PointersAreAttached, NeverBackwards,
       InOrder, Attached, Updates, Event, Messages

LEMMA StepsAreFine == ConnectionsInv /\ [Next]_vars => ConnectionsInv' /\ (UNCHANGED vars \/ Silent)
<1> SUFFICES ASSUME ConnectionsInv, [Next]_vars
             PROVE  ConnectionsInv' /\ (UNCHANGED vars \/ Silent)
  OBVIOUS
<1>1. CASE UNCHANGED vars
  BY <1>1 DEF vars, registry, loops, handling, pumps, mail, ConnectionsInv, TypeOK,
              PumpsShareFate, PointersAreAttached, NeverBackwards, InOrder, Attached
<1>2. ASSUME NEW c \in Conns, NEW p \in Players, Request(c, p)
      PROVE  ConnectionsInv' /\ Silent
  BY <1>2, RequestStep
<1>3. ASSUME NEW c \in Conns, HandlerStep(c)
      PROVE  ConnectionsInv' /\ Silent
  BY <1>3, UpgradeFailsStep, UpgradeStep, SetPlayerConnectionStep, StartPumpsStep,
           ProcessActionStep DEF HandlerStep
<1>4. ASSUME NEW c \in Conns, ClientLeaves(c) \/ Read(c) \/ ReadFails(c)
      PROVE  ConnectionsInv' /\ Silent
  BY <1>4, ClientLeavesStep, ReadStep, ReadFailsStep
<1>5. ASSUME NEW c \in Conns, WriterStep(c)
      PROVE  ConnectionsInv' /\ Silent
  BY <1>5, WriteStep, WriteFailsStep DEF WriterStep
<1>6. ASSUME NEW g \in Games, LoopStep(g) \/ Play(g)
      PROVE  ConnectionsInv' /\ Silent
  BY <1>6, HandleEventStep, BroadcastStep, SendUpdateStep, PlayStep DEF LoopStep
<1>7. CASE Cleanup
  BY <1>7, CleanupStep
<1> QED
  BY <1>1, <1>2, <1>3, <1>4, <1>5, <1>6, <1>7 DEF Next

\* The pumps of a connection share its fate, slots, broadcasts and events hold
\* connections whose pumps were started, and no client goes back to an older state.
THEOREM ConnectionsInvariant == Spec => []ConnectionsInv
<1>1. ConnectionsInv /\ [Next]_vars => ConnectionsInv'
  BY StepsAreFine
<1> QED
  BY <1>1, StartsFine, PTL DEF Spec

\* A closed connection stays closed, and whoever still holds it sends nothing to it.
THEOREM ClosedStaysSilent == Spec => ClosedIsSilent
<1>1. ConnectionsInv /\ [Next]_vars =>
        [\A c \in Conns : closed[c] => closed'[c] /\ Len(send'[c]) <= Len(send[c])]_vars
  BY StepsAreFine DEF Silent
<1> QED
  BY <1>1, ConnectionsInvariant, PTL DEF Spec, ClosedIsSilent
=============================================================================
