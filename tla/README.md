# A verification project for the cs464 card game backend

The backend is a set of Go services around one MySQL schema and one Redis
instance: players log in (auth), keep cards and decks (deck), are paired
(matchmaking) and play a real-time card game over WebSockets (gameplay). This
directory holds TLA+ modules translated from that code, TLC configurations that
check them on small instances, and proofs, checked by TLAPS, of the results
that hold for every value of the constants. `PROJECT.json` maps each definition
to the lines it stands for, and lists runs, hazards, findings and theorems.

## 1. Inventory

Paths are relative to `src/`; `gameplay/` stands for `src/services/gameplay/` and so on.

| Component | State | Operations | Interacts with |
|---|---|---|---|
| Matchmaking handlers (`matchmaking/handlers.go`) | `matchmaking_queue`, `game_sessions`, `users.mmr`; Redis `match:<user>` and `queue:<user>` | join, leave, check match, accept, reject, end game | auth (token), gameplay (the session id) |
| Matchmaker loop and expiry loop (`matchmaking/main.go`) | same tables | every 2 s pair queued players; every 5 s cancel expired matches and requeue both | share the tables with the handlers, with no transaction |
| Match selection (`computeMatches`) | none (pure) | greedy pairing by waiting time within growing MMR ranges | called by the matchmaker loop |
| Game loop (`gameplay/game_loop.go`) | phase, winner, sequence numbers, tick, queue of 64 events | drain the queue, tick the board, win condition, broadcast | sole owner of the game state |
| Round timer (`gameplay/round_timer.go`) | `timer`, `stopped` behind a mutex | start pre-turn, start round, stop; callbacks in goroutines of their own | posts to the loop's queue |
| Card zones (`gameplay/gameplay_state.go`) | deck, draw pile, hand, cards selected this turn | load, top up, select, deselect, play, return | handlers in the loop; the loading of decks from an HTTP goroutine |
| Board, combat, elixir (`gameplay/gameplay_state.go`) | board, leaders, charge timers, elixir, combat log | place, tick, attack, death waves | loop, effects |
| Card effects (`gameplay/effects/`) | none of their own | summon, attack, death, tick triggers; transform, bounce, summon | board, card zones |
| WebSocket connections (`gameplay/websocket.go`, `main.go`) | sockets, send buffers of 256, closed flags | connect, automatic `JOIN_GAME`, read and write pump, close | post to the loop's queue |
| Session registry (`gameplay/manager.go`) | map of sessions, player slots, activity times | get or create, cleanup of idle sessions | connections, loop |
| Snapshots (`gameplay/snapshot.go`) | circular buffer | add, last n, latest | loop |
| Auth (`auth/handlers.go`) | `user_sessions` and `users` in MySQL, copies of sessions in Redis | register, login, logout, validate, ban | every other service validates tokens here |
| Deck (`deck/*.go`) | inventory, crystals, packs, decks in MySQL | buy and open packs, level up, disenchant, deck CRUD, active deck, starter content | gameplay asks it for the active deck, auth for the starter content |
| Views, server actions, friend list, replay, UDP cursor | none that a game depends on | presentation, code nothing calls, stubs, echo | |

What is hard, and what makes each part correct:

- **Matchmaking.** Several statements per request, no transaction, errors that
  are logged or ignored, a process that can die between any two of them. It is
  correct when a game starts exactly by the accept of both players, when no
  match waits for ever, when no player is lost between queue and game, when a
  player has one match at a time, and when every game is paid once.
- **Game loop and timer.** `Stop` does not wait for a callback that is already
  running, every join restarts the timer, the queue drops events when full and
  actions can be refused as stale. It is correct when the phases cycle and none
  hangs, when an event is handled in the phase it was meant for, and when a
  finished game stays as it is.
- **Card zones.** Handlers that remove first and check later, decks that are
  loaded while the session can already be joined, effects that return cards. It
  is correct when no sequence of calls loses, multiplies or steals a card, and
  when a card locked in an earlier turn stays locked.
- **Combat.** The order of hits in a tick, effects that change who is hit next,
  deaths that trigger deaths. Correct when the dead leave the board and the wave
  limit is enough, when a unit strikes once per charge, when a leader behind units
  is not hit, when what is placed is paid for, and when neither player is favoured.
- **Snapshots.** Head, tail and count of a wrapping buffer. Correct when it
  holds the last entries in order.
- **Auth.** Two copies of the sessions. Correct when a session that was logged
  out or replaced is not accepted any more.
- **Deck.** Read, check and write in separate statements. Correct when a pack
  is opened once and no resource is spent twice or becomes negative.
- **Connections and registry.** Replaced connections, full send buffers, idle
  cleanup. Correct when a player's newest connection is the one that is served.

`PROJECT.json` lists the hazards one by one, at their lines, with the properties
that would catch them.

## 2. Plan

| # | Module | Models | State |
|---|---|---|---|
| 1 | `MatchAgreement` | abstract: the agreement between two players | done |
| 1 | `Matchmaking`, `MatchmakingProofs` | handlers, both loops, crash, failed statements; implements `MatchAgreement` | done, proved |
| 2 | `GameSession`, `GameSessionProofs` | event queue, loop, timer, connections of one game | done, proved |
| 3 | `CardZones`, `CardZonesProofs` | deck, draw pile, hand, board positions of both players | done, proved |
| 4 | `SnapshotLog`, `SnapshotBuffer`, `GameplayProofs` | the circular buffer implements a log of the last entries | done, proved |
| 5 | `Effects`, `Combat`, `GameplayProofs` | every card effect and target mode; `TickBoard`, attacks, charge timers, death waves, elixir, win condition | done, proved |
| 6 | `MatchSelection`, `MatchSelectionProofs` | `computeMatches` and `calculateMMRRange` over a queue that changes; its result is one of `Matchmaking`'s `Pairings` | done, proved |
| 7 | `AuthSessions`, `AuthSessionsProofs` | sessions in MySQL and Redis; login, logout, validate, ban | done, proved |
| 8 | `Inventory`, `InventoryProofs` | level up, disenchant, buy and open packs, decks, the starter content, as concurrent statements | done, proved |
| 9 | `Connections`, `ConnectionsProofs` | sockets and their pumps, replacement of connections, send buffers, registry and cleanup | done, proved |

Abstract specifications: `MatchAgreement` and `SnapshotLog`, both with a proved
refinement; for the pairing the classical notion of a stable matching
(`PairsAreStable`), for auth "one session per user" (`OneSessionEach`). What is left
without a proof is listed at the end of section 5. Each module has one passing run.

## 3. The modules

### Matchmaking

One step is one SQL statement or one Redis command. A handler is a record in
`request[h]`: `at` is the statement it executes next, the other fields are the
locals it computed from its reads (`both`: the accept decided to start the
game; `winner`: the winner an end request names). `matcher` and `expirer` are
the two loops with the rest of the batch they read. The tables are functions
over the session ids: `status`, `player1`, `player2`, `ready` (the set of the
`playerN_ready` flags), `started` (`started_at IS NOT NULL`), `deadline`
(`match_expires_at`: still open, passed, NULL), `winner`, and `mmr` is the change
of the rating since the start.

| Action | Code |
|---|---|
| `JoinCheckSession`, `JoinCheckQueue`, `JoinInsert`, `LeaveQueue` | `handleJoinQueue`, `handleLeaveQueue` |
| `CheckRead`, `CheckDelete` | `handleCheckMatch`: GET, then DEL |
| `AcceptRead`, `AcceptWrite` | `handleAcceptMatch`: the row, then `StartGameSession` or `SetPlayerNReady`, which both have a status guard |
| `RejectRead`, `RejectCancel`, `RejectRequeue`, `RejectClear` | `handleRejectMatch` |
| `EndRead`, `EndPay1`, `EndPay2`, `EndComplete` | `handleEndGame` |
| `MatcherRead` ... `MatcherNotify2` | `findMatches`, `createGameSession` |
| `ExpirerRead` ... `ExpirerClear` | `handleExpiredMatches` |
| `DeadlinePasses`, `NoticeExpires`, `Crash` | time, Redis expiry, restart of the process |

An accept or a rejection may name any session, as the handlers look only at the row: the service does
not keep account of whom it has told a session id. `Clients` and `Results` bound the
requests of a run (whose requests a goroutine serves, which winners are reported).

Statements fail in the model (up to `MaxFaults`) with exactly the consequence
the code gives the error: some errors end the request, some skip an entry of a
batch, several are ignored. The two DELs that clear the
notifications of a match are one step, in which either or both may fail.

Abstracted: MMR ranges and order (a tick may choose any disjoint pairs of queued
players, a superset of what `computeMatches` returns: `MatchSelection`), bans and deck checks (they
make a join or a pairing not happen), and the keys `queue:<user>`, which nothing reads.

`MatchAgreement` is the promise: propose to two players, record consent, begin
in the step that records the missing consent, finish only what began. Voiding is
possible in every phase, because `CancelGameSession` has no status guard.

### GameSession

The loop, the timer callbacks and the connection goroutines share the queue
`events` and the timer's fields; a step is one critical section or one handled
event. `armed` is the running `time.AfterFunc`, `fired` a callback before its
critical section, `posting` one after it and before its event is in the queue.
`Greet` is the automatic `JOIN_GAME` of `handleWebSocket`, with the sequence number
it carries. `FinishTick` is what `processTick` does when the queue has been drained: the active
phase, the win condition, the broadcast. `missed` is a history variable: the
queue dropped, or the loop refused, an event on which the end of a phase depended.

Abstracted: cards (a card action succeeds, fails or kills leaders wherever its
phase allows it), messages to the clients, and `IsConnected`, which no code sets
to true. Ticks are counted up to `TickTop`, beyond which every sequence number a
player can hold is stale. One assumption is made about time, in `TimerFires`: a
duration of 10 or 30 seconds is longer than the callback of an earlier timer and
the quarter-second tick in which the loop handles its event. Without it a
callback that is descheduled for a whole phase would end the next one early; the
phase machine has no other guard against that, for `handlePreTurnEnd` and
`handleRoundEnd` only look whether the game is over.

### CardZones

Decks and hands are sequences; a draw pile is a bag, because its cards are only
found by their ID and copies are equal. Every operation that moves a card is an action, with
what the loop does around it: `JoinGame` tops up both piles at every join in the
pre-turn, `EndRound` includes the top-up of `enterPreTurn`, `CardPlaced` removes the
card before its abilities are resolved, which may fail, and before it looks at the
position. `LoadDeck` is an action of the HTTP
goroutine that creates the session; it replaces the deck, or fails and leaves it
empty. A bounce selects any of the opponent's cards and returns them in the order
of the board (`Orders` has the one increasing enumeration of their positions) to the player the code computes. `owned` and `returned` are history
variables: what was dealt or returned to a player, and how many cards effects
have returned so far (bounded by `MaxReturned`).

Abstracted: elixir (a card the handler finds too expensive is refused and changes
nothing; the handler works on a copy of the hand card, so the price that is paid later is the one it
has looked at), hit points and timers (a board position may change at any
tick to any card or to none).

### Effects and Combat

`Effects` is a library without state. A battlefield `f` is a record of the two
boards, the health of the leaders and the elixir cap; a place is `<<player, <<row, column>>>>`, a unit the mutable part of a
`CardInstance`: card, attack, hit points, charge left and total, shield.
Each effect is an operator from a battlefield to the set of battlefields that can
come of it, one for each outcome of the random generator. `FireTrigger` runs the abilities of a card
with a trigger in their order, `InTurn` is the loop. `cap` is one number, because
`makeEffectContext` gives both players' contexts a pointer to the same field.

`Combat` has the steps of the loop: `ActiveTick` is `processTick` in the active phase (elixir,
`TickBoard` with `TickUnit` for every position, `ProcessDeaths`, the win condition, the
broadcast), `IdleTick` the one in other phases, `CardPlaced` and `DebugPlaceUnit`
the handlers, `PreTurnEnd` and `RoundEnd` the phase changes. Rows and columns are visited as in
the code, player 1 first at each position, and a unit that dies of an earlier hit in the same tick still
strikes.

Details that look odd in the module and are in the code: an attack below zero heals;
a shield is set by the first hit and protects only from the next; a random pick
of the own leader hits the enemy's; elixir overflow raises the cap of both players,
also beyond `MaxElixir`; a destroyed unit stays until the deaths are processed; a
transformed enemy fires its summon effects for its owner.

Abstracted: instance IDs, event texts, `MaxHP` (only displayed), the deck of a
bounced card (in `CardZones`), the colours of a deck (their number is a constant), and
what is in a hand (any card: `CardZones`).

### Inventory

Nothing in the deck service is a transaction, so a step is one SQL statement: a
handler is a record in `request[h]` as in `Matchmaking`, with the step it is at and what it
has read. Several conditions are looked at twice, first in a read and then in the
`WHERE` of the write (`LevelIsAsRead`, `EnoughCopies`, the deduction), and what follows
a write that fails is a compensation: `Refund`, `Rollback`. `Prune` is what
level-ups and disenchantments do to the decks, with the number of copies the
handler *believes* are left. A statement may fail, may take effect and be reported as
failed (`answerLost`), or the client may go away (`Disconnect`), which cancels the
request's context, so that no later statement of the handler succeeds, the compensations
included. The history variables `income`, `awarded`, `overlapped` and `answerLost` are what
the properties compare with.

| Action | Code |
|---|---|
| `LevelUpRead` ... `LevelUpRow`, `Refund` | `handleLevelUpCard` |
| `DisenchantRead` ... `Award`, `Rollback` | `handleDisenchantCard` |
| `PruneRead`, `Prune` | `pruneDecksForPlayerCard`, called by both |
| `BuyCount`, `BuyPack` | `handleBuyPack`, `GivePackToPlayer` |
| `OpenRead` ... `OpenAward` | `handleOpenPack` |
| `SaveRead` ... `SaveInsert` | `handleUpdateDeck`, and one round of `handleUpdateAllDecks` |
| `CreateRead` ... `CreateInsert`, `DeleteDeck` | `handleCreateDeck`, `handleDeleteDeck` |
| `SetActiveRead`, `SetActive` | `handleSetActiveDeck` |
| `StarterCard` ... `StarterActive` | `handleInitStarterContent` |

The player is new: one handler starts with the request for the starter content, which the
auth service sends without waiting for it (`auth/handlers.go`), so that the player's own requests
overlap it. What the tables refuse or do by themselves is in `Insert`, `Refer` and
`DeleteDeck` (the foreign keys of `deck_cards` and of `users.active_deck_id`).

Abstracted: positions (a deck is a bag), how a pack's cards are drawn, and the
price list, which is a constant. Requests name what is the player's own.

### MatchSelection

`Read` is the SELECT of `findMatches`, with the order of the rows; `Skip` and `Pair` are a
round of the outer loop of `computeMatches`, `Finish` the deletions that
`createGameSession` makes for every pair. Between them users join, leave and are
put back, and time passes: the loop works on `seen`, not on the queue. The sort by
the lower end of the ranges, the binary search and the sweep are one definition,
the candidates a player has (`Candidates`) and the one the sweep keeps (`Best`), with the
ties that an unstable sort and `joined_at` in whole seconds leave open.

Waits beyond `FullWait`, at which the range has its largest size, are renumbered
without changing their order, so that waiting for ever is a loop of finitely many
states. What becomes of a pair is in `Matchmaking`, where a tick may choose any
disjoint pairs of queued users.

### Connections

The goroutines are the handler of each upgrade, the two pumps of each connection,
the loop of each game and the cleanup; a step is one critical section, one channel
operation or one handled event. `handler` is where the handler of an upgrade stands: the
loop can send to a connection whose pumps have not been started, and a connection can be closed
before its `JOIN_GAME` is queued. The two `go` statements are one step, because a goroutine
that has been started and has not run yet can do nothing. Simplified: the answers to one event are
sent in one step, although a pump may empty or close the channel between two of them; a broadcast,
which looks each connection up before it sends, is split. `link` is the socket as both ends see it, `closed` the flag of
`PlayerConnection`, `slot` the two pointers of a game, which a reconnect overwrites
without closing what was there, `sending` the connection a broadcast has looked up
and not yet sent to. Several games exist for one session id: a cleaned-up game leaves
the registry, and its loop and connections run on.

| Action | Code |
|---|---|
| `Request`, `UpgradeFails`, `Upgrade`, `SetPlayerConnection`, `StartPumps`, `ProcessAction` | `handleWebSocket`: `GetOrCreateSession`, the upgrade, the slot, the two `go` statements, the automatic `JOIN_GAME` |
| `Read`, `ReadFails` | `ReadPump` |
| `Write`, `WriteFails` | `WritePump`, a failing ping included |
| `ClientLeaves` | the client or the network |
| `HandleEvent`, `Play`, `Broadcast`, `SendUpdate` | the loop, as far as it sends to connections |
| `Cleanup` | `CleanupInactiveSessions` |

A message is the current state, an old state or an answer; every change of the
game turns the current states in the channels and on the screens into old ones. `reached` is
a history variable: the open connections the loop has let in, or sent its last state to.

### AuthSessions

One step is one SQL statement or one Redis command; `request[h]` is a handler, with the
step it is at, the user and the token it works on and the tokens it has listed.
`row`, `owner` and `expired` are the table `user_sessions`, `cached` the keys
`session:<token>` of Redis, `held` what clients were answered with.

| Action | Code |
|---|---|
| `Register`, `Ban`, `Unban` | `handleRegister`, `handleBanUser` up to its UPDATE, `handleUnbanUser` |
| `Login`, `CreateSession`, `CacheSession` | `handleLogin` |
| `ListTokens`, `DropCopy`, `RevokeAll` | `invalidateUserSessions`, which both login and ban call |
| `Logout`, `RevokeToken` | `handleLogout`: the DEL, then the UPDATE |
| `Validate`, `ReadSession`, `Repopulate` | `handleValidate` |
| `Expire`, `Evict`, `Crash` | time, Redis, the process |

`tangled` is a history variable: the users for whom a request has met another one
of theirs (two validations do not count), a failed command that leaves sessions behind, or a crash in
the middle of a ban. Much of what one would like to say of this service holds only of the
other users, because nothing orders the two stores.

### SnapshotBuffer

`Push` and `Clear` under the mutex; the readers are operators over `head` and
`count`, each with the index arithmetic of the code: `GetAll` counts forwards from
the oldest entry, `GetLatest` backwards from the newest, `GetBySequence` with a remainder. `SnapshotLog` is the sequence of
the last entries. Of a snapshot only what the readers look at is kept: the two sequence numbers, the
action and the actor.

## 4. What the runs check

| Run | Instance | Shows |
|---|---|---|
| `mm_safety` | 2 users, 1 session, 2 handlers, 1 failing statement, 1 crash | `ProtocolInv`, `AgreementKept` |
| `mm_live` | the same, no failing statement, 1 crash, each player with one request at a time, games that end without a winner, fair | `WaitingIsResolved`, `NoPlayerStranded` |
| `gs_loop` | queue of 2, lag of 1, 1 connection per player, 1 message, fair | `SessionInv`, `RoundCycle`, `GameOverIsFinal`, `PhasesEnd` |
| `zones` | decks with two copies of two cards, pile and hand of 2 | `ZonesInv`, `LockedCardsStay` |
| `combat` | one column, 15 small cards with every effect, 2 placements, 3 ticks | `CombatInv`, `DeadLeave`, `LeaderIsGuarded`, `SidesAreEqual` |
| `deck` | one card of two levels, 2 decks, 1 pack, 2 requests at a time, 1 failing statement or lost client | `InventoryInv`, `OneByOne`, `LastCopyStays`, `StarterIsPlayable` |
| `auth` | 2 users, 2 tokens, 2 request goroutines, 1 failing command, 1 crash, symmetric | `SessionsInv`, `OneSessionEach`, `CopiesAreCurrent`, `BannedAreOut`, `NoRevival` |
| `snapshots` | a buffer of 3, a counted and an uncounted action, sequence numbers up to 4 | `BufferInv`, `LatestAreTheTail`, `FirstOfItsNumber`, `RefinesLog` |
| `conns` | 2 sockets in one or two seats, 1 game, channels and queue of 1, fair | `ConnectionsInv`, `ClosedIsSilent`, `PumpsEnd`, `NewestArrives` |
| `match` | 4 users with ratings at the distances that matter, 1 change of the queue during a tick, fair | `SelectionInv`, `PairsAreStable`, `StrangersAreLeft`, `NobodyStarves` |
| `mm_ledger` | violation | ratings paid twice, or paid for a game never recorded |
| `conns_final` | violation | the game of a session is over and removed, and a reconnect starts another one |

What the passing properties say:

- `ProtocolInv` relates what a goroutine has read to the tables now: an accept
  that decided to start finds the other player's consent still recorded (the
  flags are never cleared), an end request works on a game that has begun, the
  loops on rows that exist. `AgreementKept` is the refinement of `MatchAgreement`.
- `WaitingIsResolved`: no match waits for ever, also after a crash, and also after
  a double accept in which both read before either writes and neither starts the game: the expiry loop resolves it.
- `NoPlayerStranded`: the player of a waiting match gets the game or is queued
  again, unless it is the one who rejects or the service crashed or a statement
  failed. The exception for crashes is needed: after a crash between the cancel
  and the requeue nobody looks at the cancelled session again. `AgreementKept` does not
  exclude the cancel of a game that has started: it says that such a match never begins again.
- `SessionInv` says that a phase that has begun has something left to end it
  (a timer, a callback that is not stopped, an event, a join that will start the
  timer), or an event was missed; that timers and timer events belong to the
  current phase; that at most one timer event is in flight; that a winner is
  known exactly when the game is over. `RoundCycle` is its consequence that no
  phase is skipped although joins restart the timer under a running callback.
- `PhasesEnd` is the liveness counterpart, and holds only up to `missed`: the
  queue really can drop the event that ends a phase, and then it never ends. `missed` is never
  reset: after one event that was dropped or refused, `PhasesEnd` and the part of `SessionInv` about
  what will end the phase claim nothing more.
- `ZonesInv` says that deck, draw pile and hand together hold exactly what a player
  was dealt or given; that selected cards are still in the hand and none are
  selected in a round; and the limits of hand and draw pile. The documented limit of
  the draw pile, 8, is not one: a join in the pre-turn tops the pile up after a
  selection, and a deselection then puts the card on top of a full pile. What
  holds is `MaxDrawPile + MaxHand` for draw pile and selection together.
- `LockedCardsStay`: with several copies of a card, no order of selections and
  deselections puts back a card that was locked in an earlier turn.
- `CombatInv`: elixir stays between 0 and a cap that effects raise; a unit that charges has
  between one tick and a full charge left, whatever halves, resets or stops its charge.
- `DeadLeave`: after a tick nobody stands with no hit points: as long as there are fewer units than
  waves (`MaxWaves`) that can bring others to zero by dying (`Avenges`), the limit of waves never
  ends a cascade of deaths. With ten waves and twelve positions that is every field with at most nine of them.
- `LeaderIsGuarded`: a leader loses health in a tick only to a unit at the end of its charge
  whose column was empty when the tick began, to a unit that aims at random, or to
  an own unit made for it (`damage_leader`). Units that die in the tick still guard.
- `SidesAreEqual`: a tick on the mirrored boards does the mirrored thing when only one
  player strikes, so the order of the loops favours nobody. Two kinds of abilities are excepted, because
  with them it does: resetting charges in a fight (an enemy who is reset may or may not tick afterwards in the same
  tick), and every effect of a death but damage to the own leader (who dies in the same wave may be there or not: a random
  enemy that is destroyed may be one that is dying too). Among the real cards (migration 000019) these are
  the attack of card 34 and the death of card 28. When both players strike in one tick the order
  matters by design of the loop: effects of player 1's hits come first.

- `InventoryInv`: crystals, copies and levels stay in their ranges although they are
  checked in an earlier statement than the one that changes them; the crystals, plus
  what the levels have cost and what running requests hold, never exceed what was earned
  as long as a failed statement has no effect, and equal it when nothing fails; the
  limit of unopened packs is passed by at most one per further request; and the active deck
  exists, although a deck may be deleted between the statement that looks it up and the one that
  makes it active.
  With one pack and a limit of one the run cannot pass the limit of packs; the theorem is about any number.
- `OneByOne`: requests that do not overlap keep the stronger promises: a pack is awarded
  once, the limit of packs holds, and every deck can be saved as it is. Requests
  that overlap break each of these (section 6).
- `LastCopyStays`: whatever races, the last copy of a card at its highest level stays.
- `StarterIsPlayable`: when the starter content is there, nothing failed and no other request
  came first, the active deck is a complete starter deck that could be saved as it is.
  The errors of the INSERTs are ignored, so a player may also start with less.
- `SessionsInv` says what a request of an untangled user may rely on at its step: before the
  INSERT of a login no session is left in either store, and a validation that is about to write the
  copy of a row still finds the row active. From it follow `OneSessionEach`,
  `CopiesAreCurrent` (Redis never accepts what MySQL refuses) and `BannedAreOut`.
- `NoRevival` holds for all users, tangled or not: once neither store accepts a
  token and nobody is about to write its copy, nothing brings it back, an unban included.
- `BufferInv`, `LatestAreTheTail`, `FirstOfItsNumber` and `RefinesLog`: the three readers of the
  wrapping buffer see the same entries, in order, and these are the log of the last `Size` snapshots.
- `ConnectionsInv`: a pump that has ended has closed its connection, so that the other
  one ends, also one that its handler has still to start; slots and broadcasts hold connections that were
  attached to their game, and events those whose pumps were started; and no channel holds an old state behind the current one, so
  that no client goes back. `ClosedIsSilent`: nobody sends to a closed channel, which would end the process.
- `PumpsEnd`: both goroutines of a lost connection end, also when another connection has taken its slot
  or its game has been removed. `NewestArrives`: the connection in the slot keeps
  getting the current state, with the exceptions the property names: the channel was full
  at the last broadcast, or the loop refused the connection's `JOIN_GAME` as stale and has not broadcast since.
- `SelectionInv` is the loop invariant of `computeMatches`: legal, disjoint pairs, and nobody considered so far is
  passed over. `PairsAreStable`: no two users who could have been paired would both have
  preferred each other. `StrangersAreLeft`: who is left has nobody in range.
- `NobodyStarves`: a user within reach of others is paired in the end, however many join
  and leave, unless they leave or are put back again and again.

Bounds. Matchmaking conflicts are between two requests, or a request and a loop,
about one match, so two users, one session, two handlers and both loops contain
them. One fault and one crash are enough for a partial failure at each
statement; the theorems cover any number. A queue of 2 overflows within a few
steps, and one message besides the automatic joins lets every kind of action
meet every phase, from either player, with a recent or an old sequence number.
Two copies of two cards, a pile of two and a hand of two let every limit be met:
the empty deck, the full pile, the full hand, the second copy of a locked card;
one board position per player is enough for a card to be placed, refused and
bounced. With `MaxReturned = 1` a deck grows by a foreign card once.
Combat: one column has a front and a back unit on each side, all relations between
positions except adjacency; two placements, with what they summon, fill it; a charge of two ticks
lets units strike in different and in the same ticks within three. `MaxWaves = 3`
stands to four positions as the code's ten to twelve: a chain of deaths that needs more waves than
the limit would need more units that kill on death than two placements put down, as
it would there with real decks. Elixir is scaled to one unit per tick and a start of 2.

Inventory: a player's requests conflict in pairs; one card of two levels can be levelled
up, disenchanted, put into two decks and drawn from a pack, the pack opened twice gives
the copies two disenchantments compete for. With one card the rules about the size
of a deck, the copies of a card and legendary cards coincide. The starter content is one copy
and one deck of one card, instead of two copies of each of six cards and three decks: the
player creates the second deck. Ids
never run out in the code; in the model a request that draws one starts only while there is one for it.

Auth: conflicts are between two requests of one user, and the second user is there for what
a ban or a login does to somebody else's sessions. A buffer of three fills, wraps and is
cleared within the sequence numbers. Two sockets can be in one seat, one after
the other or both at once, or in both seats; with channels and queues of one
message every send meets a full and an empty one. Ratings are chosen so that two
users overlap at once, only when one range has grown, only when both have, or never;
with a longest wait of one step a third and a fourth user can come before or after.

Deadlock is checked in every run but `conns` and `conns_final`: when the clients
have gone and the game is over, nothing is left to do.

Fairness. `Matchmaking`: a handler that has started runs on (the Go scheduler),
the ticker of the expiry loop runs for ever, time passes. Clients are not fair:
nobody has to accept. The ticker of the matchmaker runs for ever too, but nothing
checked here needs it. `GameSession`: the ticker keeps the loop going, timers fire, callbacks
and connection goroutines that have started run on; clients owe nothing. `Connections`: some goroutine of a connection that can take a step
does (one condition for the handler and both pumps of it, which is weaker than one for each), the loops run on, and the deadlines of the
sockets pass (`PongWait`, `WriteWait`), so that a pump of a lost client fails; clients, the progress of the game and the cleanup owe
nothing. `MatchSelection`: the ticker runs, and time passes whenever the bound on changes during a tick
lets it (this is why its fairness is strong); nobody has to join or leave. In `mm_live` a game ends
without a winner and a player has one request at a time: the progress of a match is not about what follows it, nor about what one
player asks for twice at once, and both would multiply the states. `mm_safety` has them. The rating
changes are 0 in both, since no handler reads a rating back; `mm_ledger` has the real ones.

## 5. What is proved

All proofs are of the full specification, for every value of the constants that
satisfies the named assumptions (null values are not ids, requests are from users, bounds and sizes are
natural numbers, queues and channels hold at least one entry, users, cards, board positions, packs and concurrent requests are finite in number, the sets of a deck service are not empty, ranges grow to their top). `StarterCanBeSaved` of `Inventory` says that the limits
allow the starter deck and that the copies given suffice for it, as two copies of each of
six common cards and the limits of `deck/handlers.go:855-885` do. `Effects` assumes of the table of
abilities that it uses the effects the registry knows (`AbilitiesAreKnown`) and that some abilities
are given only to the moment a card is placed (`OnlyWhenPlaced`: bounce, transform,
summoning, a change of the attack speed, damage to the enemy leader); migration 000019 (lines 148-197), the only
one that fills the table, is such. The cards themselves, their abilities, costs and numbers, the width of the boards,
the charge and all limits are arbitrary in the theorems about combat.

| Theorem | Statement | Argument |
|---|---|---|
| `MatchmakingProofs!ProtocolInvariant` | `Spec => []ProtocolInv` | `ProtocolInv` is inductive. It needs the rows (`RowOK`: who may be ready, when a session has started) and the goroutines' local reads together: an accept that saw the other player ready is justified because ready flags of an existing row only grow, an end request because `started` is never reset, the batches of the loops because rows are never deleted |
| `MatchmakingProofs!AgreementIsKept` | `Spec => AgreementKept` | with the invariant, each action maps to a step of `MatchAgreement` or to a stutter; the accept that starts maps to `Begin` thanks to the invariant about `both` |
| `GameSessionProofs!SessionInvariant` | `Spec => []SessionInv` | inductive as stated. `PhaseIsTimed` alone is not: a `RECONNECT` could start the game without a timer, so `JoinIsOwed` (a connected player's join is still to come) is part of it; and a timer event handled in the wrong phase would break it, so `OneEventInFlight` and `TimersMatchPhase` are |
| `GameSessionProofs!RoundsCycle` | `Spec => []RoundCycle` | from `TimersMatchPhase` |
| `GameSessionProofs!GameOverStays` | `Spec => GameOverIsFinal` | one case per action, with the invariant |
| `AuthSessionsProofs!SessionsInvariant` | `Spec => []SessionsInv` | inductive: `StepsAreSafe` is what each step of a request needs from the steps before it, and `UntangledAreAlone` is what keeps other requests of the user from destroying it |
| `AuthSessionsProofs!OneSessionPerUser`, `RedisFollowsMySQL`, `BansTakeHold` | `Spec => []OneSessionEach`, `[]CopiesAreCurrent`, `[]BannedAreOut` | each is inductive together with `SessionsInv` |
| `AuthSessionsProofs!NothingIsRevived` | `Spec => NoRevival` | one case per action that writes a row or a copy |
| `GameplayProofs!CombatInvariant` | `Spec => []CombatInv` | one lemma per effect. Most only touch units that stand: `Steady` sets of battlefields are those that such changes, and a raised cap, do not leave, so one lemma about all of them (`FireSteady`) serves every set of battlefields the proofs need. `InTurn` is a recursive function over steps done; `TurnsExist` and `KeptInTurn` show that it exists and that what each step keeps holds at the end. The cap only grows within a step, so paid elixir stays below it |
| `GameplayProofs!DeadAlwaysLeave` | `Spec => DeadLeave` | after a wave the units dead at its start are gone (`WaveThins`), and if none of them avenged itself nobody else is hurt (`QuietWave`); so each wave that leaves somebody dead costs an avenger (`WavesCost`), and there are fewer of those than waves |
| `GameplayProofs!LeadersAreGuarded` | `Spec => LeaderIsGuarded` | a unit that is not about to strike at the start of the tick only charges in it (`UnitsTick`, with the places still waiting shrinking along the order); no unit leaves its place before the deaths, so who strikes at a guarded leader's column finds somebody there (`AimsAtColumn`) |
| `GameplayProofs!RulesAreFair` | `Spec => []SidesAreEqual` | two ticks in step: `Twin` says that what player 1 has on one field player 2 has on the other, except for charges that one of them has counted down already. The turns are taken in pairs, the two units of one position (`OrderInPairs`): only one of them can strike, the other one's count commutes with everything the first does (`TwinLeft`, `TwinRight`), so after the pair the fields are twins again (`TwinPair`). In a wave the deaths of one position only hurt the leaders, by amounts that add up in any order (`Level`, `DyingPair`). At the end twins without differing charges are mirror images (`TwinIsMirror`), and mirroring twice changes nothing, so the sets of outcomes are equal (`MirroredTicks`) |
| `GameplayProofs!BufferInvariant`, `ReadersAgree`, `FirstSnapshotFound` | `BufferSpec => []BufferInv`, `[]LatestAreTheTail`, `[]FirstOfItsNumber` | a lemma about the remainder rewrites each index computation to the same position; `InOrder` is inductive because a push appends the current numbers |
| `GameplayProofs!BufferImplementsLog` | `BufferSpec => RefinesLog` | `Push` appends to `GetAll` and drops its first entry when the buffer is full |
| `MatchSelectionProofs!SelectionInvariant` | `Spec => []SelectionInv` | the loop invariant of the pairing; a round keeps everybody considered served |
| `MatchSelectionProofs!PairingIsStable` | `Spec => []PairsAreStable` | from the invariant: a pair that blocked the result would have been formed in the round of its first member |
| `MatchSelectionProofs!OnlyStrangersAreLeft` | `Spec => []StrangersAreLeft` | from the invariant, and because ranges only widen with the wait |
| `ConnectionsProofs!ConnectionsInvariant` | `Spec => []ConnectionsInv` | inductive; a lemma about `SendMessage` and one about a change of the game keep every channel in order |
| `ConnectionsProofs!ClosedStaysSilent` | `Spec => ClosedIsSilent` | proved along with the invariant, step by step |
| `CardZonesProofs!ZonesInvariant` | `Spec => []ZonesInv` | inductive as stated: with at most `MaxHand` selected cards, all of them in the hand, a deselection cannot take a draw pile beyond the sum of the limits. Lemmas say how a concatenation, a split, an append and the removal of the first match change the number of copies of a card, and that a bag of copies has as many cards as a sequence of them at most |
| `CardZonesProofs!LockedStay` | `Spec => LockedCardsStay` | selecting and deselecting change hand and selection by the same card |
| `InventoryProofs!InventoryInvariant` | `Spec => []InventoryInv` | two strengthenings: `LevelsBelowTop` (what a running level-up has read is below the highest level, so the row it updates is too) and `RoomIsSeen` (packs and purchases under way together stay below the limit plus the requests). `StepsAreBalanced` shows that a step keeps the sum of the balance, what levels have cost and what the request holds, against the income, unless a statement fails; the sums are cardinalities of sets of pairs, so that one summand can be changed by facts about finite sets alone |
| `InventoryProofs!LastCopyIsKept` | `Spec => LastCopyStays` | from the invariant: only a disenchantment removes copies of a card at its highest level, and its `WHERE` keeps one |
| `InventoryProofs!RequestsAloneAreSound` | `Spec => []OneByOne` | through the inductive `QuietInv`: as long as nothing has failed and nothing has overlapped, only one request is under way, and what it has read is still so (`Justified`); a deck beyond the copies left is one whose pruning the running level-up or disenchantment still owes (`Fits`, `WillPrune`); a deck under construction together with the cards still to insert could be saved, and the deck of an id not given out has no rows (`RowsOfDecks`) |
| `InventoryProofs!StarterContentIsPlayable` | `Spec => StarterIsPlayable` | from the same invariant: the deck the request has saved plus the rows left to insert is the starter deck |

Only model-checked: the liveness properties (fairness and `ENABLED` are outside
what the prover handles). Every invariant that the runs check is a theorem.

## 6. Findings

Each violation run is one finding of `PROJECT.json`, with the line it contradicts.
Besides them, met while modelling:

- A match can be cancelled after it has started: the expiry loop (`main.go:155`) and the
  rejection decide on a row they have read, and the UPDATE (`game_sessions.sql:30`)
  has no condition on the status.
- Two accepts that both read the row before either writes record two consents and start
  nothing (`handlers.go:443`, against the comment at `:380`); the match waits with both players ready until it expires.
- `bounce.go:58` passes 0 as the owner of a bounced enemy card, which `getPlayerHand`
  takes for player 2: player 2 can receive a card of player 1 (`CARD_EFFECT_DESIGN.md:31`).
- The combat log is cleared at the start of the active tick (`gameplay_state.go:147`), before the broadcast,
  so events of a placement's summon effects can be cleared unseen (`WEBSOCKET_API.md:213`).
- Overlapping logins of one user leave two sessions. Logout and ban drop the Redis copy before they revoke
  the row, so that a validation in between writes it back. A login that read `is_banned` before a ban
  creates a session after it. When the UPDATE that revokes the sessions fails or the service dies in a ban, the sessions stay, and an
  unban makes them valid again. `AuthSessions` has all of these behaviours (`tangled`).
- `RECONNECT`, which "sends the current game state" (`WEBSOCKET_API.md:134`), can be refused as stale
  like any action; the client then gets an error, and in GAME_OVER no broadcast follows it (`reached`).
- A cleaned-up game keeps its loop and its connections; only the registry forgets it.
- A late player's automatic `JOIN_GAME` carries the player's own sequence number and
  is refused as stale once the server has counted more than eight ticks (`Stale`,
  counted by `missed`).
- The check for an ongoing session and the insertion into the queue are separate
  statements (`JoinCheckSession`, `JoinInsert`), and a failed check counts as
  passed: a player can get two sessions.
- The first `JOIN_GAME` enters the pre-turn, although `WEBSOCKET_API.md:37` says both
  players must have joined.
- The winner of a finished game who surrenders makes the loser the winner:
  `HandleSurrender` does not look at the phase, and `WEBSOCKET_API.md:425` calls GAME_OVER final.
- `OpenPack` marks a pack without looking whether it is still unopened, so two requests
  that read it before either marks it both award its cards and crystals.
- Two overlapping requests can leave a deck unsavable, which the pruning is
  meant to prevent (`level_handlers.go:243`): the number of copies it prunes to was read before
  the other request, or a save was validated before the copies were consumed; and two saves of
  the same deck may keep the cards of both.
- `handleUpdateDeck` looks up the deck id of the body and then writes the deck of the path.
- The refund of a level-up and the rollback of a disenchantment use the context of the
  request, so a client that goes away at the wrong moment loses crystals or copies.
- A placement on an occupied position, or of a card whose abilities cannot be resolved, fails
  after the card has left the hand (`CardPlaced` in `CardZones`).
- A rejection "puts both players back in queue" says the comment at `handlers.go:489`; the
  code requeues only the player who did not reject (`:546`, `RejectRequeue`).
- Migration 000019 describes a shield as protection "whenever this unit takes
  damage"; it is set by the first hit that the unit survives.
- The chain guard of `transform.go:30` counts a depth that is never passed on; what ends chains
  is that the token cards have no summon transformation.
- The combat log is sent again with every broadcast until the next active tick.

## 7. Not modelled

Left out on purpose: JSON shapes and state hashes
(presentation), the token check of each service (one call, no state), server
actions (nothing calls them), the generated query code (glue; the SQL itself is
translated), the friend list and replay stubs, the UDP echo.
