------------------------------- MODULE Combat -------------------------------
(***************************************************************************)
(* The fight of one match: cards placed on the two boards, and the tick of *)
(* the game loop that charges units, resolves their attacks and removes    *)
(* the dead (gameplay_state.go, game_loop.go, handlers/card_placed.go).    *)
(*                                                                         *)
(* One goroutine runs all of this, so a handler or a tick is one step; the *)
(* order in which the events of a match reach it is left open.  Timers,    *)
(* joining and disconnecting are the subject of GameSession, hands and     *)
(* decks that of CardZones: here any card of PlayedCards may come from a   *)
(* hand, and a round ends or begins at any time.                           *)
(***************************************************************************)
EXTENDS Effects

CONSTANTS
  PlayedCards,           \* cards a hand can hold
  DebugUnits,            \* units DEBUG_PLACE_UNIT places: no abilities
  LeaderHealth,          \* 250
  LeaderAttack,          \* 10
  MilliElixirPerElixir,  \* 1000
  MilliElixirPerTick,    \* 50
  StartingElixir,        \* 3
  StartingElixirCap,     \* 5
  MaxElixir,             \* 8
  MaxWaves,              \* 10
  MaxPlaced, MaxTicks    \* bounds of a run

ASSUME StatsAreNats ==
  {LeaderHealth, LeaderAttack, MilliElixirPerElixir, MilliElixirPerTick, StartingElixir,
   MaxElixir, MaxWaves, MaxPlaced, MaxTicks} \subseteq Nat
ASSUME StartIsWithinCap == StartingElixirCap \in Nat /\ StartingElixir <= StartingElixirCap
ASSUME CardsAreKnown == PlayedCards \cup DebugUnits \subseteq Cards

VARIABLES phase, field, elixir, placed, ticks
vars == <<phase, field, elixir, placed, ticks>>

Lesser(a, b) == IF a < b THEN a ELSE b

\* NewGameplayManager, once both players have joined.
Init ==
  /\ phase = "PRE_TURN"
  /\ field = [board |-> [t \in Places |-> NoUnit],
              health |-> [p \in Players |-> LeaderHealth],
              cap |-> StartingElixirCap]
  /\ elixir = [p \in Players |-> StartingElixir * MilliElixirPerElixir]
  /\ placed = 0
  /\ ticks = 0

----------------------------------------------------------------------------
(* Attacks.                                                                *)

\* The order of the loops of TickBoard and processDeaths: at each position player 1
\* comes first.
Row(r) == [i \in 1..2 * NCols |-> <<1 + ((i - 1) % 2), <<r, (i - 1) \div 2>>>>]
Order == Row(FrontRow) \o Row(BackRow)

\* For a mutant: the default target is the front row or the leader.
AimsPastTheBackRow(f, t) ==
  {Standing(f, {<<Opponent(t[1]), <<FrontRow, t[2][2]>>>>})}

\* What the unit at t may attack: no place is the enemy leader.  The first
\* ability that modifies targets decides.  A random target among all may be the
\* own leader as well, but resolveAttack then hits the enemy leader all the same.
Aims(f, t) ==
  LET p == t[1]
      inFront == EnemyInFront(f, t)
      inBack == Standing(f, {<<Opponent(p), <<BackRow, t[2][2]>>>>})
      abilities == Definition[Unit(f, t).card].abilities
      modify == {i \in DOMAIN abilities : abilities[i].effect \in {"random_target", "skip_front_row"}}
      first == abilities[CHOOSE i \in modify : \A j \in modify : i <= j]
  IN IF modify = {} THEN {inFront}
     ELSE IF first.effect = "skip_front_row"
     THEN {IF inBack # {} THEN inBack ELSE inFront}
     ELSE LET own == IF first.pool = "all" THEN Side(p) \ {t} ELSE {}
          IN {{}} \cup {{s} : s \in Standing(f, Side(Opponent(p)) \cup own)}

\* What a shield leaves of an attack; an attack below zero heals.
Damage(atk, u) == IF u.shield > 0 /\ atk < u.shield THEN 0 ELSE atk - u.shield

\* For a mutant: player 2's leader, whoever attacks.
StrikeSecondLeader(f, t) ==
  [ChangeStats(f, {t}, 0, -LeaderAttack) EXCEPT !.health[2] = @ - Unit(f, t).atk]

StrikeLeader(f, t) ==
  [ChangeStats(f, {t}, 0, -LeaderAttack) EXCEPT !.health[Opponent(t[1])] = @ - Unit(f, t).atk]

\* The abilities a hit fires concern the unit that is hit and its attacker only.
StrikeUnit(f, t, s) ==
  LET g == ChangeStats(f, {s}, 0, -Damage(Unit(f, t).atk, Unit(f, s)))
  IN IF Unit(g, s).hp > 0 THEN FireTrigger("on_damaged", Unit(g, s).card, g, s, t) ELSE {g}

Strike(f, t) ==
  UNION {IF aim = {} THEN {StrikeLeader(f, t)} ELSE UNION {StrikeUnit(f, t, s) : s \in aim} :
         aim \in Aims(f, t)}

\* The unit may die of its own attack abilities before it strikes.
ResolveAttack(f, t) ==
  LET fired == FireTrigger("on_attack", Unit(f, t).card, f, t, t)
  IN {Recharge(h, {t}) :
        h \in UNION {IF Unit(g, t).hp <= 0 THEN {g} ELSE Strike(g, t) : g \in fired}}

----------------------------------------------------------------------------
(* The tick of the boards.                                                 *)

\* For a mutant: the charge runs below zero before the unit strikes.
TickUnitLate(f, t) ==
  LET u == Unit(f, t)
      charged == Put(f, t, [u EXCEPT !.left = @ - 1])
  IN IF u = NoUnit \/ u.total = 0 THEN {f}
     ELSE IF u.left > 0 THEN {charged}
     ELSE ResolveAttack(charged, t)

\* A unit without a charge never attacks; a dead one still does in this tick.
TickUnit(f, t) ==
  LET u == Unit(f, t)
      charged == Put(f, t, [u EXCEPT !.left = @ - 1])
  IN IF u = NoUnit \/ u.total = 0 THEN {f}
     ELSE IF u.left > 1 THEN {charged}
     ELSE ResolveAttack(charged, t)

Dead(f) == {t \in Standing(f, Places) : Unit(f, t).hp <= 0}

\* The units dead at its beginning die in a wave; the next wave takes those
\* their abilities killed.
Wave(f) ==
  LET Die(g, t) ==
        IF t \in Dead(f)
        THEN {Remove(h, {t}) : h \in FireTrigger("on_death", Unit(f, t).card, g, t, t)}
        ELSE {g}
  IN InTurn(Die, f, Order)

\* For a mutant: what a death kills stays until the next tick.
ProcessFirstDeaths(f) == Wave(f)

ProcessDeaths(f) ==
  LET wave(g, i) == Wave(g)
  IN IF Dead(f) = {} THEN {f} ELSE InTurn(wave, f, [i \in 1..MaxWaves |-> i])

TickBoard(f) ==
  UNION {ProcessDeaths(g) : g \in InTurn(TickUnit, f, Order)}

----------------------------------------------------------------------------
(* The steps of the game loop.                                             *)

TickElixir ==
  elixir' = [p \in Players |->
               Lesser(field.cap * MilliElixirPerElixir, elixir[p] + MilliElixirPerTick)]

\* CheckWinCondition and handleGameOver; the winner is the subject of GameSession.
CheckWin(f) ==
  phase' = IF \E p \in Players : f.health[p] <= 0 THEN "GAME_OVER" ELSE phase

\* processTick.
ActiveTick ==
  /\ phase = "ACTIVE"
  /\ ticks < MaxTicks
  /\ TickElixir
  /\ \E f \in TickBoard(field) :
       /\ field' = f
       /\ CheckWin(f)
  /\ ticks' = ticks + 1
  /\ UNCHANGED placed

\* Outside the active phase a tick only checks the leaders.
IdleTick ==
  /\ phase # "ACTIVE"
  /\ CheckWin(field)
  /\ UNCHANGED <<field, elixir, placed, ticks>>

\* PlayCard: the price of the unit and a free position.
PlayCard(c, t) ==
  /\ placed < MaxPlaced
  /\ elixir[t[1]] >= Definition[c].cost * MilliElixirPerElixir
  /\ Unit(field, t) = NoUnit
  /\ elixir' = [elixir EXCEPT ![t[1]] = @ - Definition[c].cost * MilliElixirPerElixir]
  /\ placed' = placed + 1

\* FireSummonEffects; makeEffectContext gives them the boards, leaders and caps.
FireSummons(f, t) == FireTrigger("summon", Unit(f, t).card, f, t, t)

\* HandleCardPlaced compares the elixir shown, whole ones, with the price before
\* PlayCard compares the exact one.
TooExpensive(p, c) == elixir[p] \div MilliElixirPerElixir < Definition[c].cost

CardPlaced(c, t) ==
  /\ phase = "ACTIVE"
  /\ ~ TooExpensive(t[1], c)
  /\ PlayCard(c, t)
  /\ \E f \in FireSummons(Put(field, t, NewUnit(c)), t) : field' = f
  /\ UNCHANGED <<phase, ticks>>

DebugPlaceUnit(c, t) ==
  /\ phase = "ACTIVE"
  /\ PlayCard(c, t)
  /\ field' = Put(field, t, NewUnit(c))
  /\ UNCHANGED <<phase, ticks>>

\* handlePreTurnEnd and StartRound.
PreTurnEnd ==
  /\ phase = "PRE_TURN"
  /\ phase' = "ACTIVE"
  /\ UNCHANGED <<field, elixir, placed, ticks>>

\* handleRoundEnd and AdvanceRound.
RoundEnd ==
  /\ phase = "ACTIVE"
  /\ phase' = "PRE_TURN"
  /\ field' = [field EXCEPT !.cap = IF @ < MaxElixir THEN @ + 1 ELSE @]
  /\ UNCHANGED <<elixir, placed, ticks>>

Next ==
  \/ ActiveTick
  \/ IdleTick
  \/ \E c \in PlayedCards, t \in Places : CardPlaced(c, t)
  \/ \E c \in DebugUnits, t \in Places : DebugPlaceUnit(c, t)
  \/ PreTurnEnd
  \/ RoundEnd

Spec == Init /\ [][Next]_vars

----------------------------------------------------------------------------
(* Properties.                                                             *)

TypeOK ==
  /\ phase \in {"PRE_TURN", "ACTIVE", "GAME_OVER"}
  /\ field \in Battlefields
  /\ elixir \in [Players -> Int]
  /\ placed \in 0..MaxPlaced
  /\ ticks \in 0..MaxTicks

\* No player pays with elixir there is not, and none has more than the cap, also
\* while effects and rounds raise it between the ticks that fill the elixir up.
ElixirIsPaid ==
  \A p \in Players : elixir[p] \in 0..(field.cap * MilliElixirPerElixir)

\* Between two ticks a unit that charges has at least one tick to go: it strikes
\* in the tick that ends its charge, and never twice for one charge.
ChargesRun ==
  \A t \in Standing(field, Places) :
    LET u == Unit(field, t) IN IF u.total = 0 THEN u.left = 0 ELSE u.left \in 1..u.total

\* The state of a fight between two steps of the loop.
CombatInv == TypeOK /\ ElixirIsPaid /\ ChargesRun

\* The triggers of a unit's abilities with an effect.
Triggers(u, effect) ==
  {a.trigger : a \in {b \in AbilitiesOf(u.card) : b.effect = effect}}

\* The death of a unit can bring others to zero.
Avenges(u) ==
  \E a \in AbilitiesOf(u.card) : a.trigger = "on_death" /\ a.effect # "damage_leader"

\* No unit stays on a board without hit points after a tick, however long the
\* cascade of deaths was: as long as fewer units than waves avenge themselves, the
\* limit of waves is not what ends it.
DeadLeave ==
  [][/\ ticks' # ticks
     /\ Cardinality({t \in Standing(field, Places) : Avenges(Unit(field, t))}) < MaxWaves
     => \A t \in Standing(field', Places) : Unit(field', t).hp > 0]_vars

\* A leader is hurt in a tick only by an enemy at the end of its charge that has
\* nobody in its column at the beginning of the tick, dying ones included, or that
\* aims at random; or by an own unit made for it.
LeaderIsGuarded ==
  [][\A p \in Players :
       ticks' # ticks /\ field'.health[p] < field.health[p] =>
         \/ \E t \in Standing(field, Side(Opponent(p))) :
              /\ Unit(field, t).left = 1
              /\ \/ Standing(field, Column(p, t[2][2])) = {}
                 \/ Triggers(Unit(field, t), "random_target") # {}
         \/ \E t \in Standing(field, Side(p)) : Triggers(Unit(field, t), "damage_leader") # {}]_vars

Mirror(f) ==
  [f EXCEPT !.board = [t \in Places |-> f.board[<<Opponent(t[1]), t[2]>>]],
            !.health = [p \in Players |-> f.health[Opponent(p)]]]

\* The rules are the same for both players: if the units of only one player strike
\* in a tick, then on the mirrored boards the tick does the mirrored thing.  Two kinds
\* of abilities are excepted, for which it matters that player 1 comes first at each
\* position: a unit whose charge a fight resets may still tick afterwards, and those
\* who die in one wave may find the others still there or not (who destroys a random
\* enemy may waste it on one that is dying too).
SidesAreEqual ==
  LET striking == {t \in Standing(field, Places) : Unit(field, t).left = 1}
      ordered(u) == Avenges(u) \/ ~ (Triggers(u, "reset_attack") \subseteq {"summon"})
  IN /\ striking # {}
     /\ \E p \in Players : striking \subseteq Side(p)
     /\ \A t \in Standing(field, Places) : ~ordered(Unit(field, t))
     => {Mirror(f) : f \in TickBoard(field)} = TickBoard(Mirror(field))
=============================================================================
