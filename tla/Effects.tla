------------------------------- MODULE Effects -------------------------------
(***************************************************************************)
(* The card effects of the gameplay service (services/gameplay/effects):   *)
(* who an effect hits and what it does to the battlefield.                 *)
(*                                                                         *)
(* A battlefield is a record of the two boards, the health of the leaders  *)
(* and the elixir cap (one for both players: both pointers of the code's   *)
(* EffectContext point to it).  What uses the random generator yields      *)
(* several battlefields, so every effect yields a set of them.             *)
(*                                                                         *)
(* Abstracted: instance IDs, the texts and values of events, maximal       *)
(* health (only displayed), and the deck a bounced card goes to, which is  *)
(* the subject of CardZones.                                               *)
(***************************************************************************)
EXTENDS Integers, Sequences, FiniteSets

CONSTANTS
  Cards,         \* card IDs, tokens and debug units included
  Definition,    \* [Cards -> cost, atk, hp, colour, abilities]
  NoUnit,        \* an empty position
  NCols,         \* the columns of a board (3)
  ChargeTicks,   \* ticks of a full charge (40)
  DeckColours    \* the number of colours in a player's deck

ASSUME NColsIsNat == NCols \in Nat
ASSUME ColoursAreNat == DeckColours \in Nat
ASSUME ChargeIsNat == ChargeTicks \in Nat \ {0}
ASSUME CardsHaveStats ==
  \A c \in Cards : Definition[c].cost \in Nat /\ Definition[c].atk \in Int /\ Definition[c].hp \in Int

\* A row of card_abilities: the union of the parameters of all effects.
EffectNames ==
  {"stats_change", "deal_damage", "destroy", "destroy_random", "bounce", "summon_units", "set_hp",
   "reset_attack", "double_attack_speed", "elixir_overflow", "self_damage", "damage_leader",
   "shield", "reflect", "random_target", "skip_front_row", "transform"}
Abilities ==
  [trigger : {"summon", "on_attack", "on_damaged", "on_death"}, effect : EffectNames,
   target : STRING, atk : Int, hp : Int, condition : BOOLEAN, perColour : BOOLEAN, damage : Int,
   buff : Int, card : Cards, count : Nat, invert : BOOLEAN, amount : Nat, reduction : Nat,
   chance : Nat, pool : {"enemy", "all"}]
ASSUME AbilitiesAreKnown == \A c \in Cards : Definition[c].abilities \in Seq(Abilities)
AbilitiesOf(c) == {Definition[c].abilities[i] : i \in DOMAIN Definition[c].abilities}

\* Some abilities are only given to cards for the moment they are placed: those that
\* take units off the boards, replace them or add some, that change how fast a unit
\* charges, and that hit the enemy leader.
ASSUME OnlyWhenPlaced ==
  \A c \in Cards : \A a \in AbilitiesOf(c) :
    \/ a.effect \in {"bounce", "transform", "summon_units", "double_attack_speed"}
    \/ a.effect = "deal_damage" /\ a.target = "enemy_leader"
    => a.trigger = "summon"

Players == {1, 2}
Opponent(p) == 3 - p
FrontRow == 0
BackRow == 1
Cols == 0..(NCols - 1)
Positions == {FrontRow, BackRow} \X Cols

Units ==
  [card : Cards, atk : Int, hp : Int, left : Nat, total : Nat, shield : Nat]
ASSUME NoUnitIsNone == NoUnit \notin Units

\* NewCardInstance
NewUnit(c) ==
  [atk |-> Definition[c].atk, hp |-> Definition[c].hp, card |-> c,
   shield |-> 0, total |-> ChargeTicks, left |-> ChargeTicks]

Places == Players \X Positions
Battlefields ==
  [board : [Places -> Units \cup {NoUnit}], health : [Players -> Int], cap : Nat]
Unit(f, t) == f.board[t]
Standing(f, T) == {t \in T : Unit(f, t) # NoUnit}
Side(p) == {p} \X Positions
Column(p, col) == {<<p, <<row, col>>>> : row \in {FrontRow, BackRow}}

\* What can come of doing Step(f, x) for every x of seq in turn.
InTurn(Step(_, _), f, seq) ==
  LET after[i \in 0..Len(seq)] ==
        IF i = 0 THEN {f} ELSE UNION {Step(g, seq[i]) : g \in after[i - 1]}
  IN after[Len(seq)]

----------------------------------------------------------------------------
(* Targets: sets of places <<player, position>> with a unit.               *)

\* The enemy in the same column, front row first.
EnemyInFront(f, t) ==
  LET column == Standing(f, Column(Opponent(t[1]), t[2][2]))
  IN {s \in column : \A r \in column : s[2][1] <= r[2][1]}

OneOf(T) == IF T = {} THEN {{}} ELSE {{t} : t \in T}

\* resolveTargets for a unit at t; the possible results of the random modes.
Targets(f, mode, t) ==
  LET own == Side(t[1])
      enemies == Side(Opponent(t[1]))
      row == t[2][1]
      col == t[2][2]
      colour(s) == Definition[Unit(f, s).card].colour
      only(T) == {Standing(f, T)}
  IN CASE mode = "self" -> {{t}}
       [] mode = "adjacent" -> only({s \in own : s[2][1] = row /\ s[2][2] \in {col - 1, col + 1}})
       [] mode = "vertical" -> only({s \in own : s[2][1] # row /\ s[2][2] = col})
       [] mode = "all_allies" -> only(own)
       [] mode = "all_enemies" -> only(enemies)
       [] mode = "all_units" -> only(Places)
       [] mode = "opponent_column" -> only(Column(Opponent(t[1]), col))
       [] mode = "opponent_back_row" -> only({s \in enemies : s[2][1] = BackRow})
       [] mode = "enemy_front_row" -> only({s \in enemies : s[2][1] = FrontRow})
       [] mode = "enemy_in_front" -> {EnemyInFront(f, t)}
       [] mode = "same_colour" -> {{s \in Standing(f, Places) \ {t} : colour(s) = colour(t)}}
       [] mode = "random_enemy" -> OneOf(Standing(f, enemies))
       [] mode = "random_all" -> OneOf(Standing(f, Places))
       [] OTHER -> {{}}

----------------------------------------------------------------------------
(* What effects do.                                                        *)

Put(f, t, u) == [f EXCEPT !.board = [s \in Places |-> IF s = t THEN u ELSE f.board[s]]]

\* What happens to a unit that has already left the board concerns nobody.
Change(f, T, Become(_)) ==
  [f EXCEPT !.board = [t \in Places |-> IF t \in Standing(f, T) THEN Become(f.board[t])
                                        ELSE f.board[t]]]

ChangeStats(f, T, atk, hp) == Change(f, T, LAMBDA u : [u EXCEPT !.atk = @ + atk, !.hp = @ + hp])
SetHitPoints(f, T, hp) == Change(f, T, LAMBDA u : [u EXCEPT !.hp = hp])
Recharge(f, T) == Change(f, T, LAMBDA u : [u EXCEPT !.left = u.total])
Replace(f, T, c) == Change(f, T, LAMBDA u : NewUnit(c))
Remove(f, T) == Change(f, T, LAMBDA u : NoUnit)

StatsChange(f, a, t) ==
  IF a.condition /\ EnemyInFront(f, t) = {} THEN {f}
  ELSE LET n == IF a.perColour THEN DeckColours ELSE 1 IN
       {ChangeStats(f, T, a.atk * n, a.hp * n) : T \in Targets(f, a.target, t)}

HurtLeader(f, p, damage) == {[f EXCEPT !.health[p] = @ - damage]}

DealDamage(f, a, t) ==
  IF a.target = "enemy_leader" THEN HurtLeader(f, Opponent(t[1]), a.damage)
  ELSE {ChangeStats(f, T, 0, -a.damage) : T \in Targets(f, a.target, t)}

\* A destroyed unit leaves the board when the tick looks for the dead.
Destroy(f, a, t) ==
  {LET buff == a.buff * Cardinality(T)
   IN ChangeStats(SetHitPoints(f, T, 0), {t}, buff, buff) : T \in Targets(f, a.target, t)}

DestroyRandom(f, t) ==
  {SetHitPoints(f, T, 0) : T \in Targets(f, "random_enemy", t)}

Bounce(f, a, t) == {Remove(f, T) : T \in Targets(f, a.target, t)}

\* A random free position of the own board, as often as there is one.
SummonUnits(f, a, t) ==
  LET summon(g, i) ==
        LET free == {s \in Side(t[1]) : Unit(g, s) = NoUnit} IN
        IF free = {} THEN {g} ELSE {Put(g, s, NewUnit(a.card)) : s \in free}
  IN InTurn(summon, f, [i \in 1..a.count |-> i])

SetHP(f, a, t) == {SetHitPoints(f, T, a.hp) : T \in Targets(f, a.target, t)}

ResetAttack(f, a, t) == {Recharge(f, T) : T \in Targets(f, a.target, t)}

\* Half the charge time, or (invert) no charge at all.
DoubleAttackSpeed(f, a, t) ==
  LET half(n) == IF n < 2 THEN 1 ELSE n \div 2
      total(u) == IF a.invert THEN 0 ELSE half(u.total)
  IN {Change(f, {t}, LAMBDA u : [u EXCEPT !.total = total(u), !.left = total(u)])}

ElixirOverflow(f, a) == {[f EXCEPT !.cap = @ + a.amount]}
SelfDamage(f, a, t) == {ChangeStats(f, {t}, 0, -a.damage)}
Shield(f, a, t) == {Change(f, {t}, LAMBDA u : [u EXCEPT !.shield = a.reduction])}

\* The attacker, at by, gets the damage of its own attack.
Reflect(f, by) == {Change(f, {by}, LAMBDA u : [u EXCEPT !.hp = @ - u.atk])}

\* The unit itself or the enemy in front becomes another card, whose own summon
\* effects are to fire, for the owner of its board.
Transform(f, a, t) ==
  {[field |-> Replace(f, T, a.card), new |-> Standing(f, T)] :
     T \in Targets(f, a.target, t)}

\* The registry of the other effects; what only modifies targets does nothing here.
Effect(f, a, t, by) ==
  CASE a.effect = "stats_change" -> StatsChange(f, a, t)
    [] a.effect = "deal_damage" -> DealDamage(f, a, t)
    [] a.effect = "destroy" -> Destroy(f, a, t)
    [] a.effect = "destroy_random" -> DestroyRandom(f, t)
    [] a.effect = "bounce" -> Bounce(f, a, t)
    [] a.effect = "summon_units" -> SummonUnits(f, a, t)
    [] a.effect = "set_hp" -> SetHP(f, a, t)
    [] a.effect = "reset_attack" -> ResetAttack(f, a, t)
    [] a.effect = "double_attack_speed" -> DoubleAttackSpeed(f, a, t)
    [] a.effect = "elixir_overflow" -> ElixirOverflow(f, a)
    [] a.effect = "self_damage" -> SelfDamage(f, a, t)
    [] a.effect = "damage_leader" -> HurtLeader(f, t[1], a.damage)
    [] a.effect = "shield" -> Shield(f, a, t)
    [] a.effect = "reflect" -> Reflect(f, by)
    [] a.effect \in {"random_target", "skip_front_row"} -> {f}

\* One ability of the unit at t; with a chance it may also not happen.
Execute(Summoned(_, _, _), f, a, t, by) ==
  (IF a.chance > 1 THEN {f} ELSE {}) \cup
  IF a.effect # "transform" THEN Effect(f, a, t, by)
  ELSE UNION {IF r.new = {} THEN {r.field}
              ELSE UNION {Summoned(a.card, r.field, s) : s \in r.new} : r \in Transform(f, a, t)}

\* The abilities with this trigger of a card at t, one after another.
Fire(Summoned(_, _, _), trigger, c, f, t, by) ==
  LET fire(g, a) == IF a.trigger = trigger THEN Execute(Summoned, g, a, t, by) ELSE {g}
  IN InTurn(fire, f, Definition[c].abilities)

\* What a transformed unit summons may transform once more (a swordman makes a pig,
\* a pig may become a token); tokens have no summon effects.
NoSummons(c, f, t) == {f}
Summons(c, f, t) == Fire(NoSummons, "summon", c, f, t, t)

\* FireTrigger for a card at t; by is the attacker that hit it.
FireTrigger(trigger, c, f, t, by) == Fire(Summons, trigger, c, f, t, by)
=============================================================================
