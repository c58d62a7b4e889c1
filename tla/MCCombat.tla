------------------------------ MODULE MCCombat ------------------------------
(* Small cards that have every effect of the real ones; some have two. *)
EXTENDS Combat

Ability(trigger, effect) ==
  [trigger |-> trigger, effect |-> effect, target |-> "self", atk |-> 0, hp |-> 0,
   condition |-> FALSE, perColour |-> FALSE, damage |-> 1, buff |-> 0, card |-> "Wolf",
   count |-> 2, invert |-> FALSE, amount |-> 1, reduction |-> 1, chance |-> 0, pool |-> "enemy"]

Card(cost, atk, hp, abilities) ==
  [cost |-> cost, atk |-> atk, hp |-> hp, colour |-> "grey", abilities |-> abilities]

MCDefinition ==
  [Wolf |-> Card(0, 2, 1, <<>>),
   Pig |-> Card(1, 1, 1, <<[Ability("summon", "transform") EXCEPT !.chance = 2048]>>),
   Witch |-> Card(1, 1, 2, <<Ability("on_death", "destroy_random"),
                             Ability("on_damaged", "shield")>>),
   Traitor |-> Card(1, 2, 2, <<Ability("on_death", "damage_leader"),
                               [Ability("on_damaged", "stats_change") EXCEPT !.atk = 1]>>),
   Whale |-> Card(1, 1, 3, <<Ability("on_damaged", "reflect"),
                             Ability("summon", "elixir_overflow")>>),
   Kraken |-> Card(1, 2, 1, <<[Ability("on_attack", "random_target") EXCEPT !.pool = "all"],
                              [Ability("summon", "deal_damage") EXCEPT !.target = "enemy_leader"]>>),
   Knight |-> Card(1, 1, 1, <<Ability("on_attack", "skip_front_row"),
                              [Ability("summon", "stats_change")
                               EXCEPT !.target = "opponent_column", !.atk = -2]>>),
   Bones |-> Card(2, 1, 2, <<Ability("on_attack", "self_damage"),
                             [Ability("summon", "deal_damage") EXCEPT !.target = "all_units"]>>),
   Sith |-> Card(1, 1, 2, <<[Ability("summon", "reset_attack") EXCEPT !.target = "enemy_in_front"],
                            [Ability("on_attack", "reset_attack") EXCEPT !.target = "enemy_in_front"]>>),
   Ninja |-> Card(1, 1, 1, <<Ability("summon", "double_attack_speed"),
                             [Ability("summon", "stats_change")
                              EXCEPT !.condition = TRUE, !.atk = 1, !.hp = 1]>>),
   Chick |-> Card(1, 0, 2, <<[Ability("summon", "double_attack_speed")
                              EXCEPT !.chance = 2048, !.invert = TRUE],
                             [Ability("summon", "set_hp") EXCEPT !.target = "all_units", !.hp = 1]>>),
   Swordman |-> Card(1, 1, 1, <<[Ability("summon", "transform")
                                 EXCEPT !.target = "enemy_in_front", !.card = "Pig"]>>),
   Alpha |-> Card(1, 1, 1, <<Ability("summon", "summon_units")>>),
   Hero |-> Card(2, 1, 1, <<[Ability("summon", "destroy")
                             EXCEPT !.target = "same_colour", !.buff = 1]>>),
   Puffer |-> Card(1, 1, 1, <<[Ability("summon", "bounce") EXCEPT !.target = "enemy_in_front"]>>)]

MCCards == DOMAIN MCDefinition
MCPlayedCards == MCCards \ {"Wolf"}
=============================================================================
