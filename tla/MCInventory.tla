----------------------------- MODULE MCInventory -----------------------------
(* Prices that a few copies and crystals can pay.                           *)
EXTENDS Inventory, TLC

CONSTANTS a, h1, h2

MCPrice == [l \in Levels |-> l]
MCValue == [c \in Cards |-> 1]
MCPackContents == {[c \in Cards |-> 1]}
MCStarter == [c \in Cards |-> 1]
Symmetry == Permutations(Handlers)
=============================================================================
