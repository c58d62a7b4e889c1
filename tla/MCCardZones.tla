----------------------------- MODULE MCCardZones -----------------------------
(* A deck of two copies of each of two cards. *)
EXTENDS CardZones

CONSTANTS a, b, d

MCDecks == {<<a, b, a, b>>}
MCSlots == {0}
=============================================================================
