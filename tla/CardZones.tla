------------------------------ MODULE CardZones ------------------------------
(***************************************************************************)
(* The card zones of the two players of a game: deck, draw pile, hand and  *)
(* board (services/gameplay/gameplay_state.go and the handlers of the card *)
(* actions).  Everything but the loading of the decks runs in the game     *)
(* loop, one handler at a time.                                            *)
(*                                                                         *)
(* A deck is a sequence, its front is drawn first.  The order of a draw    *)
(* pile does not matter: its cards are only looked up by their ID.         *)
(* Abstracted: elixir (a card whose price is too high is refused and       *)
(* changes nothing), what happens on the board besides the cards that      *)
(* stand on it, and which of the enemy's cards a bounce effect selects.    *)
(***************************************************************************)
EXTENDS Integers, Sequences, SequencesExt, FiniteSets

CONSTANTS
  Cards,           \* card IDs
  Bouncers,        \* the cards whose summon effect bounces enemy cards
  DebugUnit,       \* the card ID of DEBUG_PLACE_UNIT (-1)
  NoCard,          \* an empty board position
  Decks,           \* the decks the deck service answers with, shuffled
  Slots,           \* board positions, numbers in the order effects visit them
  MaxDrawPile, DrawPileTopUp, MaxHand,
  MaxReturned      \* bound: cards that effects return to a deck

ASSUME CardsAreCards == Bouncers \subseteq Cards /\ DebugUnit \in Cards /\ NoCard \notin Cards
ASSUME CardsAreFinite == IsFiniteSet(Cards)
ASSUME DecksAreSequences == Decks \subseteq Seq(Cards)
ASSUME SlotsAreNats == Slots \subseteq Nat /\ IsFiniteSet(Slots)
ASSUME SizesAreNats ==
  /\ MaxDrawPile \in Nat /\ DrawPileTopUp \in Nat /\ MaxHand \in Nat
  /\ MaxReturned \in Nat

VARIABLES
  phase,
  loads,           \* calls of loadPlayerDeck that have returned
  deck, drawPile, hand, selected,   \* PlayerHand; selected: SelectedThisTurn
  board,
  owned,           \* (history) the cards dealt or returned to a player
  returned         \* (history) cards returned by effects, up to MaxReturned

zones == <<deck, drawPile, hand, selected>>
vars == <<phase, loads, zones, board, owned, returned>>

Players == {1, 2}
Opponent(p) == 3 - p
Phases == {"WAITING_FOR_PLAYERS", "PRE_TURN", "ACTIVE", "GAME_OVER"}

Empty == [c \in Cards |-> 0]
BagOf(s) == [c \in Cards |-> Cardinality({i \in DOMAIN s : s[i] = c})]
InHand(p, c) == c \in ToSet(hand[p])
\* The number of cards in a bag.
Size(b) == Cardinality(UNION {{c} \X (1..b[c]) : c \in Cards})

TypeOK ==
  /\ phase \in Phases
  /\ loads \in 0..2
  /\ deck \in [Players -> Seq(Cards)]
  /\ drawPile \in [Players -> [Cards -> Nat]]
  /\ hand \in [Players -> Seq(Cards)]
  /\ selected \in [Players -> [Cards -> Nat]]
  /\ board \in [Players -> [Slots -> Cards \cup {NoCard}]]
  /\ owned \in [Players -> [Cards -> Nat]]
  /\ returned \in 0..MaxReturned

Init ==
  /\ phase = "WAITING_FOR_PLAYERS"
  /\ loads = 0
  /\ deck = [p \in Players |-> <<>>]
  /\ drawPile = [p \in Players |-> Empty]
  /\ hand = [p \in Players |-> <<>>]
  /\ selected = [p \in Players |-> Empty]
  /\ board = [p \in Players |-> [s \in Slots |-> NoCard]]
  /\ owned = [p \in Players |-> Empty]
  /\ returned = 0

----------------------------------------------------------------------------
(* Decks and draw piles.                                                   *)

\* loadPlayerDeck, for player 1 and then for player 2, while the session can
\* already be joined; it replaces the deck, whatever it holds, or fails.
LoadDeck ==
  /\ loads < 2
  /\ loads' = loads + 1
  /\ LET p == loads + 1 IN
     \/ \E d \in Decks :
          /\ deck' = [deck EXCEPT ![p] = d]
          /\ owned' = [owned EXCEPT ![p] =
                         [c \in Cards |-> @[c] - BagOf(deck[p])[c] + BagOf(d)[c]]]
     \/ UNCHANGED <<deck, owned>>
  /\ UNCHANGED <<phase, drawPile, hand, selected, board, returned>>

\* How many cards TopUpDrawPile moves.
TopUpSize(p) ==
  LET space == MaxDrawPile - Size(drawPile[p]) IN
  IF space <= 0 THEN 0
  ELSE CHOOSE n \in {DrawPileTopUp, space, Len(deck[p])} :
         \A m \in {DrawPileTopUp, space, Len(deck[p])} : n <= m

\* TopUpDrawPile for both players.
TopUpDrawPiles ==
  /\ drawPile' = [p \in Players |-> [c \in Cards |->
       drawPile[p][c] + BagOf(SubSeq(deck[p], 1, TopUpSize(p)))[c]]]
  /\ deck' = [p \in Players |-> SubSeq(deck[p], TopUpSize(p) + 1, Len(deck[p]))]

\* JOIN_GAME: every one that finds or makes the phase PRE_TURN tops up.
JoinGame ==
  /\ phase' = IF phase = "WAITING_FOR_PLAYERS" THEN "PRE_TURN" ELSE phase
  /\ IF phase' = "PRE_TURN" THEN TopUpDrawPiles ELSE UNCHANGED <<deck, drawPile>>
  /\ UNCHANGED <<loads, hand, selected, board, owned, returned>>

\* RECONNECT starts the game too, but nothing is topped up.
Reconnect ==
  /\ phase = "WAITING_FOR_PLAYERS"
  /\ phase' = "PRE_TURN"
  /\ UNCHANGED <<loads, zones, board, owned, returned>>

\* handlePreTurnEnd and StartRound: the selected cards are locked in.
StartRound ==
  /\ phase = "PRE_TURN"
  /\ phase' = "ACTIVE"
  /\ selected' = [p \in Players |-> Empty]
  /\ UNCHANGED <<loads, deck, drawPile, hand, board, owned, returned>>

\* handleRoundEnd and enterPreTurn.
EndRound ==
  /\ phase = "ACTIVE"
  /\ phase' = "PRE_TURN"
  /\ TopUpDrawPiles
  /\ UNCHANGED <<loads, hand, selected, board, owned, returned>>

\* A surrender, or a leader is dead.
EndGame ==
  /\ phase' = "GAME_OVER"
  /\ UNCHANGED <<loads, zones, board, owned, returned>>

----------------------------------------------------------------------------
(* Hands.                                                                  *)

Plus(b, c) == [b EXCEPT ![c] = @ + 1]
Minus(b, c) == [b EXCEPT ![c] = @ - 1]

SelectCard(p, c) ==
  /\ phase = "PRE_TURN"
  /\ Len(hand[p]) < MaxHand
  /\ drawPile[p][c] > 0
  /\ drawPile' = [drawPile EXCEPT ![p] = Minus(@, c)]
  /\ hand' = [hand EXCEPT ![p] = Append(@, c)]
  /\ selected' = [selected EXCEPT ![p] = Plus(@, c)]
  /\ UNCHANGED <<phase, loads, deck, board, owned, returned>>

\* Deviation: any card of the hand may be put back.
DeselectAnyCard(p, c) ==
  /\ phase = "PRE_TURN"
  /\ InHand(p, c)
  /\ drawPile' = [drawPile EXCEPT ![p] = Plus(@, c)]
  /\ hand' = [hand EXCEPT ![p] = RemoveFirst(@, c)]
  /\ selected' = [selected EXCEPT ![p][c] = IF @ > 0 THEN @ - 1 ELSE 0]
  /\ UNCHANGED <<phase, loads, deck, board, owned, returned>>

DeselectCard(p, c) ==
  /\ phase = "PRE_TURN"
  /\ selected[p][c] > 0
  /\ InHand(p, c)
  /\ drawPile' = [drawPile EXCEPT ![p] = Plus(@, c)]
  /\ hand' = [hand EXCEPT ![p] = RemoveFirst(@, c)]
  /\ selected' = [selected EXCEPT ![p] = Minus(@, c)]
  /\ UNCHANGED <<phase, loads, deck, board, owned, returned>>

\* Deviation: the card goes back to the deck and stays in the hand.
PlayFromHandCopies(p, c) ==
  /\ InHand(p, c)
  /\ UNCHANGED hand

\* PlayFromHand: the card leaves the hand; its way to the back of the deck is
\* in ReturnToDecks below.
PlayFromHand(p, c) ==
  /\ InHand(p, c)
  /\ hand' = [hand EXCEPT ![p] = RemoveFirst(@, c)]

\* A bounce visits the positions it empties in the order of the board.
Orders(from) ==
  {o \in [1..Cardinality(from) -> from] : \A i, j \in DOMAIN o : i < j => o[i] < o[j]}

\* The played card goes to the back of its deck.  A bounced card's owner is
\* passed as 0, which getPlayerHand takes for player 2.
ReturnToDecks(p, c, bounced) ==
  LET played == [deck EXCEPT ![p] = Append(@, c)] IN
  /\ deck' = [played EXCEPT ![2] = @ \o bounced]
  /\ owned' = [owned EXCEPT ![2] = [d \in Cards |-> @[d] + BagOf(bounced)[d]]]
  /\ returned + Len(bounced) <= MaxReturned
  /\ returned' = returned + Len(bounced)

\* HandleCardPlaced: the card has left the hand before its abilities are resolved,
\* which may fail, and before the position is looked at; only a placement has
\* summon effects.
CardPlaced(p, c, s) ==
  /\ phase = "ACTIVE"
  /\ PlayFromHand(p, c)
  /\ \E from \in SUBSET {t \in Slots : board[Opponent(p)][t] # NoCard} :
       /\ \E o \in Orders(from) :
            ReturnToDecks(p, c, [i \in DOMAIN o |-> board[Opponent(p)][o[i]]])
       /\ \/ from = {} /\ UNCHANGED board
          \/ /\ board[p][s] = NoCard
             /\ from = {} \/ c \in Bouncers
             /\ board' = [board EXCEPT ![p][s] = c,
                  ![Opponent(p)] = [t \in Slots |-> IF t \in from THEN NoCard ELSE @[t]]]
  /\ UNCHANGED <<phase, loads, drawPile, selected>>

DebugPlaceUnit(p, s) ==
  /\ phase = "ACTIVE"
  /\ board[p][s] = NoCard
  /\ board' = [board EXCEPT ![p][s] = DebugUnit]
  /\ UNCHANGED <<phase, loads, zones, owned, returned>>

\* TickBoard, seen from the zones: a card dies, is transformed, or summons.
TickBoard(p, s) ==
  /\ phase = "ACTIVE"
  /\ \E c \in Cards \cup {NoCard} : board' = [board EXCEPT ![p][s] = c]
  /\ UNCHANGED <<phase, loads, zones, owned, returned>>

Card(p, c) == SelectCard(p, c) \/ DeselectCard(p, c) \/ \E s \in Slots : CardPlaced(p, c, s)
Board(p, s) == DebugPlaceUnit(p, s) \/ TickBoard(p, s)

Next ==
  \/ LoadDeck \/ JoinGame \/ Reconnect \/ StartRound \/ EndRound \/ EndGame
  \/ \E p \in Players, c \in Cards : Card(p, c)
  \/ \E p \in Players, s \in Slots : Board(p, s)

Spec == Init /\ [][Next]_vars
----------------------------------------------------------------------------
(* Properties.                                                             *)

\* Every card dealt or returned to a player is in exactly one of its zones:
\* a card on the board is a copy, and no sequence of joins, selections,
\* placements that fail and bounces loses or multiplies a card.
CardsConserved ==
  \A p \in Players, c \in Cards :
    BagOf(deck[p])[c] + drawPile[p][c] + BagOf(hand[p])[c] = owned[p][c]

\* What is selected this turn is still in the hand, and nothing is selected
\* while the round is played.
SelectedInHand ==
  /\ \A p \in Players, c \in Cards : selected[p][c] <= BagOf(hand[p])[c]
  /\ phase = "ACTIVE" => \A p \in Players : selected[p] = Empty

\* The limits that do hold: of the hand, and of the draw pile together with
\* the cards that a deselection could put back on it.
PilesBounded ==
  \A p \in Players :
    /\ Len(hand[p]) <= MaxHand
    /\ Size(drawPile[p]) + Size(selected[p]) <= MaxDrawPile + MaxHand

ZonesInv == TypeOK /\ CardsConserved /\ SelectedInHand /\ PilesBounded

\* Within a pre-turn, the cards of the hand that were not selected in it stay:
\* selecting and deselecting, also of another copy, never releases them.
LockedCardsStay ==
  [][phase = "PRE_TURN" /\ phase' = "PRE_TURN" =>
       \A p \in Players, c \in Cards :
         BagOf(hand'[p])[c] - selected'[p][c] = BagOf(hand[p])[c] - selected[p][c]]_vars
=============================================================================
