------------------------------ MODULE Inventory ------------------------------
(***************************************************************************)
(* The deck service (services/deck): the crystals, cards, packs and decks  *)
(* of one player, changed by requests that run at the same time and name   *)
(* what is the player's own.                                               *)
(*                                                                         *)
(* One step is one SQL statement.  There are no transactions: between two  *)
(* statements of a handler others may run; a statement may fail, or take   *)
(* effect and be reported as failed; or the client may go away, which      *)
(* cancels the request's context and with it every statement that is left, *)
(* compensations included.  Where a handler just returns on an error, the  *)
(* second is what the last is: no disjunct of its own.                     *)
(*                                                                         *)
(* Abstracted: names and positions (a deck is a bag of cards: a prune      *)
(* removes copies of one card) and how the cards of a pack are drawn.  A   *)
(* card without a row is at level 1 with no copies: every check treats     *)
(* both alike.  Ids never run out: as a bound, a request that draws one    *)
(* starts only while there is one left for it.                             *)
(*                                                                         *)
(* The player is new: the auth service has just asked for the starter      *)
(* content, without waiting for the answer.                                *)
(***************************************************************************)
EXTENDS Integers, FiniteSets

CONSTANTS
  Cards, Legendary, Decks, Packs,   \* ids; Decks and Packs may still be drawn
  Handlers,                         \* requests that may run at once
  MaxLevel,                         \* cards.max_level
  CardsCost, CrystalsCost,          \* LevelUpCost, by level
  Value,                            \* DisenchantValue, by card
  PackCrystals,                     \* crystalsPerPack
  PackContents,                     \* what generatePackCards may return: bags
  MaxUnopenedPacks, MaxDeckSize, MaxCopies, MaxLegendary,
  StartCrystals,                    \* users.crystals of a new user
  StarterCards, StarterDeck, StarterDecks,   \* copies given, bag of a deck, how many decks
  NoDeck,
  MaxFaults                         \* bound: failing statements and lost clients

Bags == [Cards -> Nat]
Levels == 1..MaxLevel
\* The sum of b[x] over the x of a finite set S: how many cards or crystals it is.
Total(b, S) == Cardinality(UNION {{x} \X (1..b[x]) : x \in S})

ASSUME LimitsAreNats ==
  /\ {MaxUnopenedPacks, MaxDeckSize, MaxCopies, MaxLegendary, MaxFaults} \subseteq Nat
  /\ StarterDecks \in Nat
  /\ MaxLevel \in Nat \ {0}
ASSUME SetsAreFinite ==
  /\ IsFiniteSet(Cards) /\ IsFiniteSet(Packs) /\ IsFiniteSet(Handlers)
  /\ Cards # {} /\ Decks # {} /\ Packs # {} /\ Handlers # {}
ASSUME PricesAreNats ==
  /\ CardsCost \in [Levels -> Nat]
  /\ CrystalsCost \in [Levels -> Nat]
  /\ Value \in Bags
  /\ PackCrystals \in Nat
ASSUME StockIsNat ==
  /\ StartCrystals \in Nat
  /\ StarterCards \in Bags /\ StarterDeck \in Bags
  /\ NoDeck \notin Decks
  /\ PackContents \subseteq Bags
  /\ Legendary \subseteq Cards
ASSUME StarterCanBeSaved ==
  /\ StarterDecks > 0
  /\ \A c \in Cards : StarterDeck[c] <= MaxCopies /\ StarterDeck[c] <= StarterCards[c]
  /\ Total(StarterDeck, Cards) <= MaxDeckSize
  /\ Total(StarterDeck, Legendary) <= MaxLegendary

VARIABLES
  crystals,          \* users.crystals
  level, quantity,   \* player_cards
  packs,             \* card_packs: "none" until a row has the id
  decks,             \* the ids with a row in decks
  used,              \* the ids that were ever drawn (AUTO_INCREMENT)
  deckCards,         \* deck_cards
  active,            \* users.active_deck_id
  request,           \* what each handler is doing and has read
  faults,
  \* history: crystals earned, how often a pack was awarded, whether requests
  \* overlapped, and whether a statement took effect that was reported as failed
  income, awarded, overlapped, answerLost

cards == <<level, quantity>>
deckRows == <<decks, used, deckCards, active>>
history == <<income, awarded, overlapped, answerLost>>
earnings == <<income, awarded, answerLost>>
vars == <<crystals, cards, packs, deckRows, request, faults, history>>

Empty == [c \in Cards |-> 0]
Size(b) == Total(b, Cards)
One(c) == [Empty EXCEPT ![c] = 1]
NoExcess == [d \in Decks |-> 0]

\* Where a handler stands and what it has read; unused fields are left alone.
Steps == {"idle", "levelUpCrystals", "levelUpDeduct", "levelUpRow", "refund", "disenchantRow",
          "award", "rollback", "pruneRead", "prune", "buyPack", "openPack", "openCards",
          "saveVerify", "saveDelete", "saveInsert", "createDeck", "createInsert",
          "starterCards", "starterDeck", "setActive"}
Requests ==
  [at : Steps, card : Cards, level : Levels, quantity : Int, n : Nat, pack : Packs,
   deck : Decks, checked : Decks, first : Decks \cup {NoDeck}, todo : Bags,
   excess : [Decks -> Nat]]
NoRequest ==
  [at |-> "idle", card |-> CHOOSE c \in Cards : TRUE, level |-> 1, quantity |-> 0, n |-> 0,
   pack |-> CHOOSE p \in Packs : TRUE, deck |-> CHOOSE d \in Decks : TRUE,
   checked |-> CHOOSE d \in Decks : TRUE, first |-> NoDeck, todo |-> Empty,
   excess |-> NoExcess]
StarterRequest ==
  [NoRequest EXCEPT !.at = "starterCards", !.todo = StarterCards, !.n = StarterDecks]

Init ==
  /\ crystals = StartCrystals
  /\ level = [c \in Cards |-> 1]
  /\ quantity = Empty
  /\ packs = [p \in Packs |-> "none"]
  /\ decks = {}
  /\ used = {}
  /\ deckCards = [d \in Decks |-> Empty]
  /\ active = NoDeck
  /\ \E h \in Handlers :
       request = [k \in Handlers |-> IF k = h THEN StarterRequest ELSE NoRequest]
  /\ faults = 0
  /\ income = StartCrystals
  /\ awarded = [p \in Packs |-> 0]
  /\ overlapped = FALSE
  /\ answerLost = FALSE

At(h, step) == request[h].at = step
Goto(h, step) == request' = [request EXCEPT ![h].at = step]
Return(h) == request' = [request EXCEPT ![h] = NoRequest]
Busy == \E h \in Handlers : ~At(h, "idle")
Start(h, r) ==
  /\ At(h, "idle")
  /\ request' = [request EXCEPT ![h] = r]
  /\ overlapped' = (overlapped \/ Busy)

Works == UNCHANGED faults
Fails == faults < MaxFaults /\ faults' = faults + 1

----------------------------------------------------------------------------
(* POST /cards/{id}/level-up                                               *)

\* handleLevelUpCard reads the card and refuses at the highest level or with
\* too few copies ...
LevelUpRead(h, c) ==
  /\ level[c] < MaxLevel
  /\ quantity[c] >= CardsCost[level[c]]
  /\ Start(h, [NoRequest EXCEPT !.at = "levelUpCrystals", !.card = c, !.level = level[c],
                                !.quantity = quantity[c]])
  /\ UNCHANGED <<crystals, cards, packs, deckRows, faults, earnings>>

Price(r) == CrystalsCost[r.level]
Copies(r) == CardsCost[r.level]

\* ... then the balance ...
LevelUpCrystals(h) ==
  /\ At(h, "levelUpCrystals")
  /\ \/ crystals >= Price(request[h]) /\ Works /\ Goto(h, "levelUpDeduct")
     \/ crystals < Price(request[h]) /\ Works /\ Return(h)
     \/ Fails /\ Return(h)
  /\ UNCHANGED <<crystals, cards, packs, deckRows, history>>

\* Deviation: DeductPlayerCrystals trusts the balance that was read.
LevelUpDeductUnchecked(h) ==
  /\ At(h, "levelUpDeduct")
  /\ Works
  /\ crystals' = crystals - Price(request[h])
  /\ Goto(h, "levelUpRow")
  /\ UNCHANGED <<cards, packs, deckRows, history>>

\* ... and deducts the price if it is still there.
LevelUpDeduct(h) ==
  /\ At(h, "levelUpDeduct")
  /\ \/ /\ crystals >= Price(request[h]) /\ Works
        /\ crystals' = crystals - Price(request[h])
        /\ Goto(h, "levelUpRow")
     \/ crystals < Price(request[h]) /\ Works /\ Return(h) /\ UNCHANGED crystals
     \/ Fails /\ Return(h) /\ UNCHANGED crystals
  /\ UNCHANGED <<cards, packs, deckRows, history>>

\* Deviation: LevelUpPlayerCard without AND level = ?
LevelIsUnchecked(r) == quantity[r.card] >= Copies(r)

\* The WHERE of LevelUpPlayerCard.
LevelIsAsRead(r) == level[r.card] = r.level /\ quantity[r.card] >= Copies(r)

LevelUpRow(h) ==
  LET r == request[h] IN
  /\ At(h, "levelUpRow")
  /\ \/ /\ LevelIsAsRead(r) /\ Works
        /\ level' = [level EXCEPT ![r.card] = @ + 1]
        /\ quantity' = [quantity EXCEPT ![r.card] = @ - Copies(r)]
        /\ request' = [request EXCEPT ![h].at = "pruneRead", ![h].quantity = @ - Copies(r)]
        /\ UNCHANGED answerLost
     \/ ~LevelIsAsRead(r) /\ Works /\ Goto(h, "refund") /\ UNCHANGED <<cards, answerLost>>
     \/ Fails /\ Goto(h, "refund") /\ UNCHANGED <<cards, answerLost>>
     \/ /\ LevelIsAsRead(r) /\ Fails
        /\ level' = [level EXCEPT ![r.card] = @ + 1]
        /\ quantity' = [quantity EXCEPT ![r.card] = @ - Copies(r)]
        /\ Goto(h, "refund")
        /\ answerLost' = TRUE
  /\ UNCHANGED <<crystals, packs, deckRows, income, awarded, overlapped>>

\* The error of the refund is ignored.
Refund(h) ==
  /\ At(h, "refund")
  /\ \/ Works /\ crystals' = crystals + Price(request[h])
     \/ Fails /\ UNCHANGED crystals
  /\ Return(h)
  /\ UNCHANGED <<cards, packs, deckRows, history>>

----------------------------------------------------------------------------
(* POST /cards/{id}/disenchant                                             *)

DisenchantRead(h, c, n) ==
  /\ level[c] >= MaxLevel
  /\ quantity[c] - n >= 1
  /\ Start(h, [NoRequest EXCEPT !.at = "disenchantRow", !.card = c, !.n = n,
                                !.quantity = quantity[c]])
  /\ UNCHANGED <<crystals, cards, packs, deckRows, faults, earnings>>

\* Deviation: min_quantity is the number of copies to remove.
EnoughToRemove(r) == level[r.card] = MaxLevel /\ quantity[r.card] >= r.n

\* The WHERE of DisenchantPlayerCard: one copy stays.
EnoughCopies(r) == level[r.card] = MaxLevel /\ quantity[r.card] >= r.n + 1

Worth(r) == r.n * Value[r.card]

DisenchantRow(h) ==
  LET r == request[h] IN
  /\ At(h, "disenchantRow")
  /\ \/ /\ EnoughCopies(r) /\ Works
        /\ quantity' = [quantity EXCEPT ![r.card] = @ - r.n]
        /\ income' = income + Worth(r)
        /\ Goto(h, "award")
     \/ ~EnoughCopies(r) /\ Works /\ Return(h) /\ UNCHANGED <<quantity, income>>
     \/ Fails /\ Return(h) /\ UNCHANGED <<quantity, income>>
  /\ UNCHANGED <<crystals, level, packs, deckRows, awarded, overlapped, answerLost>>

Award(h) ==
  LET r == request[h] IN
  /\ At(h, "award")
  /\ \/ /\ Works
        /\ crystals' = crystals + Worth(r)
        /\ request' = [request EXCEPT ![h].at = "pruneRead", ![h].quantity = @ - r.n]
        /\ UNCHANGED answerLost
     \/ Fails /\ Goto(h, "rollback") /\ UNCHANGED <<crystals, answerLost>>
     \/ /\ Fails
        /\ crystals' = crystals + Worth(r)
        /\ Goto(h, "rollback")
        /\ answerLost' = TRUE
  /\ UNCHANGED <<cards, packs, deckRows, income, awarded, overlapped>>

\* The copies are given back with a negative number; an error is ignored.
Rollback(h) ==
  LET r == request[h] IN
  /\ At(h, "rollback")
  /\ \/ /\ Works
        /\ quantity' = [quantity EXCEPT ![r.card] = @ + r.n]
        /\ income' = income - Worth(r)
     \/ Fails /\ UNCHANGED <<quantity, income>>
  /\ Return(h)
  /\ UNCHANGED <<crystals, level, packs, deckRows, awarded, overlapped, answerLost>>

----------------------------------------------------------------------------
(* pruneDecksForPlayerCard, at the end of both.                            *)

Surplus(used_, left) == IF used_ > left THEN used_ - left ELSE 0

\* Deviation: only copies beyond the limit of a deck are pruned.
ExcessOverLimit(r) == [d \in Decks |-> Surplus(deckCards[d][r.card], MaxCopies)]

\* By how much each deck exceeds the copies the handler believes are left.
Excess(r) == [d \in Decks |-> Surplus(deckCards[d][r.card], r.quantity)]

PruneRead(h) ==
  LET excess == Excess(request[h]) IN
  /\ At(h, "pruneRead")
  /\ \/ /\ excess # NoExcess /\ Works
        /\ request' = [request EXCEPT ![h].at = "prune", ![h].excess = excess]
     \/ excess = NoExcess /\ Works /\ Return(h)
     \/ Fails /\ Return(h)
  /\ UNCHANGED <<crystals, cards, packs, deckRows, history>>

\* PruneDeckCardsForCard deletes so many copies, if there are as many.
Prune(h, d) ==
  LET r == request[h]
      rest == [r.excess EXCEPT ![d] = 0]
  IN
  /\ At(h, "prune")
  /\ r.excess[d] > 0
  /\ \/ /\ Works
        /\ deckCards' = [deckCards EXCEPT ![d][r.card] = Surplus(@, r.excess[d])]
     \/ Fails /\ UNCHANGED deckCards
  /\ IF rest = NoExcess THEN Return(h) ELSE request' = [request EXCEPT ![h].excess = rest]
  /\ UNCHANGED <<crystals, cards, packs, decks, used, active, history>>

----------------------------------------------------------------------------
(* Packs.                                                                  *)

Unopened == {p \in Packs : packs[p] = "unopened"}

\* Bound: the purchase will find an id.
PacksToCome == Cardinality({h \in Handlers : At(h, "buyPack")})

\* handleBuyPack counts the unopened packs ...
BuyCount(h) ==
  /\ Cardinality(Unopened) < MaxUnopenedPacks
  /\ PacksToCome < Cardinality({p \in Packs : packs[p] = "none"})
  /\ Start(h, [NoRequest EXCEPT !.at = "buyPack"])
  /\ UNCHANGED <<crystals, cards, packs, deckRows, faults, earnings>>

\* ... and creates one (GivePackToPlayer).
BuyPack(h, p) ==
  /\ At(h, "buyPack")
  /\ packs[p] = "none"
  /\ \/ Works /\ packs' = [packs EXCEPT ![p] = "unopened"]
     \/ Fails /\ UNCHANGED packs
  /\ Return(h)
  /\ UNCHANGED <<crystals, cards, deckRows, history>>

\* handleOpenPack reads the pack and draws its cards ...
OpenRead(h, p, content) ==
  /\ packs[p] = "unopened"
  /\ Start(h, [NoRequest EXCEPT !.at = "openPack", !.pack = p, !.todo = content])
  /\ UNCHANGED <<crystals, cards, packs, deckRows, faults, earnings>>

\* ... marks it, whatever it is by now ...
OpenPack(h) ==
  /\ At(h, "openPack")
  /\ \/ Works /\ packs' = [packs EXCEPT ![request[h].pack] = "opened"] /\ Goto(h, "openCards")
     \/ Fails /\ Return(h) /\ UNCHANGED packs
  /\ UNCHANGED <<crystals, cards, deckRows, history>>

\* ... gives the cards one by one, ignoring errors ...
OpenCard(h, c) ==
  /\ At(h, "openCards")
  /\ request[h].todo[c] > 0
  /\ \/ Works /\ quantity' = [quantity EXCEPT ![c] = @ + 1]
     \/ Fails /\ UNCHANGED quantity
  /\ request' = [request EXCEPT ![h].todo[c] = @ - 1]
  /\ UNCHANGED <<crystals, level, packs, deckRows, history>>

\* ... and the crystals.
OpenAward(h) ==
  /\ At(h, "openCards")
  /\ request[h].todo = Empty
  /\ \/ /\ Works
        /\ crystals' = crystals + PackCrystals
        /\ income' = income + PackCrystals
        /\ awarded' = [awarded EXCEPT ![request[h].pack] = @ + 1]
     \/ Fails /\ UNCHANGED <<crystals, income, awarded>>
  /\ Return(h)
  /\ UNCHANGED <<cards, packs, deckRows, overlapped, answerLost>>

----------------------------------------------------------------------------
(* Decks.                                                                  *)

\* validateDeckCards
ValidDeck(b) ==
  /\ Size(b) <= MaxDeckSize
  /\ \A c \in Cards : b[c] <= MaxCopies /\ b[c] <= quantity[c]
  /\ Total(b, Legendary) <= MaxLegendary

\* handleUpdateDeck, and one round of the loop of handleUpdateAllDecks, which
\* also takes an empty list.  The former looks up the id in the body and writes
\* the deck with the id in the path.
SaveRead(h, d, body, b) ==
  /\ b # Empty \/ d = body
  /\ Start(h, [NoRequest EXCEPT !.at = "saveVerify", !.deck = d, !.checked = body, !.todo = b])
  /\ ValidDeck(b)
  /\ UNCHANGED <<crystals, cards, packs, deckRows, faults, earnings>>

\* The deck looked up must exist; then the name is written.
SaveVerify(h) ==
  /\ At(h, "saveVerify")
  /\ \/ /\ request[h].checked \in decks /\ Works
        /\ request' = [request EXCEPT ![h].at = "saveDelete", ![h].checked = request[h].deck]
     \/ request[h].checked \notin decks /\ Works /\ Return(h)
     \/ Fails /\ Return(h)
  /\ UNCHANGED <<crystals, cards, packs, deckRows, history>>

\* DeleteDeckCards; its error is ignored.
SaveDelete(h) ==
  LET r == request[h] IN
  /\ At(h, "saveDelete")
  /\ \/ Works /\ deckCards' = [deckCards EXCEPT ![r.deck] = Empty]
     \/ Fails /\ UNCHANGED deckCards
  /\ IF r.todo = Empty THEN Return(h) ELSE Goto(h, "saveInsert")
  /\ UNCHANGED <<crystals, cards, packs, decks, used, active, history>>

\* InsertDeckCard needs the row of the deck.
Insert(d, c) == d \in decks /\ deckCards' = [deckCards EXCEPT ![d][c] = @ + 1]

Inserted(h, c) ==
  IF request[h].todo = One(c) THEN Return(h)
  ELSE request' = [request EXCEPT ![h].todo[c] = @ - 1]

\* An update ignores the errors of its insertions ...
SaveInsert(h, c) ==
  LET r == request[h] IN
  /\ At(h, "saveInsert")
  /\ r.todo[c] > 0
  /\ \/ Works /\ Insert(r.deck, c)
     \/ r.deck \notin decks /\ Works /\ UNCHANGED deckCards
     \/ Fails /\ UNCHANGED deckCards
  /\ Inserted(h, c)
  /\ UNCHANGED <<crystals, cards, packs, decks, used, active, history>>

\* ... a creation stops at the first (handleCreateDeck).
\* Bound: the deck and the starter decks that are still to come will find ids.
DecksOf(r) ==
  CASE r.at = "createDeck" -> 1
    [] r.at \in {"starterCards", "starterDeck"} -> r.n
    [] OTHER -> 0
DecksToCome == Total([h \in Handlers |-> DecksOf(request[h])], Handlers)

CreateRead(h, b) ==
  /\ b # Empty
  /\ Start(h, [NoRequest EXCEPT !.at = "createDeck", !.todo = b])
  /\ ValidDeck(b)
  /\ DecksToCome < Cardinality(Decks \ used)
  /\ UNCHANGED <<crystals, cards, packs, deckRows, faults, earnings>>

CreateDeck(h, d) ==
  /\ At(h, "createDeck")
  /\ d \notin used
  /\ \/ /\ Works
        /\ decks' = decks \cup {d}
        /\ used' = used \cup {d}
        /\ request' = [request EXCEPT ![h].at = "createInsert", ![h].deck = d]
     \/ Fails /\ Return(h) /\ UNCHANGED <<decks, used>>
  /\ UNCHANGED <<crystals, cards, packs, deckCards, active, history>>

CreateInsert(h, c) ==
  LET r == request[h] IN
  /\ At(h, "createInsert")
  /\ r.todo[c] > 0
  /\ \/ Works /\ Insert(r.deck, c) /\ Inserted(h, c)
     \/ r.deck \notin decks /\ Works /\ Return(h) /\ UNCHANGED deckCards
     \/ Fails /\ Return(h) /\ UNCHANGED deckCards
  /\ UNCHANGED <<crystals, cards, packs, decks, used, active, history>>

\* handleDeleteDeck: one statement, its cards go with it (ON DELETE CASCADE), and
\* it is no longer the active one (ON DELETE SET NULL).
DeleteDeck(d) ==
  /\ d \in decks
  /\ decks' = decks \ {d}
  /\ deckCards' = [deckCards EXCEPT ![d] = Empty]
  /\ active' = IF active = d THEN NoDeck ELSE active
  /\ overlapped' = (overlapped \/ Busy)
  /\ UNCHANGED <<crystals, cards, packs, used, request, faults, earnings>>

\* handleSetActiveDeck looks the deck up ...
SetActiveRead(h, d) ==
  /\ d \in decks
  /\ Start(h, [NoRequest EXCEPT !.at = "setActive", !.deck = d])
  /\ UNCHANGED <<crystals, cards, packs, deckRows, faults, earnings>>

\* ... and refers to it, which needs its row (fk_active_deck).
Refer(d) == d \in decks /\ active' = d

SetActive(h) ==
  /\ At(h, "setActive")
  /\ \/ Works /\ Refer(request[h].deck)
     \/ request[h].deck \notin decks /\ Works /\ UNCHANGED active
     \/ Fails /\ UNCHANGED active
  /\ Return(h)
  /\ UNCHANGED <<crystals, cards, packs, decks, used, deckCards, history>>

----------------------------------------------------------------------------
(* POST /internal/starter-content.  No error stops it.                     *)

Starting(h) == At(h, "starterCards") \/ At(h, "starterDeck")

StarterCard(h, c) ==
  /\ At(h, "starterCards")
  /\ request[h].todo[c] > 0
  /\ \/ Works /\ quantity' = [quantity EXCEPT ![c] = @ + 1]
     \/ Fails /\ UNCHANGED quantity
  /\ request' = [request EXCEPT ![h].todo[c] = @ - 1]
  /\ UNCHANGED <<crystals, level, packs, deckRows, history>>

\* Deviation: the rounds are taken to be counted from 0.
FirstDeckFromZero(r, d) == IF r.n = StarterDecks - 1 THEN d ELSE r.first

\* firstDeckID is that of the first round, or none if that round fails.
FirstDeck(r, d) == IF r.n = StarterDecks THEN d ELSE r.first

StarterCreate(h, d) ==
  LET r == request[h] IN
  /\ Starting(h)
  /\ r.todo = Empty /\ r.n > 0
  /\ d \notin used
  /\ \/ /\ Works
        /\ decks' = decks \cup {d}
        /\ used' = used \cup {d}
        /\ request' = [request EXCEPT ![h] =
             [r EXCEPT !.at = "starterDeck", !.deck = d, !.n = r.n - 1, !.todo = StarterDeck,
                       !.first = FirstDeck(r, d)]]
        /\ UNCHANGED answerLost
     \/ /\ Fails
        /\ request' = [request EXCEPT ![h].n = r.n - 1]
        /\ \/ UNCHANGED <<decks, used, answerLost>>
           \/ /\ decks' = decks \cup {d}
              /\ used' = used \cup {d}
              /\ answerLost' = TRUE
  /\ UNCHANGED <<crystals, cards, packs, deckCards, active, income, awarded, overlapped>>

StarterInsert(h, c) ==
  LET r == request[h] IN
  /\ At(h, "starterDeck")
  /\ r.todo[c] > 0
  /\ \/ Works /\ Insert(r.deck, c)
     \/ r.deck \notin decks /\ Works /\ UNCHANGED deckCards
     \/ Fails /\ UNCHANGED deckCards
  /\ request' = [request EXCEPT ![h].todo[c] = @ - 1]
  /\ UNCHANGED <<crystals, cards, packs, decks, used, active, history>>

StarterActive(h) ==
  LET r == request[h] IN
  /\ Starting(h)
  /\ r.todo = Empty /\ r.n = 0
  /\ \/ r.first # NoDeck /\ Works /\ Refer(r.first)
     \/ r.first \notin decks /\ Works /\ UNCHANGED active
     \/ r.first # NoDeck /\ Fails /\ UNCHANGED active
  /\ Return(h)
  /\ UNCHANGED <<crystals, cards, packs, decks, used, deckCards, history>>

----------------------------------------------------------------------------
\* The client goes away: no statement of the request succeeds any more.
Disconnect(h) ==
  /\ ~At(h, "idle")
  /\ Fails
  /\ Return(h)
  /\ UNCHANGED <<crystals, cards, packs, deckRows, history>>

CardStep(h) ==
  \/ \E c \in Cards : LevelUpRead(h, c)
  \/ LevelUpCrystals(h) \/ LevelUpDeduct(h) \/ LevelUpRow(h) \/ Refund(h)
  \/ \E c \in Cards : \E n \in 1..quantity[c] : DisenchantRead(h, c, n)
  \/ DisenchantRow(h) \/ Award(h) \/ Rollback(h)
  \/ PruneRead(h) \/ \E d \in Decks : Prune(h, d)

PackStep(h) ==
  \/ BuyCount(h) \/ \E p \in Packs : BuyPack(h, p)
  \/ \E p \in Packs, content \in PackContents : OpenRead(h, p, content)
  \/ OpenPack(h) \/ \E c \in Cards : OpenCard(h, c)
  \/ OpenAward(h)

\* The lists of cards a client may ask for, as far as they can be valid.
Lists == [Cards -> 0..MaxCopies]

DeckStep(h) ==
  \/ \E d, body \in Decks, b \in Lists : SaveRead(h, d, body, b)
  \/ SaveVerify(h) \/ SaveDelete(h) \/ \E c \in Cards : SaveInsert(h, c)
  \/ \E b \in Lists : CreateRead(h, b)
  \/ \E d \in Decks : CreateDeck(h, d)
  \/ \E c \in Cards : CreateInsert(h, c)
  \/ \E d \in Decks : SetActiveRead(h, d)
  \/ SetActive(h)

StarterStep(h) ==
  \/ \E c \in Cards : StarterCard(h, c) \/ StarterInsert(h, c)
  \/ \E d \in Decks : StarterCreate(h, d)
  \/ StarterActive(h)

Next ==
  \/ \E h \in Handlers : CardStep(h) \/ PackStep(h) \/ DeckStep(h) \/ StarterStep(h) \/ Disconnect(h)
  \/ \E d \in Decks : DeleteDeck(d)

Spec == Init /\ [][Next]_vars

----------------------------------------------------------------------------
(* Properties.                                                             *)

\* Crystals and copies never become negative and no card exceeds its highest
\* level, although each is checked in a statement before the one that changes it.
TypeOK ==
  /\ crystals \in Nat
  /\ level \in [Cards -> Levels]
  /\ quantity \in Bags
  /\ packs \in [Packs -> {"none", "unopened", "opened"}]
  /\ decks \subseteq Decks
  /\ used \subseteq Decks
  /\ deckCards \in [Decks -> Bags]
  /\ active \in Decks \cup {NoDeck}
  /\ request \in [Handlers -> Requests]
  /\ faults \in 0..MaxFaults
  /\ income \in Int
  /\ awarded \in [Packs -> Nat]
  /\ overlapped \in BOOLEAN
  /\ answerLost \in BOOLEAN

\* What the levels of a card have cost, and the crystals a request has taken, or
\* copies it has taken for them, and neither used nor given back.
Spent == [c \in Cards |-> Total(CrystalsCost, 1..(level[c] - 1))]
HeldBy(r) ==
  CASE r.at \in {"levelUpRow", "refund"} -> Price(r)
    [] r.at \in {"award", "rollback"} -> Worth(r)
    [] OTHER -> 0
Held == [h \in Handlers |-> HeldBy(request[h])]

\* No order of requests gives a player a level or crystals for nothing, nor does
\* a statement that fails or a client that goes away, as long as a failed statement
\* has no effect; and none takes crystals or copies for nothing if nothing fails.
CrystalsAreAccounted ==
  LET worth == crystals + Total(Spent, Cards) + Total(Held, Handlers)
  IN (~answerLost => worth <= income) /\ (faults = 0 => worth = income)

\* Each running purchase has seen room for one pack: the limit is passed by at
\* most one pack per further request.
PacksAreLimited ==
  Cardinality(Unopened) < MaxUnopenedPacks + Cardinality(Handlers)

\* The active deck is a deck, although it is looked up in a statement before the
\* one that makes it active, and may be deleted in between.
ActiveDeckExists == active # NoDeck => active \in decks

InventoryInv == TypeOK /\ CrystalsAreAccounted /\ PacksAreLimited /\ ActiveDeckExists

\* Without failures and with one request at a time: a pack is awarded once, and
\* after each request every deck can be saved as it is, so the level-ups and
\* disenchantments have removed exactly what is not owned any more.
OneByOne ==
  ~overlapped /\ faults = 0 =>
    /\ \A p \in Packs : awarded[p] <= 1
    /\ Cardinality(Unopened) <= MaxUnopenedPacks
    /\ ~Busy => \A d \in decks : ValidDeck(deckCards[d])

\* A player keeps a copy of a card that is at its highest level, whatever
\* disenchantments of it race or are rolled back.
LastCopyStays ==
  [][\A c \in Cards :
       level[c] = MaxLevel /\ quantity[c] > 0 => quantity'[c] > 0]_vars

\* A new player can queue as soon as the starter content is there, if nothing fails
\* and no other request comes first: its active deck is a starter deck (these have
\* the size that validateActiveDeckForMatchmaking asks for), with no card missing,
\* and the copies it has been given suffice for it.
StarterIsPlayable ==
  [][\A h \in Handlers :
       Starting(h) /\ ~Starting(h)' /\ faults' = 0 /\ ~overlapped' =>
         /\ active' # NoDeck
         /\ deckCards'[active'] = StarterDeck
         /\ ValidDeck(StarterDeck)']_vars
=============================================================================
