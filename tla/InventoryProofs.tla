--------------------------- MODULE InventoryProofs ---------------------------
(***************************************************************************)
(* Proofs about the deck service, for any cards, packs, prices and number  *)
(* of requests that run at once.                                           *)
(***************************************************************************)
EXTENDS Inventory, FiniteSetTheorems, TLAPS

----------------------------------------------------------------------------
(* Sums.                                                                   *)

Pairs(b, S) == UNION {{x} \X (1..b[x]) : x \in S}

LEMMA TotalIsNat ==
  ASSUME NEW S, IsFiniteSet(S), NEW b, \A x \in S : b[x] \in Nat
  PROVE  /\ IsFiniteSet(Pairs(b, S))
         /\ Total(b, S) = Cardinality(Pairs(b, S)) /\ Total(b, S) \in Nat
<1> DEFINE columns == {{x} \X (1..b[x]) : x \in S}
           f == [x \in S |-> {x} \X (1..b[x])]
<1>1. IsFiniteSet(columns)
  <2>1. f \in Surjection(S, columns)
    BY DEF Surjection
  <2> HIDE DEF f, columns
  <2> QED
    BY <2>1, FS_Surjection
<1>2. \A T \in columns : IsFiniteSet(T)
  <2>1. ASSUME NEW x \in S
        PROVE  IsFiniteSet({x} \X (1..b[x]))
    <3>1. IsFiniteSet({x})
      BY FS_Singleton
    <3>2. b[x] \in Int /\ 1 \in Int
      OBVIOUS
    <3>3. IsFiniteSet(1..b[x])
      BY <3>2, FS_Interval
    <3> QED
      BY <3>1, <3>3, FS_Product
  <2> QED
    BY <2>1
<1>3. IsFiniteSet(Pairs(b, S))
  <2> HIDE DEF columns
  <2>1. IsFiniteSet(UNION columns)
    BY <1>1, <1>2, FS_UNION
  <2> QED
    BY <2>1 DEF Pairs, columns
<1> QED
  BY <1>3, FS_CardinalityType DEF Total, Pairs

LEMMA TotalOfNothing ==
  ASSUME NEW b
  PROVE  Total(b, {}) = 0
<1>1. Pairs(b, {}) = {}
  BY DEF Pairs
<1> QED
  BY <1>1, FS_EmptySet DEF Total, Pairs

LEMMA TotalOfZeros ==
  ASSUME NEW S, NEW b, \A x \in S : b[x] = 0
  PROVE  Total(b, S) = 0
<1>1. \A x \in S : {x} \X (1..b[x]) = {}
  OBVIOUS
<1>2. Pairs(b, S) = {}
  BY <1>1 DEF Pairs
<1> QED
  BY <1>2, FS_EmptySet DEF Total, Pairs

LEMMA TotalOfSame ==
  ASSUME NEW S, NEW b, NEW d, \A x \in S : b[x] = d[x]
  PROVE  Total(b, S) = Total(d, S)
<1>1. \A x \in S : {x} \X (1..b[x]) = {x} \X (1..d[x])
  OBVIOUS
<1>2. {{x} \X (1..b[x]) : x \in S} = {{x} \X (1..d[x]) : x \in S}
  BY <1>1
<1> QED
  BY <1>2 DEF Total

LEMMA TotalOfOneMore ==
  ASSUME NEW S, IsFiniteSet(S), NEW b, NEW z, z \notin S, \A x \in S \cup {z} : b[x] \in Nat
  PROVE  Total(b, S \cup {z}) = Total(b, S) + b[z]
<1> DEFINE column == {z} \X (1..b[z])
<1>1. IsFiniteSet(S \cup {z})
  BY FS_AddElement
<1>2. /\ IsFiniteSet(Pairs(b, S)) /\ Total(b, S) = Cardinality(Pairs(b, S))
      /\ Total(b, S \cup {z}) = Cardinality(Pairs(b, S \cup {z}))
      /\ Total(b, S) \in Nat
  BY <1>1, TotalIsNat
<1>3. IsFiniteSet(column) /\ Cardinality(column) = b[z]
  <2>1. IsFiniteSet({z}) /\ Cardinality({z}) = 1
    BY FS_Singleton
  <2>2. b[z] \in Nat /\ b[z] \in Int /\ 1 \in Int
    OBVIOUS
  <2>3. IsFiniteSet(1..b[z]) /\ Cardinality(1..b[z]) = IF 1 > b[z] THEN 0 ELSE b[z] - 1 + 1
    BY <2>2, FS_Interval
  <2>4. Cardinality(1..b[z]) = b[z]
    BY <2>2, <2>3
  <2>5. /\ IsFiniteSet({z} \X (1..b[z]))
        /\ Cardinality({z} \X (1..b[z])) = Cardinality({z}) * Cardinality(1..b[z])
    BY <2>1, <2>3, FS_Product
  <2>6. 1 * b[z] = b[z]
    BY <2>2
  <2> QED
    BY <2>1, <2>4, <2>5, <2>6
<1>4. Pairs(b, S \cup {z}) = Pairs(b, S) \cup column
  BY DEF Pairs
<1>5. Pairs(b, S) \cap column = {}
  BY DEF Pairs
<1> HIDE DEF column
<1>6. Cardinality(Pairs(b, S) \cup column)
        = Cardinality(Pairs(b, S)) + Cardinality(column) - Cardinality(Pairs(b, S) \cap column)
  BY <1>2, <1>3, FS_Union
<1>7. Cardinality(Pairs(b, S) \cap column) = 0
  BY <1>5, FS_EmptySet
<1>8. Cardinality(Pairs(b, S)) \in Nat /\ b[z] \in Nat
  BY <1>2
<1>9. Total(b, S \cup {z}) = Cardinality(Pairs(b, S)) + b[z] - 0
  BY <1>2, <1>3, <1>4, <1>6, <1>7
<1>10. \A m, n \in Nat : m + n - 0 = m + n
  OBVIOUS
<1> QED
  BY <1>2, <1>8, <1>9, <1>10

\* A sum of which one summand changes.
LEMMA TotalOfUpdate ==
  ASSUME NEW S, IsFiniteSet(S), NEW b, NEW d, NEW z \in S,
         \A x \in S : b[x] \in Nat /\ d[x] \in Nat,
         \A x \in S \ {z} : d[x] = b[x]
  PROVE  /\ Total(b, S) \in Nat /\ Total(d, S) \in Nat
         /\ Total(d, S) = (Total(b, S) - b[z]) + d[z]
<1>1. IsFiniteSet(S \ {z}) /\ (S \ {z}) \cup {z} = S /\ z \notin S \ {z}
  BY FS_RemoveElement
<1>2. /\ Total(b, (S \ {z}) \cup {z}) = Total(b, S \ {z}) + b[z]
      /\ Total(d, (S \ {z}) \cup {z}) = Total(d, S \ {z}) + d[z]
  BY <1>1, TotalOfOneMore
<1>3. Total(b, S \ {z}) = Total(d, S \ {z})
  BY TotalOfSame
<1>4. Total(b, S \ {z}) \in Nat /\ Total(b, S) \in Nat /\ Total(d, S) \in Nat
  BY <1>1, TotalIsNat
<1>5. b[z] \in Nat /\ d[z] \in Nat
  OBVIOUS
<1>6. Total(b, S) = Total(b, S \ {z}) + b[z] /\ Total(d, S) = Total(b, S \ {z}) + d[z]
  BY <1>1, <1>2, <1>3
<1> QED
  BY <1>4, <1>5, <1>6

\* The two sums of the crystals, of which a step changes one summand at most.
LEMMA TotalOfCards ==
  ASSUME NEW b, NEW d, NEW z \in Cards, \A c \in Cards : b[c] \in Nat /\ d[c] \in Nat,
         \A c \in Cards \ {z} : d[c] = b[c]
  PROVE  /\ Total(b, Cards) \in Nat /\ Total(d, Cards) \in Nat
         /\ Total(d, Cards) = (Total(b, Cards) - b[z]) + d[z]
BY SetsAreFinite, TotalOfUpdate

LEMMA TotalOfRequests ==
  ASSUME NEW b, NEW d, NEW z \in Handlers, \A h \in Handlers : b[h] \in Nat /\ d[h] \in Nat,
         \A h \in Handlers \ {z} : d[h] = b[h]
  PROVE  /\ Total(b, Handlers) \in Nat /\ Total(d, Handlers) \in Nat
         /\ Total(d, Handlers) = (Total(b, Handlers) - b[z]) + d[z]
BY SetsAreFinite, TotalOfUpdate

USE LimitsAreNats, PricesAreNats, StockIsNat, SetsAreFinite

----------------------------------------------------------------------------
(* What a step does to the requests.                                       *)

RequestStep(h) ==
  CardStep(h) \/ PackStep(h) \/ DeckStep(h) \/ StarterStep(h) \/ Disconnect(h)

LEMMA BagTypes ==
  /\ Empty \in Bags
  /\ \A c \in Cards : One(c) \in Bags
  /\ NoExcess \in [Decks -> Nat]
  /\ NoRequest \in Requests /\ NoRequest.at = "idle"
  /\ StarterRequest \in Requests /\ StarterRequest.at = "starterCards"
<1>1. Empty \in Bags /\ NoExcess \in [Decks -> Nat]
  BY DEF Empty, Bags, NoExcess
<1>2. \A c \in Cards : One(c) \in Bags
  BY <1>1 DEF One, Bags
<1>3. (CHOOSE c \in Cards : TRUE) \in Cards
  OBVIOUS
<1>4. (CHOOSE p \in Packs : TRUE) \in Packs
  OBVIOUS
<1>5. (CHOOSE d \in Decks : TRUE) \in Decks
  OBVIOUS
<1>6. 1 \in Levels
  BY DEF Levels
<1>7. NoRequest \in Requests /\ NoRequest.at = "idle"
  BY <1>1, <1>3, <1>4, <1>5, <1>6 DEF NoRequest, Requests, Steps
<1>8. StarterRequest \in Requests /\ StarterRequest.at = "starterCards"
  BY <1>7 DEF StarterRequest, Requests, Steps
<1> QED
  BY <1>1, <1>2, <1>7, <1>8

LEMMA RequestFields ==
  ASSUME TypeOK, NEW h \in Handlers
  PROVE  /\ request[h] \in Requests
         /\ request[h].card \in Cards /\ request[h].level \in Levels
         /\ request[h].quantity \in Int /\ request[h].n \in Nat
         /\ request[h].pack \in Packs /\ request[h].deck \in Decks
         /\ request[h].first \in Decks \cup {NoDeck}
         /\ request[h].todo \in Bags /\ request[h].excess \in [Decks -> Nat]
BY DEF TypeOK, Requests

LEMMA Naturals ==
  ASSUME NEW r \in Requests
  PROVE  Price(r) \in Nat /\ Copies(r) \in Nat /\ Worth(r) \in Nat
<1>1. r.level \in Levels /\ r.n \in Nat /\ r.card \in Cards
  BY DEF Requests
<1>2. Value[r.card] \in Nat
  BY <1>1 DEF Bags
<1>3. \A m, n \in Nat : m * n \in Nat
  OBVIOUS
<1> QED
  BY <1>1, <1>2, <1>3 DEF Price, Copies, Worth

Minus(b, c) == [b EXCEPT ![c] = @ - 1]
Without(e, d) == [e EXCEPT ![d] = 0]

\* One step of each kind, as far as it concerns the request.
Follows(r, s) ==
  \/ s = NoRequest
  \/ r.at = "levelUpCrystals" /\ s = [r EXCEPT !.at = "levelUpDeduct"]
  \/ r.at = "levelUpDeduct" /\ s = [r EXCEPT !.at = "levelUpRow"]
  \/ r.at = "levelUpRow" /\ s = [r EXCEPT !.at = "refund"]
  \/ r.at = "levelUpRow" /\ s = [r EXCEPT !.at = "pruneRead", !.quantity = @ - Copies(r)]
  \/ r.at = "disenchantRow" /\ s = [r EXCEPT !.at = "award"]
  \/ r.at = "award" /\ s = [r EXCEPT !.at = "rollback"]
  \/ r.at = "award" /\ s = [r EXCEPT !.at = "pruneRead", !.quantity = @ - r.n]
  \/ r.at = "pruneRead" /\ s = [r EXCEPT !.at = "prune", !.excess = Excess(r)]
  \/ /\ r.at = "prune"
     /\ \E d \in Decks : s = [r EXCEPT !.excess = Without(@, d)]
  \/ r.at = "openPack" /\ s = [r EXCEPT !.at = "openCards"]
  \/ /\ r.at \in {"openCards", "saveInsert", "createInsert", "starterCards", "starterDeck"}
     /\ \E c \in Cards : r.todo[c] > 0 /\ s = [r EXCEPT !.todo = Minus(@, c)]
  \/ r.at = "saveVerify" /\ s = [r EXCEPT !.at = "saveDelete", !.checked = r.deck]
  \/ r.at = "saveDelete" /\ s = [r EXCEPT !.at = "saveInsert"]
  \/ r.at = "createDeck" /\ \E d \in Decks : s = [r EXCEPT !.at = "createInsert", !.deck = d]
  \/ /\ r.at \in {"starterCards", "starterDeck"} /\ r.n > 0
     /\ \/ s = [r EXCEPT !.n = r.n - 1]
        \/ \E d \in Decks :
             s = [r EXCEPT !.at = "starterDeck", !.deck = d, !.n = r.n - 1, !.todo = StarterDeck,
                           !.first = FirstDeck(r, d)]

\* A request that starts, with what it has read.
Starts(s) ==
  \/ \E c \in Cards : /\ level[c] < MaxLevel
                      /\ s = [NoRequest EXCEPT !.at = "levelUpCrystals", !.card = c,
                                               !.level = level[c], !.quantity = quantity[c]]
  \/ \E c \in Cards, n \in Nat :
       s = [NoRequest EXCEPT !.at = "disenchantRow", !.card = c, !.n = n,
                             !.quantity = quantity[c]]
  \/ Cardinality(Unopened) < MaxUnopenedPacks /\ s = [NoRequest EXCEPT !.at = "buyPack"]
  \/ \E p \in Packs, b \in Bags :
       s = [NoRequest EXCEPT !.at = "openPack", !.pack = p, !.todo = b]
  \/ \E d, body \in Decks, b \in Bags :
       s = [NoRequest EXCEPT !.at = "saveVerify", !.deck = d, !.checked = body, !.todo = b]
  \/ \E b \in Bags : s = [NoRequest EXCEPT !.at = "createDeck", !.todo = b]
  \/ \E d \in Decks : s = [NoRequest EXCEPT !.at = "setActive", !.deck = d]

To(h, s) == request' = [request EXCEPT ![h] = s]

Advances(h) ==
  \E s : /\ To(h, s)
         /\ Follows(request[h], s) \/ (request[h].at = "idle" /\ Starts(s))

LEMMA RequestSteps ==
  ASSUME TypeOK, NEW h \in Handlers, RequestStep(h)
  PROVE  Advances(h)
<1>1. request \in [Handlers -> Requests] /\ request[h] \in Requests
  BY DEF TypeOK
<1>2. ASSUME NEW s, To(h, s), Follows(request[h], s)
      PROVE  Advances(h)
  BY <1>2 DEF Advances
<1>3. ASSUME NEW s, Start(h, s), Starts(s)
      PROVE  Advances(h)
  BY <1>3 DEF Start, At, To, Advances
<1>4. ASSUME Return(h)
      PROVE  Advances(h)
  BY <1>2, <1>4 DEF Return, To, Follows
<1>5. ASSUME NEW step, Goto(h, step), Follows(request[h], [request[h] EXCEPT !.at = step])
      PROVE  Advances(h)
  <2>1. To(h, [request[h] EXCEPT !.at = step])
    BY <1>1, <1>5 DEF Goto, To
  <2> QED
    BY <1>2, <1>5, <2>1
<1>6. CASE CardStep(h)
  <2>1. ASSUME NEW c \in Cards, LevelUpRead(h, c)
        PROVE  Advances(h)
    <3> DEFINE t == [NoRequest EXCEPT !.at = "levelUpCrystals", !.card = c, !.level = level[c],
                                      !.quantity = quantity[c]]
    <3>1. Start(h, t) /\ level[c] < MaxLevel
      BY <2>1 DEF LevelUpRead
    <3> QED
      BY <1>3, <3>1 DEF Starts
  <2>2. CASE LevelUpCrystals(h)
    BY <1>4, <1>5, <2>2 DEF LevelUpCrystals, At, Follows
  <2>3. CASE LevelUpDeduct(h)
    BY <1>4, <1>5, <2>3 DEF LevelUpDeduct, At, Follows
  <2>4. CASE LevelUpRow(h)
    <3>1. CASE Goto(h, "refund")
      BY <1>5, <2>4, <3>1 DEF LevelUpRow, At, Follows
    <3>2. CASE request' = [request EXCEPT ![h].at = "pruneRead", ![h].quantity = @ - Copies(request[h])]
      <4>1. To(h, [request[h] EXCEPT !.at = "pruneRead", !.quantity = @ - Copies(request[h])])
        BY <1>1, <3>2 DEF To
      <4> QED
        BY <2>4, <1>2, <4>1 DEF LevelUpRow, At, Follows
    <3> QED
      BY <2>4, <3>1, <3>2 DEF LevelUpRow
  <2>5. CASE Refund(h)
    BY <1>4, <2>5 DEF Refund
  <2>6. ASSUME NEW c \in Cards, NEW n \in 1..quantity[c], DisenchantRead(h, c, n)
        PROVE  Advances(h)
    <3> DEFINE t == [NoRequest EXCEPT !.at = "disenchantRow", !.card = c, !.n = n,
                                      !.quantity = quantity[c]]
    <3>1. Start(h, t) /\ n \in Nat
      BY <2>6 DEF DisenchantRead
    <3> QED
      BY <1>3, <3>1 DEF Starts
  <2>7. CASE DisenchantRow(h)
    BY <1>4, <1>5, <2>7 DEF DisenchantRow, At, Follows
  <2>8. CASE Award(h)
    <3>1. CASE Goto(h, "rollback")
      BY <1>5, <2>8, <3>1 DEF Award, At, Follows
    <3>2. CASE request' = [request EXCEPT ![h].at = "pruneRead", ![h].quantity = @ - request[h].n]
      <4>1. To(h, [request[h] EXCEPT !.at = "pruneRead", !.quantity = @ - request[h].n])
        BY <1>1, <3>2 DEF To
      <4> QED
        BY <2>8, <1>2, <4>1 DEF Award, At, Follows
    <3> QED
      BY <2>8, <3>1, <3>2 DEF Award
  <2>9. CASE Rollback(h)
    BY <1>4, <2>9 DEF Rollback
  <2>10. CASE PruneRead(h)
    <3>1. CASE request' = [request EXCEPT ![h].at = "prune", ![h].excess = Excess(request[h])]
      <4>1. To(h, [request[h] EXCEPT !.at = "prune", !.excess = Excess(request[h])])
        BY <1>1, <3>1 DEF To, Minus, Without
      <4> QED
        BY <2>10, <1>2, <4>1 DEF PruneRead, At, Follows
    <3> QED
      BY <1>4, <2>10, <3>1 DEF PruneRead
  <2>11. ASSUME NEW d \in Decks, Prune(h, d)
         PROVE  Advances(h)
    <3> DEFINE rest == Without(request[h].excess, d)
    <3>1. CASE request' = [request EXCEPT ![h].excess = rest]
      <4>1. To(h, [request[h] EXCEPT !.excess = rest])
        BY <1>1, <3>1 DEF To, Minus, Without
      <4>2. Follows(request[h], [request[h] EXCEPT !.excess = rest])
        BY <2>11 DEF Prune, At, Follows
      <4> QED
        BY <1>2, <4>1, <4>2
    <3> QED
      BY <1>4, <2>11, <3>1 DEF Prune, Without
  <2> QED
    BY <1>6, <2>1, <2>2, <2>3, <2>4, <2>5, <2>6, <2>7, <2>8, <2>9, <2>10, <2>11 DEF CardStep
<1>7. CASE PackStep(h)
  <2>1. CASE BuyCount(h)
    <3> DEFINE t == [NoRequest EXCEPT !.at = "buyPack"]
    <3>1. Start(h, t) /\ Cardinality(Unopened) < MaxUnopenedPacks
      BY <2>1 DEF BuyCount
    <3> QED
      BY <1>3, <3>1 DEF Starts
  <2>2. ASSUME NEW p \in Packs, BuyPack(h, p)
        PROVE  Advances(h)
    BY <1>4, <2>2 DEF BuyPack
  <2>3. ASSUME NEW p \in Packs, NEW b \in PackContents, OpenRead(h, p, b)
        PROVE  Advances(h)
    <3> DEFINE t == [NoRequest EXCEPT !.at = "openPack", !.pack = p, !.todo = b]
    <3>1. Start(h, t) /\ b \in Bags
      BY <2>3 DEF OpenRead
    <3> QED
      BY <1>3, <3>1 DEF Starts
  <2>4. CASE OpenPack(h)
    BY <1>4, <1>5, <2>4 DEF OpenPack, At, Follows
  <2>5. ASSUME NEW c \in Cards, OpenCard(h, c)
        PROVE  Advances(h)
    <3>1. request' = [request EXCEPT ![h].todo[c] = @ - 1]
      BY <2>5 DEF OpenCard
    <3>2. To(h, [request[h] EXCEPT !.todo = Minus(@, c)])
      BY <1>1, <3>1 DEF To, Minus, Without
    <3> QED
      BY <1>2, <2>5, <3>2 DEF OpenCard, At, Follows
  <2>6. CASE OpenAward(h)
    BY <1>4, <2>6 DEF OpenAward
  <2> QED
    BY <1>7, <2>1, <2>2, <2>3, <2>4, <2>5, <2>6 DEF PackStep
<1>8. CASE DeckStep(h)
  <2>1. ASSUME NEW d \in Decks, NEW body \in Decks, NEW b \in Lists, SaveRead(h, d, body, b)
        PROVE  Advances(h)
    <3> DEFINE t == [NoRequest EXCEPT !.at = "saveVerify", !.deck = d, !.checked = body, !.todo = b]
    <3>1. Start(h, t) /\ b \in Bags
      BY <2>1 DEF SaveRead, Lists, Bags
    <3> QED
      BY <1>3, <3>1 DEF Starts
  <2>2. CASE SaveVerify(h)
    <3>1. CASE request' = [request EXCEPT ![h].at = "saveDelete", ![h].checked = request[h].deck]
      <4>1. To(h, [request[h] EXCEPT !.at = "saveDelete", !.checked = request[h].deck])
        BY <1>1, <3>1 DEF To, Minus, Without
      <4> QED
        BY <2>2, <1>2, <4>1 DEF SaveVerify, At, Follows
    <3> QED
      BY <1>4, <2>2, <3>1 DEF SaveVerify
  <2>3. CASE SaveDelete(h)
    BY <1>4, <1>5, <2>3 DEF SaveDelete, At, Follows
  <2>4. ASSUME NEW c \in Cards, Inserted(h, c), request[h].todo[c] > 0,
               request[h].at \in {"saveInsert", "createInsert"}
        PROVE  Advances(h)
    <3>1. CASE request' = [request EXCEPT ![h].todo[c] = @ - 1]
      <4>1. To(h, [request[h] EXCEPT !.todo = Minus(@, c)])
        BY <1>1, <3>1 DEF To, Minus, Without
      <4> QED
        BY <2>4, <1>2, <4>1 DEF Follows
    <3> QED
      BY <1>4, <2>4, <3>1 DEF Inserted
  <2>5. ASSUME NEW c \in Cards, SaveInsert(h, c)
        PROVE  Advances(h)
    BY <2>4, <2>5 DEF SaveInsert, At
  <2>6. ASSUME NEW b \in Lists, CreateRead(h, b)
        PROVE  Advances(h)
    <3> DEFINE t == [NoRequest EXCEPT !.at = "createDeck", !.todo = b]
    <3>1. Start(h, t) /\ b \in Bags
      BY <2>6 DEF CreateRead, Lists, Bags
    <3> QED
      BY <1>3, <3>1 DEF Starts
  <2>7. ASSUME NEW d \in Decks, CreateDeck(h, d)
        PROVE  Advances(h)
    <3>1. CASE request' = [request EXCEPT ![h].at = "createInsert", ![h].deck = d]
      <4>1. To(h, [request[h] EXCEPT !.at = "createInsert", !.deck = d])
        BY <1>1, <3>1 DEF To, Minus, Without
      <4> QED
        BY <2>7, <1>2, <4>1 DEF CreateDeck, At, Follows
    <3> QED
      BY <1>4, <2>7, <3>1 DEF CreateDeck
  <2>8. ASSUME NEW c \in Cards, CreateInsert(h, c)
        PROVE  Advances(h)
    BY <1>4, <2>4, <2>8 DEF CreateInsert, At
  <2>9. ASSUME NEW d \in Decks, SetActiveRead(h, d)
        PROVE  Advances(h)
    <3> DEFINE t == [NoRequest EXCEPT !.at = "setActive", !.deck = d]
    <3>1. Start(h, t)
      BY <2>9 DEF SetActiveRead
    <3> QED
      BY <1>3, <3>1 DEF Starts
  <2>10. CASE SetActive(h)
    BY <1>4, <2>10 DEF SetActive
  <2> QED
    BY <1>8, <2>1, <2>2, <2>3, <2>5, <2>6, <2>7, <2>8, <2>9, <2>10 DEF DeckStep
<1>9. CASE Disconnect(h)
  BY <1>4, <1>9 DEF Disconnect
<1>10. CASE StarterStep(h)
  <2>1. ASSUME NEW c \in Cards, StarterCard(h, c) \/ StarterInsert(h, c)
        PROVE  Advances(h)
    <3>1. request' = [request EXCEPT ![h].todo[c] = @ - 1]
      BY <2>1 DEF StarterCard, StarterInsert
    <3>2. To(h, [request[h] EXCEPT !.todo = Minus(@, c)])
      BY <1>1, <3>1 DEF To, Minus, Without
    <3> QED
      BY <1>2, <2>1, <3>2 DEF StarterCard, StarterInsert, At, Follows
  <2>2. ASSUME NEW d \in Decks, StarterCreate(h, d)
        PROVE  Advances(h)
    <3> DEFINE r == request[h]
               t == [r EXCEPT !.at = "starterDeck", !.deck = d, !.n = r.n - 1,
                              !.todo = StarterDeck, !.first = FirstDeck(r, d)]
               u == [r EXCEPT !.n = r.n - 1]
    <3>1. r.at \in {"starterCards", "starterDeck"} /\ r.n > 0
      BY <2>2 DEF StarterCreate, Starting, At
    <3>2. To(h, t) \/ To(h, u)
      <4>1. CASE request' = [request EXCEPT ![h].n = r.n - 1]
        BY <1>1, <4>1 DEF To
      <4> QED
        BY <2>2, <4>1 DEF StarterCreate, To
    <3>3. Follows(r, t) /\ Follows(r, u)
      BY <3>1 DEF Follows
    <3> QED
      BY <1>2, <3>2, <3>3
  <2>3. CASE StarterActive(h)
    BY <1>4, <2>3 DEF StarterActive
  <2> QED
    BY <1>10, <2>1, <2>2, <2>3 DEF StarterStep
<1> QED
  BY <1>6, <1>7, <1>8, <1>9, <1>10 DEF RequestStep

LEMMA StartTyped ==
  ASSUME TypeOK, NEW s, Starts(s)
  PROVE  s \in Requests
<1>1. level \in [Cards -> Levels] /\ quantity \in Bags
  BY DEF TypeOK
<1>2. \A c \in Cards : level[c] \in Levels /\ quantity[c] \in Int
  BY <1>1 DEF Bags
<1>3. NoRequest \in Requests
  BY BagTypes
<1>4. {"levelUpCrystals", "disenchantRow", "buyPack", "openPack", "saveVerify", "createDeck",
       "setActive"} \subseteq Steps
  BY DEF Steps
<1>5. Cards # {} /\ Decks # {} /\ Packs # {} /\ Empty \in Bags
  BY BagTypes
<1>6. ASSUME NEW c \in Cards, NEW n \in Nat,
             \/ s = [NoRequest EXCEPT !.at = "levelUpCrystals", !.card = c, !.level = level[c],
                                      !.quantity = quantity[c]]
             \/ s = [NoRequest EXCEPT !.at = "disenchantRow", !.card = c, !.n = n,
                                      !.quantity = quantity[c]]
      PROVE  s \in Requests
  BY <1>2, <1>6, <1>3, <1>4 DEF Requests
<1>7. ASSUME NEW p \in Packs, NEW d \in Decks, NEW body \in Decks, NEW b \in Bags,
             \/ s = [NoRequest EXCEPT !.at = "buyPack"]
             \/ s = [NoRequest EXCEPT !.at = "openPack", !.pack = p, !.todo = b]
             \/ s = [NoRequest EXCEPT !.at = "saveVerify", !.deck = d, !.checked = body, !.todo = b]
             \/ s = [NoRequest EXCEPT !.at = "createDeck", !.todo = b]
             \/ s = [NoRequest EXCEPT !.at = "setActive", !.deck = d]
      PROVE  s \in Requests
  BY <1>7, <1>3, <1>4 DEF Requests
<1> QED
  BY <1>6, <1>7, <1>5 DEF Starts

LEMMA FollowsTyped ==
  ASSUME TypeOK, NEW r \in Requests, NEW s, Follows(r, s)
  PROVE  s \in Requests
<1>1. Copies(r) \in Nat
  BY Naturals
<1>2. Excess(r) \in [Decks -> Nat]
  <2>1. r.card \in Cards /\ r.quantity \in Int
    BY DEF Requests
  <2>2. \A d \in Decks : deckCards[d][r.card] \in Nat
    BY <2>1 DEF TypeOK, Bags
  <2> QED
    BY <2>1, <2>2 DEF Excess, Surplus
<1>3. \A d \in Decks : Without(r.excess, d) \in [Decks -> Nat]
  BY DEF Without, Requests
<1>4. \A c \in Cards : r.todo[c] > 0 => Minus(r.todo, c) \in Bags
  BY DEF Minus, Requests, Bags
<1>5. /\ r.quantity \in Int /\ r.n \in Nat /\ r.deck \in Decks
      /\ r.quantity - Copies(r) \in Int /\ r.quantity - r.n \in Int
  BY <1>1 DEF Requests
<1>6. \A step \in Steps : [r EXCEPT !.at = step] \in Requests
  BY DEF Requests
<1>7. {"levelUpDeduct", "levelUpRow", "refund", "pruneRead", "award", "rollback", "prune",
       "openCards", "saveDelete", "saveInsert", "createInsert", "starterDeck"} \subseteq Steps
  BY DEF Steps
<1>8. CASE \/ s = NoRequest
           \/ s = [r EXCEPT !.at = "levelUpDeduct"] \/ s = [r EXCEPT !.at = "levelUpRow"]
           \/ s = [r EXCEPT !.at = "refund"] \/ s = [r EXCEPT !.at = "award"]
           \/ s = [r EXCEPT !.at = "rollback"] \/ s = [r EXCEPT !.at = "openCards"]
           \/ s = [r EXCEPT !.at = "saveInsert"]
  BY <1>6, <1>7, <1>8, BagTypes
<1>9. CASE \/ s = [r EXCEPT !.at = "pruneRead", !.quantity = @ - Copies(r)]
           \/ s = [r EXCEPT !.at = "pruneRead", !.quantity = @ - r.n]
           \/ s = [r EXCEPT !.at = "prune", !.excess = Excess(r)]
           \/ s = [r EXCEPT !.at = "saveDelete", !.checked = r.deck]
  BY <1>2, <1>5, <1>7, <1>9 DEF Requests
<1>10. ASSUME NEW d \in Decks,
              \/ s = [r EXCEPT !.excess = Without(@, d)]
              \/ s = [r EXCEPT !.at = "createInsert", !.deck = d]
       PROVE  s \in Requests
  BY <1>3, <1>7, <1>10 DEF Requests
<1>11. ASSUME NEW c \in Cards, r.todo[c] > 0, s = [r EXCEPT !.todo = Minus(@, c)]
       PROVE  s \in Requests
  BY <1>4, <1>11 DEF Requests
<1>12. CASE r.n > 0 /\ s = [r EXCEPT !.n = r.n - 1]
  <2>1. r.n - 1 \in Nat
    BY <1>5, <1>12
  <2> QED
    BY <1>12, <2>1 DEF Requests
<1>13. ASSUME NEW d \in Decks, r.n > 0,
              s = [r EXCEPT !.at = "starterDeck", !.deck = d, !.n = r.n - 1, !.todo = StarterDeck,
                            !.first = FirstDeck(r, d)]
       PROVE  s \in Requests
  <2>1. r.n - 1 \in Nat
    BY <1>5, <1>13
  <2>2. FirstDeck(r, d) \in Decks \cup {NoDeck}
    BY DEF FirstDeck, Requests
  <2> QED
    BY <1>7, <1>13, <2>1, <2>2 DEF Requests
<1> QED
  BY <1>8, <1>9, <1>10, <1>11, <1>12, <1>13 DEF Follows

\* Where a handler may go from where it stands.
Edges ==
  {<<"levelUpCrystals", "levelUpDeduct">>, <<"levelUpDeduct", "levelUpRow">>,
   <<"levelUpRow", "refund">>, <<"levelUpRow", "pruneRead">>, <<"disenchantRow", "award">>,
   <<"award", "rollback">>, <<"award", "pruneRead">>, <<"pruneRead", "prune">>,
   <<"openPack", "openCards">>, <<"saveVerify", "saveDelete">>, <<"saveDelete", "saveInsert">>,
   <<"createDeck", "createInsert">>, <<"starterCards", "starterDeck">>}

LEMMA FollowsEdges ==
  ASSUME NEW r \in Requests, NEW s, Follows(r, s)
  PROVE  s.at = "idle" \/ s.at = r.at \/ <<r.at, s.at>> \in Edges
<1> DEFINE Goal == s.at = "idle" \/ s.at = r.at \/ <<r.at, s.at>> \in Edges
<1>1. ASSUME NEW step, <<r.at, step>> \in Edges, s = [r EXCEPT !.at = step]
      PROVE  Goal
  <2>1. s.at = step
    BY <1>1 DEF Requests
  <2> QED
    BY <1>1, <2>1
<1>2. CASE s = NoRequest
  BY <1>2, BagTypes
<1>3. CASE \/ r.at = "levelUpCrystals" /\ s = [r EXCEPT !.at = "levelUpDeduct"]
           \/ r.at = "levelUpDeduct" /\ s = [r EXCEPT !.at = "levelUpRow"]
           \/ r.at = "levelUpRow" /\ s = [r EXCEPT !.at = "refund"]
           \/ r.at = "disenchantRow" /\ s = [r EXCEPT !.at = "award"]
           \/ r.at = "award" /\ s = [r EXCEPT !.at = "rollback"]
           \/ r.at = "openPack" /\ s = [r EXCEPT !.at = "openCards"]
           \/ r.at = "saveDelete" /\ s = [r EXCEPT !.at = "saveInsert"]
  BY <1>1, <1>3 DEF Edges
<1>4. CASE \/ r.at = "levelUpRow"
              /\ s = [r EXCEPT !.at = "pruneRead", !.quantity = @ - Copies(r)]
           \/ r.at = "award" /\ s = [r EXCEPT !.at = "pruneRead", !.quantity = @ - r.n]
  <2>1. s.at = "pruneRead"
    BY <1>4 DEF Requests
  <2> QED
    BY <1>4, <2>1 DEF Edges
<1>5. CASE r.at = "pruneRead" /\ s = [r EXCEPT !.at = "prune", !.excess = Excess(r)]
  <2>1. s.at = "prune"
    BY <1>5 DEF Requests
  <2> QED
    BY <1>5, <2>1 DEF Edges
<1>6. CASE r.at = "saveVerify" /\ s = [r EXCEPT !.at = "saveDelete", !.checked = r.deck]
  <2>1. s.at = "saveDelete"
    BY <1>6 DEF Requests
  <2> QED
    BY <1>6, <2>1 DEF Edges
<1>7. ASSUME NEW d \in Decks, r.at = "createDeck",
             s = [r EXCEPT !.at = "createInsert", !.deck = d]
      PROVE  Goal
  <2>1. s.at = "createInsert"
    BY <1>7 DEF Requests
  <2> QED
    BY <1>7, <2>1 DEF Edges
<1>8. ASSUME NEW e, \/ s = [r EXCEPT !.excess = e] \/ s = [r EXCEPT !.todo = e]
                    \/ s = [r EXCEPT !.n = e]
      PROVE  Goal
  <2>1. s.at = r.at
    BY <1>8 DEF Requests
  <2> QED
    BY <2>1
<1>9. ASSUME NEW d \in Decks, r.at \in {"starterCards", "starterDeck"},
             s = [r EXCEPT !.at = "starterDeck", !.deck = d, !.n = r.n - 1, !.todo = StarterDeck,
                           !.first = FirstDeck(r, d)]
      PROVE  Goal
  <2>1. s.at = "starterDeck"
    BY <1>9 DEF Requests
  <2> QED
    BY <1>9, <2>1 DEF Edges
<1>10. CASE r.at = "prune" /\ \E d \in Decks : s = [r EXCEPT !.excess = Without(@, d)]
  <2>1. PICK d \in Decks : s = [r EXCEPT !.excess = Without(r.excess, d)]
    BY <1>10
  <2> QED
    BY <1>8, <2>1
<1>11. CASE /\ r.at \in {"openCards", "saveInsert", "createInsert", "starterCards", "starterDeck"}
            /\ \E c \in Cards : r.todo[c] > 0 /\ s = [r EXCEPT !.todo = Minus(@, c)]
  <2>1. PICK c \in Cards : s = [r EXCEPT !.todo = Minus(r.todo, c)]
    BY <1>11
  <2> QED
    BY <1>8, <2>1
<1>12. CASE r.at = "createDeck" /\ \E d \in Decks : s = [r EXCEPT !.at = "createInsert", !.deck = d]
  BY <1>7, <1>12
<1>13. CASE /\ r.at \in {"starterCards", "starterDeck"} /\ r.n > 0
            /\ \/ s = [r EXCEPT !.n = r.n - 1]
               \/ \E d \in Decks :
                    s = [r EXCEPT !.at = "starterDeck", !.deck = d, !.n = r.n - 1,
                                  !.todo = StarterDeck, !.first = FirstDeck(r, d)]
  BY <1>8, <1>9, <1>13
<1> QED
  BY <1>2, <1>3, <1>4, <1>5, <1>6, <1>10, <1>11, <1>12, <1>13 DEF Follows

LEMMA RequestsTyped ==
  ASSUME TypeOK, NEW h \in Handlers, RequestStep(h)
  PROVE  /\ request' \in [Handlers -> Requests]
         /\ Follows(request[h], request'[h])
            \/ (request[h].at = "idle" /\ Starts(request'[h]))
         /\ \A k \in Handlers \ {h} : request'[k] = request[k]
<1>1. request \in [Handlers -> Requests] /\ request[h] \in Requests
  BY DEF TypeOK
<1>2. PICK s : /\ To(h, s)
               /\ Follows(request[h], s) \/ (request[h].at = "idle" /\ Starts(s))
  BY RequestSteps DEF Advances
<1>3. s \in Requests
  BY <1>1, <1>2, StartTyped, FollowsTyped
<1>4. request'[h] = s
  BY <1>1, <1>2 DEF To
<1> QED
  BY <1>1, <1>2, <1>3, <1>4 DEF To

----------------------------------------------------------------------------
(* Types, and the levels that requests have read.                          *)

\* A level-up that has not reached the row has read a level below the highest.
LevelsBelowTop ==
  \A h \in Handlers :
    request[h].at \in {"levelUpCrystals", "levelUpDeduct", "levelUpRow"} =>
      request[h].level < MaxLevel

LEMMA LevelsBelowTopStep ==
  ASSUME TypeOK, LevelsBelowTop, NEW h \in Handlers, RequestStep(h)
  PROVE  LevelsBelowTop'
<1>1. ASSUME NEW s \in Requests, Follows(request[h], s),
             s.at \in {"levelUpCrystals", "levelUpDeduct", "levelUpRow"}
      PROVE  s.level < MaxLevel
  <2>1. request[h] \in Requests
    BY RequestFields
  <2>2. request[h].at \in {"levelUpCrystals", "levelUpDeduct", "levelUpRow"}
    BY <1>1, <2>1, FollowsEdges DEF Edges
  <2>3. s.level = request[h].level
    BY <1>1, <2>1, <2>2, BagTypes DEF Follows, Requests
  <2> QED
    BY <2>2, <2>3 DEF LevelsBelowTop
<1>2. ASSUME NEW s \in Requests, Starts(s),
             s.at \in {"levelUpCrystals", "levelUpDeduct", "levelUpRow"}
      PROVE  s.level < MaxLevel
  BY <1>2, BagTypes DEF Starts, Requests
<1>3. request'[h] \in Requests
  BY RequestsTyped
<1> QED
  BY <1>1, <1>2, <1>3, RequestsTyped DEF LevelsBelowTop

LEMMA TypesOfCards ==
  ASSUME TypeOK, LevelsBelowTop, NEW h \in Handlers, RequestStep(h)
  PROVE  level' \in [Cards -> Levels] /\ quantity' \in Bags
<1> DEFINE r == request[h]
<1>1. /\ level \in [Cards -> Levels] /\ quantity \in Bags
      /\ r.card \in Cards /\ r.n \in Nat /\ Copies(r) \in Nat
  BY RequestFields, Naturals DEF TypeOK
<1>2. CASE UNCHANGED cards
  BY <1>1, <1>2 DEF cards
<1>3. CASE LevelUpRow(h) /\ ~UNCHANGED cards
  <2>1. /\ level[r.card] = r.level /\ quantity[r.card] >= Copies(r) /\ r.level < MaxLevel
        /\ level' = [level EXCEPT ![r.card] = @ + 1]
        /\ quantity' = [quantity EXCEPT ![r.card] = @ - Copies(r)]
    BY <1>3 DEF LevelUpRow, LevelIsAsRead, LevelsBelowTop, At
  <2>2. level[r.card] + 1 \in Levels
    <3>1. level[r.card] \in Levels
      BY <1>1
    <3> QED
      <4>1. r.level + 1 \in Nat /\ r.level + 1 <= MaxLevel /\ 1 <= r.level + 1
        <5>1. r.level \in Nat /\ MaxLevel \in Nat /\ r.level >= 1
          BY <2>1, <3>1 DEF Levels
        <5> QED
          BY <2>1, <5>1
      <4> QED
        BY <2>1, <4>1 DEF Levels
  <2>3. quantity[r.card] - Copies(r) \in Nat
    <3>1. quantity[r.card] \in Nat
      BY <1>1 DEF Bags
    <3> QED
      BY <1>1, <2>1, <3>1
  <2> QED
    BY <1>1, <2>1, <2>2, <2>3 DEF Bags
<1>4. CASE DisenchantRow(h) /\ ~UNCHANGED cards
  <2>1. /\ quantity[r.card] >= r.n + 1 /\ level' = level
        /\ quantity' = [quantity EXCEPT ![r.card] = @ - r.n]
    BY <1>4 DEF DisenchantRow, EnoughCopies, cards
  <2>2. quantity[r.card] - r.n \in Nat
    <3>1. quantity[r.card] \in Nat
      BY <1>1 DEF Bags
    <3> QED
      BY <1>1, <2>1, <3>1
  <2> QED
    BY <1>1, <2>1, <2>2 DEF Bags
<1>5. CASE Rollback(h) /\ ~UNCHANGED cards
  <2>1. level' = level /\ quantity' = [quantity EXCEPT ![r.card] = @ + r.n]
    BY <1>5 DEF Rollback, cards
  <2>2. quantity[r.card] + r.n \in Nat
    <3>1. quantity[r.card] \in Nat
      BY <1>1 DEF Bags
    <3> QED
      BY <1>1, <3>1
  <2> QED
    BY <1>1, <2>1, <2>2 DEF Bags
<1>6. ASSUME NEW c \in Cards, OpenCard(h, c) \/ StarterCard(h, c), ~UNCHANGED cards
      PROVE  level' \in [Cards -> Levels] /\ quantity' \in Bags
  <2>1. level' = level /\ quantity' = [quantity EXCEPT ![c] = @ + 1]
    BY <1>6 DEF OpenCard, StarterCard, cards
  <2>2. quantity[c] + 1 \in Nat
    BY <1>1 DEF Bags
  <2> QED
    BY <1>1, <2>1, <2>2 DEF Bags
<1>7. \/ UNCHANGED cards \/ LevelUpRow(h) \/ DisenchantRow(h) \/ Rollback(h)
      \/ \E c \in Cards : OpenCard(h, c) \/ StarterCard(h, c)
  BY DEF RequestStep, CardStep, PackStep, DeckStep, StarterStep, Disconnect, LevelUpRead,
         LevelUpCrystals, LevelUpDeduct, Refund, DisenchantRead, Award, PruneRead, Prune,
         BuyCount, BuyPack, OpenRead, OpenPack, OpenAward, SaveRead, SaveVerify, SaveDelete,
         SaveInsert, CreateRead, CreateDeck, CreateInsert, SetActiveRead, SetActive,
         StarterCreate, StarterInsert, StarterActive
<1> QED
  BY <1>2, <1>3, <1>4, <1>5, <1>6, <1>7

LEMMA TypeOfCrystals ==
  ASSUME TypeOK, NEW h \in Handlers, RequestStep(h)
  PROVE  crystals' \in Nat /\ income' \in Int
<1>1. /\ crystals \in Nat /\ income \in Int
      /\ Price(request[h]) \in Nat /\ Worth(request[h]) \in Nat
  BY RequestFields, Naturals DEF TypeOK
<1>2. CASE UNCHANGED <<crystals, income>>
  BY <1>1, <1>2
<1>3. CASE LevelUpDeduct(h) \/ Refund(h) \/ Award(h)
  BY <1>1, <1>3 DEF LevelUpDeduct, Refund, Award, history
<1>4. CASE DisenchantRow(h) \/ Rollback(h) \/ OpenAward(h)
  BY <1>1, <1>4 DEF DisenchantRow, Rollback, OpenAward
<1>5. \/ UNCHANGED <<crystals, income>>
      \/ LevelUpDeduct(h) \/ Refund(h) \/ Award(h) \/ DisenchantRow(h) \/ Rollback(h)
      \/ OpenAward(h)
  BY DEF RequestStep, CardStep, PackStep, DeckStep, StarterStep, Disconnect, history, earnings,
         LevelUpRead, LevelUpCrystals, LevelUpRow, DisenchantRead, PruneRead, OpenCard, Prune,
         BuyCount, BuyPack, OpenRead, OpenPack, SaveRead, SaveVerify, SaveDelete, SaveInsert,
         CreateRead, CreateDeck, CreateInsert, SetActiveRead, SetActive, StarterCard,
         StarterCreate, StarterInsert, StarterActive
<1> QED
  BY <1>2, <1>3, <1>4, <1>5

\* A deck that becomes active exists, and only deletions take decks away.
LEMMA ActiveChanges ==
  ASSUME NEW h \in Handlers, RequestStep(h)
  PROVE  active' = active \/ (active' \in decks /\ decks' = decks)
<1>1. CASE SetActive(h) \/ StarterActive(h)
  BY <1>1 DEF SetActive, StarterActive, Refer
<1>2. CASE ~SetActive(h) /\ ~StarterActive(h)
  BY <1>2 DEF RequestStep, CardStep, PackStep, DeckStep, StarterStep, Disconnect, deckRows,
         LevelUpRead, LevelUpCrystals, LevelUpDeduct, LevelUpRow, Refund, DisenchantRead,
         DisenchantRow, Award, Rollback, PruneRead, Prune, BuyCount, BuyPack, OpenRead, OpenPack,
         OpenCard, OpenAward, SaveRead, SaveVerify, SaveDelete, SaveInsert, CreateRead,
         CreateDeck, CreateInsert, SetActiveRead, StarterCard, StarterCreate, StarterInsert
<1> QED
  BY <1>1, <1>2

LEMMA DecksGrow ==
  ASSUME NEW h \in Handlers, RequestStep(h)
  PROVE  decks \subseteq decks'
<1>1. UNCHANGED decks \/ \E d \in Decks : CreateDeck(h, d) \/ StarterCreate(h, d)
  BY DEF RequestStep, CardStep, PackStep, DeckStep, StarterStep, Disconnect, deckRows,
         LevelUpRead, LevelUpCrystals, LevelUpDeduct, LevelUpRow, Refund, DisenchantRead,
         DisenchantRow, Award, Rollback, PruneRead, Prune, BuyCount, BuyPack, OpenRead, OpenPack,
         OpenCard, OpenAward, SaveRead, SaveVerify, SaveDelete, SaveInsert, CreateRead,
         CreateInsert, SetActiveRead, SetActive, StarterCard, StarterInsert, StarterActive
<1> QED
  BY <1>1 DEF CreateDeck, StarterCreate

LEMMA TypesOfPacksAndDecks ==
  ASSUME TypeOK, NEW h \in Handlers, RequestStep(h)
  PROVE  /\ packs' \in [Packs -> {"none", "unopened", "opened"}]
         /\ decks' \subseteq Decks /\ used' \subseteq Decks
         /\ deckCards' \in [Decks -> Bags] /\ active' \in Decks \cup {NoDeck}
<1> DEFINE r == request[h]
<1>1. /\ packs \in [Packs -> {"none", "unopened", "opened"}]
      /\ decks \subseteq Decks /\ used \subseteq Decks /\ deckCards \in [Decks -> Bags]
      /\ r.pack \in Packs /\ r.deck \in Decks /\ r.card \in Cards /\ r.excess \in [Decks -> Nat]
  BY RequestFields DEF TypeOK
<1>2. packs' \in [Packs -> {"none", "unopened", "opened"}]
  <2>1. CASE UNCHANGED packs
    BY <1>1, <2>1
  <2>2. CASE (\E p \in Packs : BuyPack(h, p)) \/ OpenPack(h)
    BY <1>1, <2>2 DEF BuyPack, OpenPack
  <2>3. UNCHANGED packs \/ (\E p \in Packs : BuyPack(h, p)) \/ OpenPack(h)
    BY DEF RequestStep, CardStep, PackStep, DeckStep, StarterStep, Disconnect, LevelUpRead,
           LevelUpCrystals, LevelUpDeduct, LevelUpRow, Refund, DisenchantRead, DisenchantRow,
           Award, Rollback, PruneRead, Prune, BuyCount, OpenRead, OpenCard, OpenAward, SaveRead,
           SaveVerify, SaveDelete, SaveInsert, CreateRead, CreateDeck, CreateInsert,
           SetActiveRead, SetActive, StarterCard, StarterCreate, StarterInsert, StarterActive
  <2> QED
    BY <2>1, <2>2, <2>3
<1>3. decks' \subseteq Decks /\ used' \subseteq Decks
  <2>1. UNCHANGED <<decks, used>> \/ \E d \in Decks : CreateDeck(h, d) \/ StarterCreate(h, d)
    BY DEF RequestStep, CardStep, PackStep, DeckStep, StarterStep, Disconnect, deckRows,
           LevelUpRead, LevelUpCrystals, LevelUpDeduct, LevelUpRow, Refund, DisenchantRead,
           DisenchantRow, Award, Rollback, PruneRead, Prune, BuyCount, BuyPack, OpenRead,
           OpenPack, OpenCard, OpenAward, SaveRead, SaveVerify, SaveDelete, SaveInsert,
           CreateRead, CreateInsert, SetActiveRead, SetActive, StarterCard,
           StarterInsert, StarterActive
  <2> QED
    BY <1>1, <2>1 DEF CreateDeck, StarterCreate
<1>4. deckCards' \in [Decks -> Bags]
  <2>1. CASE UNCHANGED deckCards
    BY <1>1, <2>1
  <2>2. ASSUME NEW d \in Decks, NEW c \in Cards, NEW n \in Nat,
               deckCards' = [deckCards EXCEPT ![d][c] = n]
        PROVE  deckCards' \in [Decks -> Bags]
    BY <1>1, <2>2 DEF Bags
  <2>3. \A d \in Decks, c \in Cards : deckCards[d][c] \in Nat
    BY <1>1 DEF Bags
  <2>4. ASSUME NEW d \in Decks, Prune(h, d), ~UNCHANGED deckCards
        PROVE  deckCards' \in [Decks -> Bags]
    <3>1. deckCards' = [deckCards EXCEPT ![d][r.card] = Surplus(deckCards[d][r.card], r.excess[d])]
      BY <2>4 DEF Prune
    <3>2. Surplus(deckCards[d][r.card], r.excess[d]) \in Nat
      BY <1>1, <2>3 DEF Surplus
    <3> QED
      BY <1>1, <2>2, <3>1, <3>2
  <2>5. CASE SaveDelete(h) /\ ~UNCHANGED deckCards
    BY <1>1, <2>5, BagTypes DEF SaveDelete
  <2>6. ASSUME NEW c \in Cards, SaveInsert(h, c) \/ CreateInsert(h, c) \/ StarterInsert(h, c),
               ~UNCHANGED deckCards
        PROVE  deckCards' \in [Decks -> Bags]
    <3>1. deckCards' = [deckCards EXCEPT ![r.deck][c] = deckCards[r.deck][c] + 1]
      BY <2>6 DEF SaveInsert, CreateInsert, StarterInsert, Insert
    <3>2. deckCards[r.deck][c] + 1 \in Nat
      BY <1>1, <2>3
    <3> QED
      BY <1>1, <2>2, <3>1, <3>2
  <2>7. \/ UNCHANGED deckCards \/ (\E d \in Decks : Prune(h, d)) \/ SaveDelete(h)
        \/ \E c \in Cards : SaveInsert(h, c) \/ CreateInsert(h, c) \/ StarterInsert(h, c)
    BY DEF RequestStep, CardStep, PackStep, DeckStep, StarterStep, Disconnect, deckRows,
           LevelUpRead, LevelUpCrystals, LevelUpDeduct, LevelUpRow, Refund, DisenchantRead,
           DisenchantRow, Award, Rollback, PruneRead, BuyCount, BuyPack, OpenRead, OpenPack,
           OpenCard, OpenAward, SaveRead, SaveVerify, CreateRead, CreateDeck, SetActiveRead,
           SetActive, StarterCard, StarterCreate, StarterActive
  <2> QED
    BY <2>1, <2>4, <2>5, <2>6, <2>7
<1>5. active' \in Decks \cup {NoDeck}
  BY <1>1, ActiveChanges DEF TypeOK
<1> QED
  BY <1>2, <1>3, <1>4, <1>5

LEMMA TypesOfHistory ==
  ASSUME TypeOK, NEW h \in Handlers, RequestStep(h)
  PROVE  /\ faults' \in 0..MaxFaults /\ awarded' \in [Packs -> Nat]
         /\ overlapped' \in BOOLEAN /\ answerLost' \in BOOLEAN
         /\ (faults' = 0 => faults = 0) /\ (answerLost => answerLost')
         /\ (answerLost' # answerLost => faults' > 0)
<1>1. /\ faults \in 0..MaxFaults /\ awarded \in [Packs -> Nat]
      /\ overlapped \in BOOLEAN /\ answerLost \in BOOLEAN /\ request[h].pack \in Packs
  BY RequestFields DEF TypeOK
<1>2. faults' = faults \/ Fails
  BY DEF RequestStep, CardStep, PackStep, DeckStep, StarterStep, Disconnect, Works, LevelUpRead,
         LevelUpCrystals, LevelUpDeduct, LevelUpRow, Refund, DisenchantRead, DisenchantRow, Award,
         Rollback, PruneRead, Prune, BuyCount, BuyPack, OpenRead, OpenPack, OpenCard, OpenAward,
         SaveRead, SaveVerify, SaveDelete, SaveInsert, CreateRead, CreateDeck, CreateInsert,
         SetActiveRead, SetActive, StarterCard, StarterCreate, StarterInsert, StarterActive
<1>3. faults' \in 0..MaxFaults /\ (faults' = 0 => faults = 0) /\ (Fails => faults' > 0)
  BY <1>1, <1>2 DEF Fails
<1>4. answerLost' = answerLost \/ (Fails /\ answerLost' = TRUE)
  BY DEF RequestStep, CardStep, PackStep, DeckStep, StarterStep, Disconnect, history, earnings,
         LevelUpRead, LevelUpCrystals, LevelUpDeduct, LevelUpRow, Refund, DisenchantRead,
         DisenchantRow, Award, Rollback, PruneRead, Prune, BuyCount, BuyPack, OpenRead, OpenPack,
         OpenCard, OpenAward, SaveRead, SaveVerify, SaveDelete, SaveInsert, CreateRead,
         CreateDeck, CreateInsert, SetActiveRead, SetActive, StarterCard, StarterCreate,
         StarterInsert, StarterActive
<1>5. awarded' = awarded \/ awarded' = [awarded EXCEPT ![request[h].pack] = @ + 1]
  BY DEF RequestStep, CardStep, PackStep, DeckStep, StarterStep, Disconnect, history, earnings,
         LevelUpRead, LevelUpCrystals, LevelUpDeduct, LevelUpRow, Refund, DisenchantRead,
         DisenchantRow, Award, Rollback, PruneRead, Prune, BuyCount, BuyPack, OpenRead, OpenPack,
         OpenCard, OpenAward, SaveRead, SaveVerify, SaveDelete, SaveInsert, CreateRead,
         CreateDeck, CreateInsert, SetActiveRead, SetActive, StarterCard, StarterCreate,
         StarterInsert, StarterActive
<1>6. overlapped' = overlapped \/ overlapped' = (overlapped \/ Busy)
  BY DEF RequestStep, CardStep, PackStep, DeckStep, StarterStep, Disconnect, history, earnings,
         Start, LevelUpRead, LevelUpCrystals, LevelUpDeduct, LevelUpRow, Refund, DisenchantRead,
         DisenchantRow, Award, Rollback, PruneRead, Prune, BuyCount, BuyPack, OpenRead, OpenPack,
         OpenCard, OpenAward, SaveRead, SaveVerify, SaveDelete, SaveInsert, CreateRead,
         CreateDeck, CreateInsert, SetActiveRead, SetActive, StarterCard, StarterCreate,
         StarterInsert, StarterActive
<1>7. awarded' \in [Packs -> Nat]
  BY <1>1, <1>5
<1>8. overlapped' \in BOOLEAN
  BY <1>1, <1>6
<1> QED
  BY <1>1, <1>3, <1>4, <1>7, <1>8

LEMMA TypeStep ==
  ASSUME TypeOK, LevelsBelowTop, NEW h \in Handlers, RequestStep(h)
  PROVE  TypeOK'
BY RequestsTyped, TypesOfCards, TypeOfCrystals, TypesOfPacksAndDecks, TypesOfHistory DEF TypeOK

----------------------------------------------------------------------------
(* Crystals.                                                               *)

LEMMA HeldIsNat ==
  ASSUME NEW r \in Requests
  PROVE  /\ HeldBy(r) \in Nat
         /\ r.at \in {"levelUpRow", "refund"} => HeldBy(r) = Price(r)
         /\ r.at \in {"award", "rollback"} => HeldBy(r) = Worth(r)
         /\ r.at \notin {"levelUpRow", "refund", "award", "rollback"} => HeldBy(r) = 0
<1>1. Price(r) \in Nat /\ Worth(r) \in Nat
  BY Naturals
<1> QED
  BY <1>1 DEF HeldBy

LEMMA HeldByRequest ==
  ASSUME NEW z \in Handlers, \A k \in Handlers : Held[k] \in Nat /\ Held'[k] \in Nat,
         \A k \in Handlers \ {z} : Held'[k] = Held[k]
  PROVE  /\ Total(Held, Handlers) \in Nat /\ Total(Held', Handlers) \in Nat
         /\ Total(Held', Handlers) = (Total(Held, Handlers) - Held[z]) + Held'[z]
BY TotalOfRequests

\* Only the request that runs holds more or fewer crystals afterwards.
LEMMA HeldChanges ==
  ASSUME TypeOK, NEW h \in Handlers, RequestStep(h)
  PROVE  /\ Total(Held, Handlers) \in Nat /\ Total(Held', Handlers) \in Nat
         /\ Total(Held', Handlers)
              = (Total(Held, Handlers) - HeldBy(request[h])) + HeldBy(request'[h])
<1>1. /\ \A k \in Handlers : request[k] \in Requests /\ request'[k] \in Requests
      /\ \A k \in Handlers \ {h} : request'[k] = request[k]
  BY RequestsTyped DEF TypeOK
<1>2. /\ \A k \in Handlers : Held[k] = HeldBy(request[k])
      /\ \A k \in Handlers : Held'[k] = HeldBy(request'[k])
  BY DEF Held, HeldBy, Price, Worth
<1>3. \A k \in Handlers : Held[k] \in Nat /\ Held'[k] \in Nat
  BY <1>1, <1>2, HeldIsNat
<1>4. \A k \in Handlers \ {h} : Held'[k] = Held[k]
  BY <1>1, <1>2
<1>5. /\ Total(Held, Handlers) \in Nat /\ Total(Held', Handlers) \in Nat
      /\ Total(Held', Handlers) = (Total(Held, Handlers) - Held[h]) + Held'[h]
  BY <1>3, <1>4, HeldByRequest
<1> QED
  BY <1>2, <1>5

LEMMA SpentOnCard ==
  ASSUME NEW z \in Cards, \A c \in Cards : Spent[c] \in Nat /\ Spent'[c] \in Nat,
         \A c \in Cards \ {z} : Spent'[c] = Spent[c]
  PROVE  /\ Total(Spent, Cards) \in Nat /\ Total(Spent', Cards) \in Nat
         /\ Total(Spent', Cards) = (Total(Spent, Cards) - Spent[z]) + Spent'[z]
BY TotalOfCards

\* A level more costs what the table says.
LEMMA SpentChanges ==
  ASSUME TypeOK, LevelsBelowTop, NEW h \in Handlers, RequestStep(h)
  PROVE  /\ Total(Spent, Cards) \in Nat /\ Total(Spent', Cards) \in Nat
         /\ level' = level => Total(Spent', Cards) = Total(Spent, Cards)
         /\ level' # level =>
              /\ LevelUpRow(h) /\ LevelIsAsRead(request[h])
              /\ Total(Spent', Cards) = Total(Spent, Cards) + Price(request[h])
<1> DEFINE r == request[h]
           cost(l) == Total(CrystalsCost, 1..(l - 1))
<1>1. /\ level \in [Cards -> Levels] /\ level' \in [Cards -> Levels]
      /\ r.card \in Cards /\ r.level \in Levels
  BY TypesOfCards, RequestFields DEF TypeOK
<1>2. ASSUME NEW l \in Levels
      PROVE  /\ cost(l) \in Nat /\ CrystalsCost[l] \in Nat
             /\ l < MaxLevel => cost(l + 1) = cost(l) + CrystalsCost[l]
  <2>1. l \in Nat /\ l >= 1 /\ l <= MaxLevel
    BY DEF Levels
  <2>2. IsFiniteSet(1..(l - 1))
    <3>1. 1 \in Int /\ l - 1 \in Int
      BY <2>1
    <3> QED
      BY <3>1, FS_Interval
  <2>3. \A m \in 1..(l - 1) \cup {l} : CrystalsCost[m] \in Nat
    BY <2>1 DEF Levels
  <2>4. l \notin 1..(l - 1) /\ 1..(l - 1) \cup {l} = 1..((l + 1) - 1)
    BY <2>1
  <2>5. Total(CrystalsCost, 1..(l - 1)) \in Nat
    BY <2>2, <2>3, TotalIsNat
  <2>6. Total(CrystalsCost, 1..(l - 1) \cup {l}) = Total(CrystalsCost, 1..(l - 1)) + CrystalsCost[l]
    BY <2>2, <2>3, <2>4, TotalOfOneMore
  <2> QED
    BY <2>3, <2>4, <2>5, <2>6
<1>3. \A c \in Cards : Spent[c] = cost(level[c]) /\ Spent'[c] = cost(level'[c])
  BY DEF Spent
<1> HIDE DEF cost
<1>4. \A c \in Cards : Spent[c] \in Nat /\ Spent'[c] \in Nat
  BY <1>1, <1>2, <1>3
<1>5. Total(Spent, Cards) \in Nat /\ Total(Spent', Cards) \in Nat
  BY <1>4, TotalIsNat
<1>6. ASSUME level' = level
      PROVE  Total(Spent', Cards) = Total(Spent, Cards)
  <2>1. \A c \in Cards : Spent'[c] = Spent[c]
    BY <1>3, <1>6
  <2> QED
    BY <2>1, TotalOfSame
<1>7. ASSUME level' # level
      PROVE  /\ LevelUpRow(h) /\ LevelIsAsRead(r)
             /\ Total(Spent', Cards) = Total(Spent, Cards) + Price(r)
  <2>1. LevelUpRow(h)
    BY <1>7 DEF RequestStep, CardStep, PackStep, DeckStep, StarterStep, Disconnect, cards,
           LevelUpRead, LevelUpCrystals, LevelUpDeduct, Refund, DisenchantRead, DisenchantRow,
           Award, Rollback, PruneRead, Prune, BuyCount, BuyPack, OpenRead, OpenPack, OpenCard,
           OpenAward, SaveRead, SaveVerify, SaveDelete, SaveInsert, CreateRead, CreateDeck,
           CreateInsert, SetActiveRead, SetActive, StarterCard, StarterCreate, StarterInsert,
           StarterActive
  <2>2. LevelIsAsRead(r) /\ level' = [level EXCEPT ![r.card] = @ + 1] /\ r.at = "levelUpRow"
    BY <1>7, <2>1 DEF LevelUpRow, cards, At
  <2>3. level[r.card] = r.level /\ r.level < MaxLevel /\ level'[r.card] = r.level + 1
    BY <1>1, <2>2 DEF LevelIsAsRead, LevelsBelowTop
  <2>4. Spent'[r.card] = Spent[r.card] + Price(r)
    BY <1>1, <1>2, <1>3, <2>3 DEF Price
  <2>5. \A c \in Cards \ {r.card} : Spent'[c] = Spent[c]
    BY <1>1, <1>3, <2>2
  <2>6. Total(Spent', Cards) = (Total(Spent, Cards) - Spent[r.card]) + Spent'[r.card]
    <3>1. PICK z \in Cards : z = r.card
      BY <1>1
    <3>2. \A c \in Cards \ {z} : Spent'[c] = Spent[c]
      BY <2>5, <3>1
    <3>3. /\ Total(Spent, Cards) \in Nat /\ Total(Spent', Cards) \in Nat
          /\ Total(Spent', Cards) = (Total(Spent, Cards) - Spent[z]) + Spent'[z]
      BY <1>4, <3>1, <3>2, SpentOnCard
    <3> QED
      BY <3>1, <3>3
  <2>7. Spent[r.card] \in Nat /\ Price(r) \in Nat
    BY <1>1, <1>2, <1>4 DEF Price
  <2> QED
    BY <1>5, <2>1, <2>2, <2>4, <2>6, <2>7
<1> QED
  BY <1>5, <1>6, <1>7

\* What a step may do to the balance: keep it, or, when a statement fails, lower
\* it or leave an effect that was reported as a failure.
Balanced(h) ==
  LET before == (crystals + Total(Spent, Cards) + HeldBy(request[h])) - income
      after == (crystals' + Total(Spent', Cards) + HeldBy(request'[h])) - income'
  IN \/ after = before
     \/ faults' > 0 /\ after <= before
     \/ faults' > 0 /\ answerLost'

LEMMA StepsAreBalanced ==
  ASSUME TypeOK, LevelsBelowTop, NEW h \in Handlers, RequestStep(h)
  PROVE  Balanced(h)
<1> DEFINE r == request[h]
           s == request'[h]
           spent == Total(Spent, Cards)
           spentNext == Total(Spent', Cards)
<1>1. /\ crystals \in Nat /\ crystals' \in Nat /\ income \in Int /\ income' \in Int
      /\ Price(r) \in Nat /\ Worth(r) \in Nat
      /\ r \in Requests /\ s \in Requests
      /\ faults' \in Nat
  BY TypeOfCrystals, RequestFields, RequestsTyped, Naturals, TypesOfHistory DEF TypeOK
<1>2. /\ spent \in Nat /\ spentNext \in Nat /\ (level' = level => spentNext = spent)
      /\ level' # level => /\ LevelUpRow(h) /\ LevelIsAsRead(r)
                           /\ spentNext = spent + Price(r)
  BY SpentChanges
<1>3. /\ HeldBy(r) \in Nat /\ HeldBy(s) \in Nat
  BY <1>1, HeldIsNat
<1>4. HeldBy(NoRequest) = 0
  BY BagTypes, HeldIsNat
<1>5. \A step \in Steps : Goto(h, step) => s.at = step /\ Price(s) = Price(r) /\ Worth(s) = Worth(r)
  <2>1. ASSUME NEW step \in Steps, Goto(h, step)
        PROVE  s.at = step /\ Price(s) = Price(r) /\ Worth(s) = Worth(r)
    <3>1. s = [r EXCEPT !.at = step]
      BY <2>1 DEF Goto, TypeOK
    <3>2. s.at = step /\ s.level = r.level /\ s.n = r.n /\ s.card = r.card
      BY <1>1, <3>1 DEF Requests
    <3> QED
      BY <3>2 DEF Price, Worth
  <2> QED
    BY <2>1
<1>6. Return(h) => s = NoRequest
  BY DEF Return, TypeOK
<1>7. Fails => faults' > 0
  BY DEF Fails, TypeOK
<1>8. {"levelUpRow", "refund", "award", "rollback"} \subseteq Steps
  BY DEF Steps
<1>9. CASE LevelUpDeduct(h)
  <2>1. level' = level /\ income' = income /\ r.at = "levelUpDeduct"
    BY <1>9 DEF LevelUpDeduct, cards, history, At
  <2>2. HeldBy(r) = 0
    BY <1>1, <2>1, HeldIsNat
  <2>3. CASE crystals' = crystals - Price(r) /\ Goto(h, "levelUpRow")
    <3>1. HeldBy(s) = Price(r)
      BY <1>1, <1>5, <1>8, <2>3, HeldIsNat
    <3> QED
      BY <1>1, <1>2, <2>1, <2>2, <2>3, <3>1 DEF Balanced
  <2>4. CASE crystals' = crystals /\ Return(h)
    BY <1>1, <1>2, <1>4, <1>6, <2>1, <2>2, <2>4 DEF Balanced
  <2> QED
    BY <1>9, <2>3, <2>4 DEF LevelUpDeduct
<1>10. CASE LevelUpRow(h)
  <2>1. crystals' = crystals /\ income' = income /\ r.at = "levelUpRow"
    BY <1>10 DEF LevelUpRow, At
  <2>2. HeldBy(r) = Price(r)
    BY <1>1, <2>1, HeldIsNat
  <2>3. CASE level' = level /\ Goto(h, "refund")
    <3>1. HeldBy(s) = Price(r)
      BY <1>1, <1>5, <1>8, <2>3, HeldIsNat
    <3> QED
      BY <1>1, <1>2, <2>1, <2>2, <2>3, <3>1 DEF Balanced
  <2>4. CASE Fails /\ answerLost' = TRUE
    BY <1>7, <2>4 DEF Balanced
  <2>5. CASE /\ level' = [level EXCEPT ![r.card] = @ + 1] /\ LevelIsAsRead(r)
             /\ request' = [request EXCEPT ![h].at = "pruneRead", ![h].quantity = @ - Copies(r)]
    <3>1. s = [r EXCEPT !.at = "pruneRead", !.quantity = @ - Copies(r)]
      BY <2>5 DEF TypeOK
    <3>2. HeldBy(s) = 0
      <4>1. s.at = "pruneRead"
        BY <1>1, <3>1 DEF Requests
      <4> QED
        BY <1>1, <4>1, HeldIsNat
    <3>3. level' # level
      <4>1. level \in [Cards -> Levels] /\ r.card \in Cards
        BY <1>1 DEF TypeOK, Requests
      <4>3. level[r.card] \in Nat
        BY <4>1 DEF Levels
      <4>2. level'[r.card] = level[r.card] + 1
        BY <2>5, <4>1
      <4> QED
        BY <4>2, <4>3
    <3> QED
      BY <1>1, <1>2, <2>1, <2>2, <3>2, <3>3 DEF Balanced
  <2> QED
    BY <1>10, <2>3, <2>4, <2>5 DEF LevelUpRow, cards
<1>11. CASE Refund(h)
  <2>1. level' = level /\ income' = income /\ r.at = "refund" /\ s = NoRequest
    BY <1>6, <1>11 DEF Refund, cards, history, At
  <2>2. HeldBy(r) = Price(r) /\ HeldBy(s) = 0
    BY <1>1, <1>4, <2>1, HeldIsNat
  <2>3. crystals' = crystals + Price(r) \/ (crystals' = crystals /\ faults' > 0)
    BY <1>7, <1>11 DEF Refund
  <2> QED
    BY <1>1, <1>2, <2>1, <2>2, <2>3 DEF Balanced
<1>12. CASE DisenchantRow(h)
  <2>1. level' = level /\ crystals' = crystals /\ r.at = "disenchantRow"
    BY <1>12 DEF DisenchantRow, At
  <2>2. HeldBy(r) = 0
    BY <1>1, <2>1, HeldIsNat
  <2>3. CASE income' = income + Worth(r) /\ Goto(h, "award")
    <3>1. HeldBy(s) = Worth(r)
      BY <1>1, <1>5, <1>8, <2>3, HeldIsNat
    <3> QED
      BY <1>1, <1>2, <2>1, <2>2, <2>3, <3>1 DEF Balanced
  <2>4. CASE income' = income /\ Return(h)
    BY <1>1, <1>2, <1>4, <1>6, <2>1, <2>2, <2>4 DEF Balanced
  <2> QED
    BY <1>12, <2>3, <2>4 DEF DisenchantRow
<1>13. CASE Award(h)
  <2>1. level' = level /\ income' = income /\ r.at = "award"
    BY <1>13 DEF Award, cards, At
  <2>2. HeldBy(r) = Worth(r)
    BY <1>1, <2>1, HeldIsNat
  <2>3. CASE crystals' = crystals /\ Goto(h, "rollback")
    <3>1. HeldBy(s) = Worth(r)
      BY <1>1, <1>5, <1>8, <2>3, HeldIsNat
    <3> QED
      BY <1>1, <1>2, <2>1, <2>2, <2>3, <3>1 DEF Balanced
  <2>4. CASE Fails /\ answerLost' = TRUE
    BY <1>7, <2>4 DEF Balanced
  <2>5. CASE /\ crystals' = crystals + Worth(r)
             /\ request' = [request EXCEPT ![h].at = "pruneRead", ![h].quantity = @ - r.n]
    <3>1. s = [r EXCEPT !.at = "pruneRead", !.quantity = @ - r.n]
      BY <2>5 DEF TypeOK
    <3>2. HeldBy(s) = 0
      <4>1. s.at = "pruneRead"
        BY <1>1, <3>1 DEF Requests
      <4> QED
        BY <1>1, <4>1, HeldIsNat
    <3> QED
      BY <1>1, <1>2, <2>1, <2>2, <2>5, <3>2 DEF Balanced
  <2> QED
    BY <1>13, <2>3, <2>4, <2>5 DEF Award
<1>14. CASE Rollback(h)
  <2>1. level' = level /\ crystals' = crystals /\ r.at = "rollback" /\ s = NoRequest
    BY <1>6, <1>14 DEF Rollback, At
  <2>2. HeldBy(r) = Worth(r) /\ HeldBy(s) = 0
    BY <1>1, <1>4, <2>1, HeldIsNat
  <2>3. income' = income - Worth(r) \/ (income' = income /\ faults' > 0)
    BY <1>7, <1>14 DEF Rollback
  <2> QED
    BY <1>1, <1>2, <2>1, <2>2, <2>3 DEF Balanced
<1>15. CASE OpenAward(h)
  <2>1. level' = level /\ r.at = "openCards" /\ s = NoRequest
    BY <1>6, <1>15 DEF OpenAward, cards, At
  <2>2. HeldBy(r) = 0 /\ HeldBy(s) = 0
    BY <1>1, <1>4, <2>1, HeldIsNat
  <2>3. \/ crystals' = crystals + PackCrystals /\ income' = income + PackCrystals
        \/ crystals' = crystals /\ income' = income
    BY <1>15 DEF OpenAward
  <2> QED
    BY <1>1, <1>2, <2>1, <2>2, <2>3 DEF Balanced
<1>16. CASE Disconnect(h)
  <2>1. /\ level' = level /\ crystals' = crystals /\ income' = income
        /\ s = NoRequest /\ faults' > 0
    BY <1>6, <1>7, <1>16 DEF Disconnect, cards, history
  <2>2. HeldBy(s) = 0
    BY <1>4, <2>1
  <2> QED
    BY <1>1, <1>2, <1>3, <2>1, <2>2 DEF Balanced
<1>17. CASE /\ UNCHANGED <<level, crystals, income>>
            /\ r.at \notin {"levelUpDeduct", "levelUpRow", "refund", "disenchantRow", "award",
                           "rollback"}
  <2>1. HeldBy(r) = 0
    BY <1>1, <1>17, HeldIsNat
  <2>2. s.at \notin {"levelUpRow", "refund", "award", "rollback"}
    <3>1. ASSUME Follows(r, s)
          PROVE  s.at \notin {"levelUpRow", "refund", "award", "rollback"}
      BY <1>1, <1>17, <3>1, FollowsEdges DEF Edges
    <3>2. ASSUME Starts(s)
          PROVE  s.at \notin {"levelUpRow", "refund", "award", "rollback"}
      BY <3>2, BagTypes DEF Starts, Requests
    <3> QED
      BY <3>1, <3>2, RequestsTyped
  <2>3. HeldBy(s) = 0
    BY <1>1, <2>2, HeldIsNat
  <2> QED
    BY <1>1, <1>2, <1>17, <2>1, <2>3 DEF Balanced
<1>18. \/ LevelUpDeduct(h) \/ LevelUpRow(h) \/ Refund(h) \/ DisenchantRow(h) \/ Award(h)
       \/ Rollback(h) \/ OpenAward(h) \/ Disconnect(h)
       \/ /\ UNCHANGED <<level, crystals, income>>
          /\ r.at \notin {"levelUpDeduct", "levelUpRow", "refund", "disenchantRow", "award",
                         "rollback"}
  <2>1. CASE CardStep(h) \/ PackStep(h)
    BY <2>1 DEF CardStep, PackStep, cards, history, earnings, At, Start, LevelUpRead,
           LevelUpCrystals, DisenchantRead, PruneRead, Prune, BuyCount, BuyPack, OpenRead, OpenPack,
           OpenCard
  <2>2. CASE DeckStep(h)
    BY <2>2 DEF DeckStep, cards, history, earnings, At, Start, SaveRead, SaveVerify, SaveDelete,
           SaveInsert, CreateRead, CreateDeck, CreateInsert, SetActiveRead, SetActive
  <2>3. CASE StarterStep(h)
    <3>1. r.at \in {"starterCards", "starterDeck"}
      BY <2>3 DEF StarterStep, Starting, At, StarterCard, StarterCreate, StarterInsert,
             StarterActive
    <3>2. UNCHANGED <<level, crystals, income>>
      BY <2>3 DEF StarterStep, cards, history, StarterCard, StarterCreate, StarterInsert,
             StarterActive
    <3> QED
      BY <3>1, <3>2
  <2> QED
    BY <2>1, <2>2, <2>3 DEF RequestStep
<1> QED
  BY <1>9, <1>10, <1>11, <1>12, <1>13, <1>14, <1>15, <1>16, <1>17, <1>18

LEMMA AccountsStep ==
  ASSUME TypeOK, LevelsBelowTop, CrystalsAreAccounted, NEW h \in Handlers, RequestStep(h)
  PROVE  CrystalsAreAccounted'
<1> DEFINE spent == Total(Spent, Cards)
           spentNext == Total(Spent', Cards)
           held == Total(Held, Handlers)
           heldNext == Total(Held', Handlers)
           r == HeldBy(request[h])
           s == HeldBy(request'[h])
<1>1. /\ crystals \in Int /\ crystals' \in Int /\ income \in Int /\ income' \in Int
      /\ faults' \in Nat /\ (faults' = 0 => faults = 0) /\ (answerLost => answerLost')
  BY TypeOfCrystals, TypesOfHistory DEF TypeOK
<1>2. spent \in Int /\ spentNext \in Int
  BY SpentChanges
<1>3. held \in Int /\ heldNext \in Int /\ heldNext = (held - r) + s
  BY HeldChanges
<1>4. r \in Int /\ s \in Int
  BY RequestFields, RequestsTyped, HeldIsNat
<1>5. LET before == (crystals + spent + r) - income
          after == (crystals' + spentNext + s) - income'
      IN \/ after = before
         \/ faults' > 0 /\ after <= before
         \/ faults' > 0 /\ answerLost'
  BY StepsAreBalanced DEF Balanced
<1>6. /\ ~answerLost => crystals + spent + held <= income
      /\ faults = 0 => crystals + spent + held = income
  BY DEF CrystalsAreAccounted
<1>7. /\ ~answerLost' => crystals' + spentNext + heldNext <= income'
      /\ faults' = 0 => crystals' + spentNext + heldNext = income'
  <2>1. /\ crystals \in Int /\ crystals' \in Int /\ income \in Int /\ income' \in Int
         /\ spent \in Int /\ spentNext \in Int /\ held \in Int /\ r \in Int /\ s \in Int
    BY <1>1, <1>2, <1>3, <1>4
  <2>2. ASSUME (crystals' + spentNext + s) - income' = (crystals + spent + r) - income,
                crystals + spent + held = income
         PROVE  crystals' + spentNext + ((held - r) + s) = income'
    BY <2>1, <2>2
  <2>3. ASSUME (crystals' + spentNext + s) - income' <= (crystals + spent + r) - income,
               crystals + spent + held <= income
        PROVE  crystals' + spentNext + ((held - r) + s) <= income'
    BY <2>1, <2>3
  <2>4. /\ (crystals' + spentNext + s) - income' \in Int
        /\ (crystals + spent + r) - income \in Int
    BY <1>1, <1>2, <1>4
  <2>5. \A m, n \in Int : m = n => m <= n
    OBVIOUS
  <2>6. faults' = 0 => ~(faults' > 0)
    OBVIOUS
  <2>7. ASSUME ~answerLost'
        PROVE  crystals' + spentNext + heldNext <= income'
    <3>1. (crystals' + spentNext + s) - income' <= (crystals + spent + r) - income
      BY <1>5, <2>4, <2>5, <2>7
    <3> QED
      BY <1>1, <1>3, <1>6, <2>3, <2>7, <3>1
  <2>8. ASSUME faults' = 0
        PROVE  crystals' + spentNext + heldNext = income'
    <3>1. (crystals' + spentNext + s) - income' = (crystals + spent + r) - income
      BY <1>5, <2>6, <2>8
    <3> QED
      BY <1>1, <1>3, <1>6, <2>2, <2>8, <3>1
  <2> QED
    BY <2>7, <2>8
<1> QED
  BY <1>7 DEF CrystalsAreAccounted

----------------------------------------------------------------------------
(* Packs.                                                                  *)

Buyers == {h \in Handlers : At(h, "buyPack")}

\* A running purchase has seen room for one pack, so together with the purchases
\* that have still to create theirs there is never more than one pack too many
\* per further request.
RoomIsSeen ==
  Cardinality(Unopened) + Cardinality(Buyers) < MaxUnopenedPacks + Cardinality(Handlers)

LEMMA SizesOfPacks ==
  /\ IsFiniteSet(Unopened) /\ IsFiniteSet(Buyers)
  /\ Cardinality(Unopened) \in Nat /\ Cardinality(Buyers) \in Nat
  /\ Cardinality(Buyers) <= Cardinality(Handlers)
  /\ Cardinality(Handlers) \in Nat
<1>1. IsFiniteSet(Handlers) /\ Cardinality(Handlers) \in Nat
  BY FS_CardinalityType
<1>2. IsFiniteSet(Unopened)
  BY FS_Subset DEF Unopened
<1>3. Buyers \in SUBSET Handlers
  BY DEF Buyers
<1>4. IsFiniteSet(Buyers) /\ Cardinality(Buyers) <= Cardinality(Handlers)
  BY <1>1, <1>3, FS_Subset
<1> QED
  BY <1>1, <1>2, <1>4, FS_CardinalityType

LEMMA SizesOfPacksNext ==
  /\ IsFiniteSet(Unopened') /\ IsFiniteSet(Buyers')
  /\ Cardinality(Unopened') \in Nat /\ Cardinality(Buyers') \in Nat
  /\ Cardinality(Buyers') <= Cardinality(Handlers)
<1>1. IsFiniteSet(Handlers)
  OBVIOUS
<1>2. IsFiniteSet(Unopened')
  BY FS_Subset DEF Unopened
<1>3. Buyers' \in SUBSET Handlers
  BY DEF Buyers
<1>4. IsFiniteSet(Buyers') /\ Cardinality(Buyers') <= Cardinality(Handlers)
  BY <1>1, <1>3, FS_Subset
<1> QED
  BY <1>2, <1>4, FS_CardinalityType

\* A purchase that starts has counted the packs; one that creates a pack ends.
LEMMA PackSteps ==
  ASSUME TypeOK, NEW h \in Handlers, RequestStep(h)
  PROVE  \/ Cardinality(Unopened) < MaxUnopenedPacks /\ Unopened' = Unopened
         \/ Buyers' \subseteq Buyers /\ Unopened' \subseteq Unopened
         \/ /\ h \in Buyers /\ Buyers' \subseteq Buyers \ {h}
            /\ \E p \in Packs : Unopened' \subseteq Unopened \cup {p}
<1> DEFINE r == request[h]
           s == request'[h]
<1>1. /\ packs \in [Packs -> {"none", "unopened", "opened"}]
      /\ r \in Requests /\ s \in Requests /\ r.pack \in Packs
  BY RequestFields, RequestsTyped DEF TypeOK
<1>2. \A k \in Handlers \ {h} : request'[k] = request[k]
  BY RequestsTyped
<1>3. CASE BuyCount(h)
  <2>1. packs' = packs
    BY <1>3 DEF BuyCount
  <2> QED
    BY <1>3, <2>1 DEF BuyCount, Unopened
<1>4. ASSUME NEW p \in Packs, BuyPack(h, p)
      PROVE  /\ h \in Buyers /\ Buyers' \subseteq Buyers \ {h}
             /\ Unopened' \subseteq Unopened \cup {p}
  <2>1. h \in Buyers
    BY <1>4 DEF BuyPack, Buyers
  <2>2. s.at = "idle"
    BY <1>4, BagTypes DEF BuyPack, Return, TypeOK
  <2>3. h \notin Buyers'
    BY <2>2 DEF Buyers, At
  <2>4. Buyers' \subseteq Buyers \cup {h}
    BY <1>2 DEF Buyers, At
  <2>5. packs' = packs \/ packs' = [packs EXCEPT ![p] = "unopened"]
    BY <1>4 DEF BuyPack
  <2>6. Unopened' \subseteq Unopened \cup {p}
    BY <1>1, <2>5 DEF Unopened
  <2> QED
    BY <2>1, <2>3, <2>4, <2>6
<1>5. CASE ~BuyCount(h) /\ ~\E p \in Packs : BuyPack(h, p)
  <2>1. packs' = packs \/ packs' = [packs EXCEPT ![r.pack] = "opened"]
    BY <1>5 DEF RequestStep, CardStep, PackStep, DeckStep, StarterStep, Disconnect, LevelUpRead,
           LevelUpCrystals, LevelUpDeduct, LevelUpRow, Refund, DisenchantRead, DisenchantRow,
           Award, Rollback, PruneRead, Prune, OpenRead, OpenPack, OpenCard, OpenAward, SaveRead,
           SaveVerify, SaveDelete, SaveInsert, CreateRead, CreateDeck, CreateInsert,
           SetActiveRead, SetActive, StarterCard, StarterCreate, StarterInsert, StarterActive
  <2>2. Unopened' \subseteq Unopened
    BY <1>1, <2>1 DEF Unopened
  <2>3. CASE Follows(r, s)
    <3>1. s.at = "buyPack" => r.at = "buyPack"
      BY <1>1, <2>3, FollowsEdges DEF Edges
    <3> QED
      BY <1>2, <2>2, <3>1 DEF Buyers, At
  <2>4. CASE r.at = "idle" /\ Starts(s)
    <3>1. s.at = "buyPack" => Cardinality(Unopened) < MaxUnopenedPacks
      BY <1>1, <2>4, BagTypes DEF Starts, Requests
    <3>2. ~OpenPack(h)
      BY <2>4 DEF OpenPack, At
    <3>3. packs' = packs
      BY <1>5, <3>2 DEF RequestStep, CardStep, PackStep, DeckStep, StarterStep, Disconnect,
             LevelUpRead, LevelUpCrystals, LevelUpDeduct, LevelUpRow, Refund, DisenchantRead,
             DisenchantRow, Award, Rollback, PruneRead, Prune, OpenRead, OpenCard, OpenAward,
             SaveRead, SaveVerify, SaveDelete, SaveInsert, CreateRead, CreateDeck, CreateInsert,
             SetActiveRead, SetActive, StarterCard, StarterCreate, StarterInsert, StarterActive
    <3>4. Unopened' = Unopened
      BY <3>3 DEF Unopened
    <3>5. s.at # "buyPack" => Buyers' \subseteq Buyers
      BY <1>2 DEF Buyers, At
    <3> QED
      BY <3>1, <3>4, <3>5
  <2> QED
    BY <2>3, <2>4, RequestsTyped
<1> QED
  BY <1>3, <1>4, <1>5

LEMMA RoomIsSeenStep ==
  ASSUME TypeOK, RoomIsSeen, NEW h \in Handlers, RequestStep(h)
  PROVE  RoomIsSeen'
<1> DEFINE u == Cardinality(Unopened)
           v == Cardinality(Unopened')
           b == Cardinality(Buyers)
           c == Cardinality(Buyers')
           n == Cardinality(Handlers)
<1>1. u \in Nat /\ v \in Nat /\ b \in Nat /\ c \in Nat /\ n \in Nat /\ c <= n
  BY SizesOfPacks, SizesOfPacksNext
<1>2. u + b < MaxUnopenedPacks + n
  BY DEF RoomIsSeen
<1>3. CASE u < MaxUnopenedPacks /\ Unopened' = Unopened
  <2>1. v = u
    BY <1>3
  <2> QED
    BY <1>1, <1>3, <2>1 DEF RoomIsSeen
<1>4. CASE Buyers' \subseteq Buyers /\ Unopened' \subseteq Unopened
  <2>1. v <= u /\ c <= b
    BY <1>4, SizesOfPacks, FS_Subset
  <2> QED
    BY <1>1, <1>2, <2>1 DEF RoomIsSeen
<1>5. ASSUME h \in Buyers, Buyers' \subseteq Buyers \ {h},
             NEW p \in Packs, Unopened' \subseteq Unopened \cup {p}
      PROVE  RoomIsSeen'
  <2>1. IsFiniteSet(Buyers \ {h}) /\ Cardinality(Buyers \ {h}) = b - 1
    BY <1>5, SizesOfPacks, FS_RemoveElement
  <2>2. c <= b - 1
    BY <1>5, <2>1, FS_Subset
  <2>3. /\ IsFiniteSet(Unopened \cup {p})
        /\ Cardinality(Unopened \cup {p}) = IF p \in Unopened THEN u ELSE u + 1
    BY SizesOfPacks, FS_AddElement
  <2>4. v <= Cardinality(Unopened \cup {p})
    BY <1>5, <2>3, FS_Subset
  <2>5. v <= u + 1
    BY <1>1, <2>3, <2>4
  <2> QED
    BY <1>1, <1>2, <2>2, <2>5 DEF RoomIsSeen
<1> QED
  BY <1>3, <1>4, <1>5, PackSteps

----------------------------------------------------------------------------
(* Requests that do not overlap.                                           *)

Composed(b) ==
  /\ Size(b) <= MaxDeckSize
  /\ \A c \in Cards : b[c] <= MaxCopies
  /\ Total(b, Legendary) <= MaxLegendary
Savable(b, stock) == Composed(b) /\ \A c \in Cards : b[c] <= stock[c]
Joined(a, b) == [c \in Cards |-> a[c] + b[c]]

LEMMA TotalGrows ==
  ASSUME NEW S, IsFiniteSet(S), NEW a, NEW b, \A x \in S : a[x] \in Nat /\ b[x] \in Nat,
         \A x \in S : a[x] <= b[x]
  PROVE  Total(a, S) <= Total(b, S)
<1>1. Pairs(a, S) \subseteq Pairs(b, S)
  BY DEF Pairs
<1>2. IsFiniteSet(Pairs(b, S)) /\ Total(b, S) = Cardinality(Pairs(b, S))
  BY TotalIsNat
<1>3. Total(a, S) = Cardinality(Pairs(a, S))
  BY TotalIsNat
<1>4. Cardinality(Pairs(a, S)) <= Cardinality(Pairs(b, S))
  BY <1>1, <1>2, FS_Subset
<1> QED
  BY <1>2, <1>3, <1>4

\* A deck that may be saved may be saved with fewer cards.
LEMMA SmallerDeck ==
  ASSUME NEW a \in Bags, NEW b \in Bags, \A c \in Cards : a[c] <= b[c], Composed(b)
  PROVE  Composed(a)
<1>1. IsFiniteSet(Legendary)
  BY FS_Subset
<1>2. \A c \in Cards : a[c] \in Nat /\ b[c] \in Nat
  BY DEF Bags
<1>3. Total(a, Cards) <= Total(b, Cards) /\ Total(a, Legendary) <= Total(b, Legendary)
  BY <1>1, <1>2, TotalGrows
<1>4. /\ Total(a, Cards) \in Nat /\ Total(b, Cards) \in Nat
      /\ Total(a, Legendary) \in Nat /\ Total(b, Legendary) \in Nat
  BY <1>1, <1>2, TotalIsNat
<1>5. Total(a, Cards) <= MaxDeckSize /\ Total(a, Legendary) <= MaxLegendary
  BY <1>3, <1>4 DEF Composed, Size
<1>6. \A c \in Cards : a[c] <= MaxCopies
  BY <1>2 DEF Composed
<1> QED
  BY <1>5, <1>6 DEF Composed, Size

LEMMA EmptyDeck == Composed(Empty)
<1>1. \A c \in Cards : Empty[c] = 0
  BY DEF Empty
<1>2. Total(Empty, Cards) = 0 /\ Total(Empty, Legendary) = 0
  BY <1>1, TotalOfZeros
<1> QED
  BY <1>1, <1>2 DEF Composed, Size

LEMMA StarterDeckComposed == Composed(StarterDeck)
BY StarterCanBeSaved DEF Composed, Size

LEMMA JoinedBags ==
  ASSUME NEW a \in Bags, NEW b \in Bags
  PROVE  /\ Joined(a, b) \in Bags
         /\ Joined(Empty, b) = b /\ Joined(a, Empty) = a
         /\ \A c \in Cards : Joined(a, b)[c] = a[c] + b[c] /\ a[c] <= Joined(a, b)[c]
<1>1. \A c \in Cards : a[c] \in Nat /\ b[c] \in Nat
  BY DEF Bags
<1>2. Joined(a, b) \in Bags
  BY <1>1 DEF Joined, Bags
<1>3. Joined(Empty, b) = b
  <2>1. \A c \in Cards : 0 + b[c] = b[c]
    BY <1>1
  <2> QED
    BY <2>1 DEF Joined, Empty, Bags
<1>4. Joined(a, Empty) = a
  <2>1. \A c \in Cards : a[c] + 0 = a[c]
    BY <1>1
  <2> QED
    BY <2>1 DEF Joined, Empty, Bags
<1>5. \A c \in Cards : Joined(a, b)[c] = a[c] + b[c] /\ a[c] <= Joined(a, b)[c]
  BY <1>1 DEF Joined
<1> QED
  BY <1>2, <1>3, <1>4, <1>5

\* A card goes from the list of a request to its deck.
Plus(b, c) == [b EXCEPT ![c] = @ + 1]

LEMMA CardMoves ==
  ASSUME NEW a \in Bags, NEW b \in Bags, NEW c \in Cards, b[c] > 0
  PROVE  /\ Plus(a, c) \in Bags /\ Minus(b, c) \in Bags
         /\ Joined(Plus(a, c), Minus(b, c)) = Joined(a, b)
         /\ \A x \in Cards : Joined(a, Minus(b, c))[x] <= Joined(a, b)[x]
         /\ b = One(c) => Plus(a, c) = Joined(a, b)
<1>1. \A x \in Cards : a[x] \in Nat /\ b[x] \in Nat
  BY DEF Bags
<1>2. Plus(a, c) = [x \in Cards |-> IF x = c THEN a[x] + 1 ELSE a[x]]
  BY DEF Plus, Bags
<1>3. Minus(b, c) = [x \in Cards |-> IF x = c THEN b[x] - 1 ELSE b[x]]
  BY DEF Minus, Bags
<1>4. b[c] - 1 \in Nat /\ a[c] + 1 \in Nat
  BY <1>1
<1>5. Plus(a, c) \in Bags /\ Minus(b, c) \in Bags
  BY <1>1, <1>2, <1>3, <1>4 DEF Bags
<1>6. Joined(Plus(a, c), Minus(b, c)) = Joined(a, b)
  <2>1. \A x \in Cards : Plus(a, c)[x] + Minus(b, c)[x] = a[x] + b[x]
    BY <1>1, <1>2, <1>3
  <2> QED
    BY <2>1 DEF Joined
<1>7. \A x \in Cards : Joined(a, Minus(b, c))[x] <= Joined(a, b)[x]
  BY <1>1, <1>3 DEF Joined
<1>8. ASSUME b = One(c)
      PROVE  Plus(a, c) = Joined(a, b)
  <2>1. \A x \in Cards : b[x] = IF x = c THEN 1 ELSE 0
    BY <1>8 DEF One, Empty
  <2>2. \A x \in Cards : a[x] + 0 = a[x]
    BY <1>1
  <2> QED
    BY <1>2, <2>1, <2>2 DEF Joined
<1> QED
  BY <1>5, <1>6, <1>7, <1>8

LEMMA SmallerSavable ==
  ASSUME NEW a \in Bags, NEW b \in Bags, NEW stock \in Bags,
         \A c \in Cards : a[c] <= b[c], Savable(b, stock)
  PROVE  Savable(a, stock)
<1>1. \A c \in Cards : a[c] \in Nat /\ b[c] \in Nat /\ stock[c] \in Nat
  BY DEF Bags
<1>2. \A c \in Cards : a[c] <= stock[c]
  BY <1>1 DEF Savable
<1> QED
  BY <1>2, SmallerDeck DEF Savable

Quiet == ~overlapped /\ faults = 0

\* A deck has cards only while it has a row, so a new one is empty.
RowsOfDecks == decks \subseteq used /\ \A d \in Decks \ decks : deckCards[d] = Empty

OneAtATime == \A h, k \in Handlers : At(h, "idle") \/ At(k, "idle") \/ h = k

PacksOnce ==
  /\ \A p \in Packs : awarded[p] <= (IF packs[p] = "opened" THEN 1 ELSE 0)
  /\ Cardinality(Unopened) <= MaxUnopenedPacks

\* What a level-up or a disenchantment has taken from the copies it still takes
\* from the decks.
WillPrune(r, d) ==
  \/ r.at \in {"award", "pruneRead"}
  \/ r.at = "prune" /\ deckCards[d][r.card] <= quantity[r.card] + r.excess[d]
DecksAreComposed == \A d \in decks : Composed(deckCards[d])
DecksAreOwned ==
  \A d \in decks, c \in Cards :
    \/ deckCards[d][c] <= quantity[c]
    \/ \E h \in Handlers : request[h].card = c /\ WillPrune(request[h], d)

\* What a request has read is still so.
Justified(r) ==
  /\ r.at # "rollback"
  /\ r.at \in {"levelUpCrystals", "levelUpDeduct", "levelUpRow", "disenchantRow", "pruneRead"} =>
       r.quantity = quantity[r.card]
  /\ r.at = "award" => r.quantity - r.n = quantity[r.card]
  /\ r.at = "buyPack" => Cardinality(Unopened) < MaxUnopenedPacks
  /\ r.at = "openPack" => packs[r.pack] = "unopened"
  /\ r.at = "openCards" => packs[r.pack] = "opened" /\ awarded[r.pack] = 0
  /\ r.at \in {"saveVerify", "saveDelete", "createDeck"} => Savable(r.todo, quantity)
  /\ r.at \in {"saveInsert", "createInsert", "starterDeck"} =>
       Savable(Joined(deckCards[r.deck], r.todo), quantity)
  /\ r.at = "starterCards" =>
       /\ \A c \in Cards : StarterDeck[c] <= quantity[c] + r.todo[c]
       /\ r.n = StarterDecks
  /\ r.at = "starterDeck" =>
       /\ \A c \in Cards : StarterDeck[c] <= quantity[c]
       /\ r.n < StarterDecks /\ r.first \in decks /\ r.deck \in decks
       /\ IF r.first = r.deck THEN Joined(deckCards[r.deck], r.todo) = StarterDeck
          ELSE deckCards[r.first] = StarterDeck

QuietInv ==
  /\ RowsOfDecks
  /\ Quiet => /\ OneAtATime /\ PacksOnce /\ DecksAreComposed /\ DecksAreOwned
              /\ \A h \in Handlers : Justified(request[h])

\* The part of the invariant that is about the only request that runs.
Fits(r) ==
  \A d \in decks, c \in Cards :
    deckCards[d][c] <= quantity[c] \/ (r.card = c /\ WillPrune(r, d))
AllOwned == \A d \in decks, c \in Cards : deckCards[d][c] <= quantity[c]

Sound(h) ==
  PacksOnce /\ DecksAreComposed /\ Fits(request[h]) /\ Justified(request[h])
Alone(h) == TypeOK /\ RowsOfDecks /\ Sound(h)

Stock == <<quantity, packs, awarded, decks, deckCards>>
Prunes(step) == step \in {"award", "pruneRead", "prune"}

\* Most requests find every deck as it may be, and leave it so.
LEMMA OwnedWhileNoCopiesAreTaken ==
  ASSUME NEW h \in Handlers, Sound(h), ~Prunes(request[h].at)
  PROVE  AllOwned
BY DEF Sound, Fits, WillPrune, Prunes, AllOwned

LEMMA RequestOf ==
  ASSUME TypeOK, NEW h \in Handlers
  PROVE  /\ \A s : To(h, s) => request'[h] = s
         /\ \A step : Goto(h, step) => request'[h] = [request[h] EXCEPT !.at = step]
         /\ Return(h) => request'[h] = NoRequest
         /\ \A s : Start(h, s) => request[h].at = "idle" /\ request'[h] = s
BY DEF TypeOK, To, Goto, Return, Start, At

LEMMA StockStays ==
  ASSUME NEW h \in Handlers, PacksOnce, DecksAreComposed, UNCHANGED Stock
  PROVE  /\ PacksOnce' /\ DecksAreComposed'
         /\ AllOwned => AllOwned'
<1>1. Unopened' = Unopened
  BY DEF Unopened, Stock
<1>2. PacksOnce'
  BY <1>1 DEF PacksOnce, Stock
<1>3. DecksAreComposed'
  BY DEF DecksAreComposed, Composed, Size, Stock
<1> QED
  BY <1>2, <1>3 DEF AllOwned, Stock

LEMMA SoundNext ==
  ASSUME NEW h \in Handlers, PacksOnce', DecksAreComposed', AllOwned', Justified(request[h])'
  PROVE  Sound(h)'
BY DEF Sound, Fits, AllOwned

LEMMA ReturnIsSound ==
  ASSUME TypeOK, NEW h \in Handlers, Return(h), PacksOnce', DecksAreComposed', AllOwned'
  PROVE  Sound(h)'
<1>1. request'[h].at = "idle"
  BY RequestOf, BagTypes
<1>2. Justified(request[h])'
  BY <1>1 DEF Justified
<1> QED
  BY <1>2, SoundNext

\* A step that moves on and changes neither copies nor packs nor decks.
LEMMA MoveIsSound ==
  ASSUME NEW h \in Handlers, Alone(h), ~Prunes(request[h].at), UNCHANGED Stock,
         Return(h) \/ Justified(request[h])'
  PROVE  Sound(h)'
<1>1. PacksOnce' /\ DecksAreComposed' /\ AllOwned'
  BY OwnedWhileNoCopiesAreTaken, StockStays DEF Alone, Sound
<1> QED
  BY <1>1, SoundNext, ReturnIsSound DEF Alone

\* A step that takes copies: the decks are pruned later.
LEMMA TakingIsSound ==
  ASSUME NEW h \in Handlers, Alone(h), ~Prunes(request[h].at),
         UNCHANGED <<packs, awarded, decks, deckCards>>,
         NEW n \in Nat, quantity' = [quantity EXCEPT ![request[h].card] = @ - n],
         request'[h].card = request[h].card, request'[h].at \in {"award", "pruneRead"},
         Justified(request[h])'
  PROVE  Sound(h)'
<1>1. Unopened' = Unopened
  BY DEF Unopened
<1>2. PacksOnce'
  BY <1>1 DEF Alone, Sound, PacksOnce
<1>3. DecksAreComposed'
  BY DEF Alone, Sound, DecksAreComposed, Composed, Size
<1>4. AllOwned
  BY OwnedWhileNoCopiesAreTaken DEF Alone
<1>5. \A c \in Cards : c # request[h].card => quantity'[c] = quantity[c]
  BY DEF Alone, TypeOK, Bags
<1>6. Fits(request[h])'
  BY <1>4, <1>5 DEF AllOwned, Fits, WillPrune
<1> QED
  BY <1>2, <1>3, <1>6 DEF Sound

LEMMA LevelUpReadIsSound ==
  ASSUME NEW h \in Handlers, Alone(h), NEW c \in Cards, LevelUpRead(h, c)
  PROVE  Sound(h)'
<1> DEFINE t == [NoRequest EXCEPT !.at = "levelUpCrystals", !.card = c, !.level = level[c],
                                  !.quantity = quantity[c]]
<1>1. Start(h, t) /\ UNCHANGED Stock
  BY DEF LevelUpRead, Stock, cards, deckRows, earnings
<1>2. request[h].at = "idle" /\ request'[h] = t
  BY <1>1, RequestOf DEF Alone
<1>3. t.at = "levelUpCrystals" /\ t.card = c /\ t.quantity = quantity[c]
  BY BagTypes DEF Requests
<1>4. Justified(request[h])'
  BY <1>1, <1>2, <1>3 DEF Justified, Stock
<1> QED
  BY <1>1, <1>2, <1>4, MoveIsSound DEF Prunes

LEMMA DisenchantReadIsSound ==
  ASSUME NEW h \in Handlers, Alone(h), NEW c \in Cards, NEW n, DisenchantRead(h, c, n)
  PROVE  Sound(h)'
<1> DEFINE t == [NoRequest EXCEPT !.at = "disenchantRow", !.card = c, !.n = n,
                                  !.quantity = quantity[c]]
<1>1. Start(h, t) /\ UNCHANGED Stock
  BY DEF DisenchantRead, Stock, cards, deckRows, earnings
<1>2. request[h].at = "idle" /\ request'[h] = t
  BY <1>1, RequestOf DEF Alone
<1>3. t.at = "disenchantRow" /\ t.card = c /\ t.quantity = quantity[c]
  BY BagTypes DEF Requests
<1>4. Justified(request[h])'
  BY <1>1, <1>2, <1>3 DEF Justified, Stock
<1> QED
  BY <1>1, <1>2, <1>4, MoveIsSound DEF Prunes

\* The steps between the reading and the row.
LEMMA PayingIsSound ==
  ASSUME NEW h \in Handlers, Alone(h), UNCHANGED Stock,
         \/ request[h].at = "levelUpCrystals" /\ Goto(h, "levelUpDeduct")
         \/ request[h].at = "levelUpDeduct" /\ Goto(h, "levelUpRow")
         \/ request[h].at = "levelUpRow" /\ Goto(h, "refund")
         \/ request[h].at \in {"levelUpCrystals", "levelUpDeduct", "refund"} /\ Return(h)
  PROVE  Sound(h)'
<1> DEFINE r == request[h]
<1>1. TypeOK /\ Justified(r) /\ r \in Requests
  BY RequestFields DEF Alone, Sound
<1>2. r.at \in {"levelUpCrystals", "levelUpDeduct"} => r.quantity = quantity[r.card]
  BY <1>1 DEF Justified
<1>3. ASSUME NEW step \in {"levelUpDeduct", "levelUpRow", "refund"}, Goto(h, step),
             step # "refund" => r.quantity = quantity[r.card]
      PROVE  Justified(request[h])'
  <2>1. request'[h] = [r EXCEPT !.at = step]
    BY <1>1, <1>3, RequestOf
  <2>2. request'[h].at = step /\ request'[h].card = r.card /\ request'[h].quantity = r.quantity
    BY <1>1, <2>1 DEF Requests
  <2> QED
    BY <1>3, <2>2 DEF Justified, Stock
<1> QED
  BY <1>2, <1>3, MoveIsSound DEF Prunes

LEMMA LevelUpRowIsSound ==
  ASSUME NEW h \in Handlers, Alone(h), ~Fails, LevelUpRow(h)
  PROVE  Sound(h)'
<1> DEFINE r == request[h]
<1>1. /\ TypeOK /\ Justified(r) /\ r \in Requests /\ r.at = "levelUpRow"
      /\ r.card \in Cards /\ Copies(r) \in Nat /\ quantity \in [Cards -> Nat]
  BY RequestFields, Naturals DEF Alone, Sound, LevelUpRow, At, TypeOK, Bags
<1>2. UNCHANGED <<packs, awarded, decks, deckCards>>
  BY DEF LevelUpRow, deckRows
<1>3. CASE Goto(h, "refund") /\ UNCHANGED cards
  <2>1. request'[h] = [r EXCEPT !.at = "refund"]
    BY <1>1, <1>3, RequestOf
  <2>2. Justified(request[h])'
    BY <1>1, <2>1 DEF Justified, Requests
  <2>3. UNCHANGED Stock
    BY <1>2, <1>3 DEF Stock, cards
  <2> QED
    BY <1>1, <2>2, <2>3, MoveIsSound DEF Prunes
<1>4. CASE /\ quantity' = [quantity EXCEPT ![r.card] = @ - Copies(r)]
           /\ request' = [request EXCEPT ![h].at = "pruneRead", ![h].quantity = @ - Copies(r)]
  <2>1. request'[h] = [r EXCEPT !.at = "pruneRead", !.quantity = @ - Copies(r)]
    BY <1>1, <1>4 DEF TypeOK
  <2>2. /\ request'[h].at = "pruneRead" /\ request'[h].card = r.card
        /\ request'[h].quantity = r.quantity - Copies(r)
    BY <1>1, <2>1 DEF Requests
  <2>3. r.quantity = quantity[r.card]
    BY <1>1 DEF Justified
  <2>4. quantity'[r.card] = quantity[r.card] - Copies(r)
    BY <1>1, <1>4
  <2>5. Justified(request[h])'
    BY <2>2, <2>3, <2>4 DEF Justified
  <2> QED
    BY <1>1, <1>2, <1>4, <2>2, <2>5, TakingIsSound DEF Prunes
<1> QED
  BY <1>3, <1>4 DEF LevelUpRow

LEMMA DisenchantRowIsSound ==
  ASSUME NEW h \in Handlers, Alone(h), ~Fails, DisenchantRow(h)
  PROVE  Sound(h)'
<1> DEFINE r == request[h]
<1>1. /\ TypeOK /\ Justified(r) /\ r \in Requests /\ r.at = "disenchantRow"
      /\ r.card \in Cards /\ r.n \in Nat /\ quantity \in [Cards -> Nat]
  BY RequestFields DEF Alone, Sound, DisenchantRow, At, TypeOK, Bags
<1>2. UNCHANGED <<packs, awarded, decks, deckCards>>
  BY DEF DisenchantRow, deckRows
<1>3. CASE Return(h) /\ UNCHANGED quantity
  BY <1>1, <1>2, <1>3, MoveIsSound DEF Prunes, Stock
<1>4. CASE quantity' = [quantity EXCEPT ![r.card] = @ - r.n] /\ Goto(h, "award")
  <2>1. request'[h] = [r EXCEPT !.at = "award"]
    BY <1>1, <1>4, RequestOf
  <2>2. /\ request'[h].at = "award" /\ request'[h].card = r.card
        /\ request'[h].quantity = r.quantity /\ request'[h].n = r.n
    BY <1>1, <2>1 DEF Requests
  <2>3. r.quantity = quantity[r.card]
    BY <1>1 DEF Justified
  <2>4. quantity'[r.card] = quantity[r.card] - r.n
    BY <1>1, <1>4
  <2>5. Justified(request[h])'
    BY <2>2, <2>3, <2>4 DEF Justified
  <2> QED
    BY <1>1, <1>2, <1>4, <2>2, <2>5, TakingIsSound DEF Prunes
<1> QED
  BY <1>3, <1>4 DEF DisenchantRow

LEMMA AwardIsSound ==
  ASSUME NEW h \in Handlers, Alone(h), ~Fails, Award(h)
  PROVE  Sound(h)'
<1> DEFINE r == request[h]
<1>1. /\ TypeOK /\ Justified(r) /\ Fits(r) /\ r \in Requests /\ r.at = "award"
      /\ PacksOnce /\ DecksAreComposed
  BY RequestFields DEF Alone, Sound, Award, At
<1>2. UNCHANGED Stock
  BY DEF Award, cards, deckRows, Stock
<1>3. request'[h] = [r EXCEPT !.at = "pruneRead", !.quantity = @ - r.n]
  BY <1>1 DEF Award, TypeOK
<1>4. /\ request'[h].at = "pruneRead" /\ request'[h].card = r.card
      /\ request'[h].quantity = r.quantity - r.n
  BY <1>1, <1>3 DEF Requests
<1>5. Justified(request[h])'
  BY <1>1, <1>2, <1>4 DEF Justified, Stock
<1>6. Fits(request[h])'
  BY <1>1, <1>2, <1>4 DEF Fits, WillPrune, Stock
<1> QED
  BY <1>1, <1>2, <1>5, <1>6, StockStays DEF Sound

\* What a handler believes to be left is left, so each deck exceeds it by as much
\* as is removed.
LEMMA PruneReadIsSound ==
  ASSUME NEW h \in Handlers, Alone(h), ~Fails, PruneRead(h)
  PROVE  Sound(h)'
<1> DEFINE r == request[h]
<1>1. /\ TypeOK /\ Justified(r) /\ Fits(r) /\ r \in Requests /\ r.at = "pruneRead"
      /\ PacksOnce /\ DecksAreComposed /\ r.card \in Cards
  BY RequestFields DEF Alone, Sound, PruneRead, At
<1>2. UNCHANGED Stock
  BY DEF PruneRead, cards, deckRows, history, Stock
<1>3. \A d \in Decks : deckCards[d][r.card] \in Nat
  BY <1>1 DEF TypeOK, Bags
<1>4. r.quantity = quantity[r.card] /\ quantity[r.card] \in Nat
  BY <1>1 DEF Justified, TypeOK, Bags
<1>5. /\ Excess(r) \in [Decks -> Nat]
      /\ \A d \in Decks : deckCards[d][r.card] <= quantity[r.card] + Excess(r)[d]
  <2>1. ASSUME NEW d \in Decks
        PROVE  /\ Surplus(deckCards[d][r.card], r.quantity) \in Nat
               /\ deckCards[d][r.card] <= quantity[r.card] + Surplus(deckCards[d][r.card], r.quantity)
    BY <1>3, <1>4 DEF Surplus
  <2> QED
    BY <2>1 DEF Excess
<1>6. PacksOnce' /\ DecksAreComposed'
  BY <1>1, <1>2, StockStays
<1>7. CASE request' = [request EXCEPT ![h].at = "prune", ![h].excess = Excess(r)]
  <2>1. request'[h] = [r EXCEPT !.at = "prune", !.excess = Excess(r)]
    BY <1>1, <1>7 DEF TypeOK
  <2>2. request'[h].at = "prune" /\ request'[h].card = r.card /\ request'[h].excess = Excess(r)
    BY <1>1, <2>1 DEF Requests
  <2>3. Justified(request[h])'
    BY <2>2 DEF Justified
  <2>4. ASSUME NEW d \in decks, NEW c \in Cards
        PROVE  deckCards[d][c] <= quantity[c] \/ (r.card = c /\ WillPrune(request[h], d)')
    <3>1. d \in Decks
      BY <1>1 DEF TypeOK
    <3>2. WillPrune(request[h], d)'
      BY <1>2, <1>5, <2>2, <3>1 DEF WillPrune, Stock
    <3> QED
      BY <1>1, <3>2 DEF Fits
  <2>5. Fits(request[h])'
    BY <1>2, <2>2, <2>4 DEF Fits, Stock
  <2> QED
    BY <1>6, <2>3, <2>5 DEF Sound
<1>8. CASE Excess(r) = NoExcess /\ Return(h)
  <2>1. \A d \in Decks : deckCards[d][r.card] <= quantity[r.card]
    BY <1>3, <1>4, <1>5, <1>8 DEF NoExcess
  <2>2. AllOwned
    BY <1>1, <2>1 DEF Fits, AllOwned, TypeOK
  <2>3. AllOwned'
    BY <1>1, <1>2, <2>2, StockStays
  <2> QED
    BY <1>1, <1>6, <1>8, <2>3, ReturnIsSound
<1> QED
  BY <1>7, <1>8 DEF PruneRead

LEMMA PruneIsSound ==
  ASSUME NEW h \in Handlers, Alone(h), ~Fails, NEW d \in Decks, Prune(h, d)
  PROVE  Sound(h)'
<1> DEFINE r == request[h]
           left == Surplus(deckCards[d][r.card], r.excess[d])
           rest == [r.excess EXCEPT ![d] = 0]
<1>1. /\ TypeOK /\ Fits(r) /\ r \in Requests /\ r.at = "prune"
      /\ PacksOnce /\ DecksAreComposed /\ r.card \in Cards /\ r.excess \in [Decks -> Nat]
  BY RequestFields DEF Alone, Sound, Prune, At
<1>2. /\ deckCards \in [Decks -> Bags] /\ decks \subseteq Decks
      /\ \A x \in Decks, c \in Cards : deckCards[x][c] \in Nat /\ quantity[c] \in Nat
  BY <1>1 DEF TypeOK, Bags
<1>3. /\ UNCHANGED <<quantity, packs, awarded, decks>>
      /\ deckCards' = [deckCards EXCEPT ![d][r.card] = left]
  BY DEF Prune, cards, history
<1>4. left \in Nat /\ left <= deckCards[d][r.card]
  BY <1>1, <1>2 DEF Surplus
<1>5. deckCards[d][r.card] <= quantity[r.card] + r.excess[d] => left <= quantity[r.card]
  <2>1. deckCards[d][r.card] \in Nat /\ quantity[r.card] \in Nat /\ r.excess[d] \in Nat
    BY <1>1, <1>2
  <2> QED
    BY <2>1 DEF Surplus
<1> HIDE DEF left
<1>6. \A x \in Decks, c \in Cards :
        deckCards'[x][c] = IF x = d /\ c = r.card THEN left ELSE deckCards[x][c]
  BY <1>1, <1>2, <1>3 DEF Bags
<1>7. PacksOnce'
  <2>1. Unopened' = Unopened
    BY <1>3 DEF Unopened
  <2> QED
    BY <1>1, <1>3, <2>1 DEF PacksOnce
<1>8. DecksAreComposed'
  <2>1. ASSUME NEW x \in decks
        PROVE  Composed(deckCards'[x])
    <3>1. deckCards'[x] \in Bags /\ deckCards[x] \in Bags
      BY <1>1, <1>2, <1>3, <1>4 DEF Bags
    <3>2. \A c \in Cards : deckCards'[x][c] <= deckCards[x][c]
      BY <1>2, <1>4, <1>6
    <3>3. Composed(deckCards[x])
      BY <1>1 DEF DecksAreComposed
    <3> QED
      BY <3>1, <3>2, <3>3, SmallerDeck
  <2> QED
    BY <1>3, <2>1 DEF DecksAreComposed, Composed, Size
<1>9. \A x \in decks :
        deckCards'[x][r.card] <= quantity[r.card] + rest[x]
  <2> SUFFICES ASSUME NEW x \in decks
               PROVE  deckCards'[x][r.card] <= quantity[r.card] + rest[x]
    OBVIOUS
  <2>1. /\ x \in Decks /\ deckCards[x][r.card] \in Nat /\ quantity[r.card] \in Nat
        /\ r.excess[x] \in Nat
    BY <1>1, <1>2
  <2>2. deckCards[x][r.card] <= quantity[r.card] + r.excess[x]
    BY <1>1, <2>1 DEF Fits, WillPrune
  <2>3. CASE x = d
    BY <1>1, <1>4, <1>5, <1>6, <2>1, <2>2, <2>3
  <2>4. CASE x # d
    BY <1>1, <1>6, <2>1, <2>2, <2>4
  <2> QED
    BY <2>3, <2>4
<1>10. \A x \in decks, c \in Cards : c # r.card => deckCards'[x][c] <= quantity[c]
  BY <1>1, <1>2, <1>6 DEF Fits
<1>11. CASE rest = NoExcess /\ Return(h)
  <2>1. AllOwned'
    BY <1>1, <1>2, <1>3, <1>9, <1>10, <1>11 DEF AllOwned, NoExcess
  <2> QED
    BY <1>1, <1>7, <1>8, <1>11, <2>1, ReturnIsSound
<1>12. CASE request' = [request EXCEPT ![h].excess = rest]
  <2>1. request'[h] = [r EXCEPT !.excess = rest]
    BY <1>1, <1>12 DEF TypeOK
  <2>2. request'[h].at = "prune" /\ request'[h].card = r.card /\ request'[h].excess = rest
    BY <1>1, <2>1 DEF Requests
  <2>3. Justified(request[h])'
    BY <2>2 DEF Justified
  <2>4. Fits(request[h])'
    BY <1>3, <1>9, <1>10, <2>2 DEF Fits, WillPrune
  <2> QED
    BY <1>7, <1>8, <2>3, <2>4 DEF Sound
<1> QED
  BY <1>11, <1>12 DEF Prune

LEMMA CardStepIsSound ==
  ASSUME NEW h \in Handlers, Alone(h), ~Fails, CardStep(h)
  PROVE  Sound(h)'
<1>1. ASSUME LevelUpCrystals(h) \/ LevelUpDeduct(h) \/ Refund(h)
      PROVE  Sound(h)'
  <2>1. UNCHANGED Stock
    BY <1>1 DEF LevelUpCrystals, LevelUpDeduct, Refund, Stock, cards, deckRows, history
  <2> QED
    BY <1>1, <2>1, PayingIsSound DEF LevelUpCrystals, LevelUpDeduct, Refund, At
<1>2. ~Rollback(h)
  BY DEF Rollback, At, Alone, Sound, Justified
<1> QED
  BY <1>1, <1>2, LevelUpReadIsSound, LevelUpRowIsSound, DisenchantReadIsSound,
     DisenchantRowIsSound, AwardIsSound, PruneReadIsSound, PruneIsSound DEF CardStep

\* A request that starts and has read what it needs.
LEMMA StartIsSound ==
  ASSUME NEW h \in Handlers, Alone(h), UNCHANGED Stock, NEW s, Start(h, s), Justified(s)
  PROVE  Sound(h)'
<1>1. request[h].at = "idle" /\ request'[h] = s
  BY RequestOf DEF Alone
<1>2. Unopened' = Unopened
  BY DEF Unopened, Stock
<1>3. Justified(request[h])'
  BY <1>1, <1>2 DEF Justified, Savable, Composed, Size, Joined, Stock
<1> QED
  BY <1>1, <1>3, MoveIsSound DEF Prunes

LEMMA PackStepIsSound ==
  ASSUME NEW h \in Handlers, Alone(h), ~Fails, PackStep(h)
  PROVE  Sound(h)'
<1> DEFINE r == request[h]
<1>1. /\ TypeOK /\ Justified(r) /\ r \in Requests /\ PacksOnce /\ DecksAreComposed
      /\ r.pack \in Packs /\ r.todo \in Bags
      /\ packs \in [Packs -> {"none", "unopened", "opened"}]
      /\ awarded \in [Packs -> Nat] /\ quantity \in [Cards -> Nat]
      /\ \A x \in Decks, c \in Cards : deckCards[x][c] \in Nat
      /\ decks \subseteq Decks
  BY RequestFields DEF Alone, Sound, TypeOK, Bags
<1>2. ~Prunes(r.at) => AllOwned
  BY OwnedWhileNoCopiesAreTaken DEF Alone
<1>3. CASE BuyCount(h)
  <2> DEFINE t == [NoRequest EXCEPT !.at = "buyPack"]
  <2>1. Start(h, t) /\ UNCHANGED Stock /\ Cardinality(Unopened) < MaxUnopenedPacks
    BY <1>3 DEF BuyCount, Stock, cards, deckRows, earnings
  <2>2. t.at = "buyPack"
    BY BagTypes DEF Requests
  <2>3. Justified(t)
    BY <2>1, <2>2 DEF Justified
  <2> QED
    BY <2>1, <2>3, StartIsSound
<1>4. ASSUME NEW p \in Packs, BuyPack(h, p)
      PROVE  Sound(h)'
  <2>1. /\ r.at = "buyPack" /\ packs[p] = "none" /\ packs' = [packs EXCEPT ![p] = "unopened"]
        /\ UNCHANGED <<quantity, awarded, decks, deckCards>> /\ Return(h)
    BY <1>4 DEF BuyPack, At, cards, deckRows, history
  <2>2. Unopened' = Unopened \cup {p} /\ p \notin Unopened
    BY <1>1, <2>1 DEF Unopened
  <2>3. Cardinality(Unopened') = Cardinality(Unopened) + 1
    BY <2>2, SizesOfPacks, FS_AddElement
  <2>4. Cardinality(Unopened) < MaxUnopenedPacks
    BY <1>1, <2>1 DEF Justified
  <2>5. Cardinality(Unopened') <= MaxUnopenedPacks
    BY <2>3, <2>4, SizesOfPacks
  <2>6. \A q \in Packs : awarded'[q] <= IF packs'[q] = "opened" THEN 1 ELSE 0
    BY <1>1, <2>1 DEF PacksOnce
  <2>7. PacksOnce'
    BY <2>5, <2>6 DEF PacksOnce
  <2>8. DecksAreComposed' /\ AllOwned'
    BY <1>1, <1>2, <2>1 DEF DecksAreComposed, Composed, Size, AllOwned, Prunes
  <2> QED
    BY <1>1, <2>1, <2>7, <2>8, ReturnIsSound
<1>5. ASSUME NEW p \in Packs, NEW content \in PackContents, OpenRead(h, p, content)
      PROVE  Sound(h)'
  <2> DEFINE t == [NoRequest EXCEPT !.at = "openPack", !.pack = p, !.todo = content]
  <2>1. Start(h, t) /\ UNCHANGED Stock /\ packs[p] = "unopened"
    BY <1>5 DEF OpenRead, Stock, cards, deckRows, earnings
  <2>2. t.at = "openPack" /\ t.pack = p
    BY BagTypes DEF Requests
  <2>3. Justified(t)
    BY <2>1, <2>2 DEF Justified
  <2> QED
    BY <2>1, <2>3, StartIsSound
<1>6. CASE OpenPack(h)
  <2>1. /\ r.at = "openPack" /\ packs' = [packs EXCEPT ![r.pack] = "opened"]
        /\ UNCHANGED <<quantity, awarded, decks, deckCards>> /\ Goto(h, "openCards")
    BY <1>6 DEF OpenPack, At, cards, deckRows, history
  <2>2. packs[r.pack] = "unopened"
    BY <1>1, <2>1 DEF Justified
  <2>3. Unopened' \subseteq Unopened
    BY <1>1, <2>1 DEF Unopened
  <2>4. Cardinality(Unopened') <= MaxUnopenedPacks
    <3>1. Cardinality(Unopened') <= Cardinality(Unopened)
      BY <2>3, SizesOfPacks, FS_Subset
    <3> QED
      BY <1>1, <3>1, SizesOfPacks, SizesOfPacksNext DEF PacksOnce
  <2>5. awarded[r.pack] = 0
    BY <1>1, <2>2 DEF PacksOnce
  <2>6. \A q \in Packs : awarded'[q] <= IF packs'[q] = "opened" THEN 1 ELSE 0
    BY <1>1, <2>1, <2>5 DEF PacksOnce
  <2>7. PacksOnce'
    BY <2>4, <2>6 DEF PacksOnce
  <2>8. DecksAreComposed' /\ AllOwned'
    BY <1>1, <1>2, <2>1 DEF DecksAreComposed, Composed, Size, AllOwned, Prunes
  <2>9. request'[h] = [r EXCEPT !.at = "openCards"]
    BY <1>1, <2>1, RequestOf
  <2>10. request'[h].at = "openCards" /\ request'[h].pack = r.pack
    BY <1>1, <2>9 DEF Requests
  <2>11. Justified(request[h])'
    BY <1>1, <2>1, <2>5, <2>10 DEF Justified
  <2> QED
    BY <2>7, <2>8, <2>11, SoundNext
<1>7. ASSUME NEW c \in Cards, OpenCard(h, c)
      PROVE  Sound(h)'
  <2>1. /\ r.at = "openCards" /\ quantity' = [quantity EXCEPT ![c] = @ + 1]
        /\ UNCHANGED <<packs, awarded, decks, deckCards>>
        /\ request' = [request EXCEPT ![h].todo[c] = @ - 1]
    BY <1>7 DEF OpenCard, At, deckRows, history
  <2>2. request'[h].at = "openCards" /\ request'[h].pack = r.pack
    BY <1>1, <2>1 DEF TypeOK, Requests
  <2>3. Justified(request[h])'
    BY <1>1, <2>1, <2>2 DEF Justified
  <2>4. PacksOnce'
    <3>1. Unopened' = Unopened
      BY <2>1 DEF Unopened
    <3> QED
      BY <1>1, <2>1, <3>1 DEF PacksOnce
  <2>5. DecksAreComposed'
    BY <1>1, <2>1 DEF DecksAreComposed, Composed, Size
  <2>6. AllOwned'
    BY <1>1, <1>2, <2>1 DEF AllOwned, Prunes
  <2> QED
    BY <2>3, <2>4, <2>5, <2>6, SoundNext
<1>8. CASE OpenAward(h)
  <2>1. /\ r.at = "openCards" /\ awarded' = [awarded EXCEPT ![r.pack] = @ + 1]
        /\ UNCHANGED <<quantity, packs, decks, deckCards>> /\ Return(h)
    BY <1>8 DEF OpenAward, At, cards, deckRows
  <2>2. packs[r.pack] = "opened" /\ awarded[r.pack] = 0
    BY <1>1, <2>1 DEF Justified
  <2>3. PacksOnce'
    <3>1. Unopened' = Unopened
      BY <2>1 DEF Unopened
    <3>2. \A q \in Packs : awarded'[q] <= IF packs'[q] = "opened" THEN 1 ELSE 0
      BY <1>1, <2>1, <2>2 DEF PacksOnce
    <3> QED
      BY <1>1, <3>1, <3>2 DEF PacksOnce
  <2>4. DecksAreComposed' /\ AllOwned'
    BY <1>1, <1>2, <2>1 DEF DecksAreComposed, Composed, Size, AllOwned, Prunes
  <2> QED
    BY <1>1, <2>1, <2>3, <2>4, ReturnIsSound
<1> QED
  BY <1>3, <1>4, <1>5, <1>6, <1>7, <1>8 DEF PackStep

Inserts(step) == step \in {"saveInsert", "createInsert", "starterDeck"}

\* A deck together with the cards that are still to be inserted may be saved, so
\* it may after each of them.
LEMMA InsertedCard ==
  ASSUME NEW h \in Handlers, Alone(h), Inserts(request[h].at),
         NEW c \in Cards, request[h].todo[c] > 0,
         UNCHANGED <<quantity, packs, awarded, decks>>,
         Insert(request[h].deck, c) \/ UNCHANGED deckCards
  PROVE  /\ PacksOnce' /\ DecksAreComposed' /\ AllOwned'
         /\ Savable(Joined(deckCards'[request[h].deck], Minus(request[h].todo, c)), quantity)
         /\ \A d \in Decks : d # request[h].deck => deckCards'[d] = deckCards[d]
         /\ Insert(request[h].deck, c) =>
              Joined(deckCards'[request[h].deck], Minus(request[h].todo, c))
                = Joined(deckCards[request[h].deck], request[h].todo)
<1> DEFINE r == request[h]
           a == deckCards[r.deck]
           b == r.todo
<1>1. /\ TypeOK /\ Justified(r) /\ PacksOnce /\ DecksAreComposed
      /\ r.deck \in Decks /\ b \in Bags /\ a \in Bags /\ quantity \in Bags
      /\ decks \subseteq Decks /\ deckCards \in [Decks -> Bags]
  BY RequestFields DEF Alone, Sound, TypeOK
<1>2. AllOwned
  BY OwnedWhileNoCopiesAreTaken DEF Alone, Inserts, Prunes
<1>3. Savable(Joined(a, b), quantity)
  BY <1>1 DEF Justified, Inserts
<1>4. PacksOnce'
  <2>1. Unopened' = Unopened
    BY DEF Unopened
  <2> QED
    BY <1>1, <2>1 DEF PacksOnce
<1> HIDE DEF a, b
<1>5. b[c] > 0
  BY DEF b
<1>6. /\ Plus(a, c) \in Bags /\ Minus(b, c) \in Bags
      /\ Joined(Plus(a, c), Minus(b, c)) = Joined(a, b)
      /\ \A x \in Cards : Joined(a, Minus(b, c))[x] <= Joined(a, b)[x]
  BY <1>1, <1>5, CardMoves
<1>7. Joined(a, b) \in Bags /\ Joined(a, Minus(b, c)) \in Bags
  BY <1>1, <1>6, JoinedBags
<1>8. CASE UNCHANGED deckCards /\ ~Insert(r.deck, c)
  <2>1. Savable(Joined(a, Minus(b, c)), quantity)
    BY <1>1, <1>3, <1>6, <1>7, SmallerSavable
  <2>2. DecksAreComposed' /\ AllOwned'
    BY <1>1, <1>2, <1>8 DEF DecksAreComposed, Composed, Size, AllOwned
  <2> QED
    BY <1>4, <1>8, <2>1, <2>2 DEF a, b
<1>9. CASE Insert(r.deck, c)
  <2>1. deckCards' = [deckCards EXCEPT ![r.deck] = Plus(a, c)]
    BY <1>1, <1>9 DEF Insert, Plus, a
  <2>2. \A d \in Decks : deckCards'[d] = IF d = r.deck THEN Plus(a, c) ELSE deckCards[d]
    BY <1>1, <2>1
  <2>3. \A x \in Cards : Plus(a, c)[x] <= Joined(a, b)[x]
    BY <1>6, JoinedBags
  <2>4. Savable(Plus(a, c), quantity)
    BY <1>1, <1>3, <1>6, <1>7, <2>3, SmallerSavable
  <2>5. DecksAreComposed'
    <3>1. \A d \in decks : Composed(deckCards'[d])
      BY <1>1, <2>2, <2>4 DEF DecksAreComposed, Savable
    <3> QED
      BY <3>1 DEF DecksAreComposed, Composed, Size
  <2>6. AllOwned'
    BY <1>1, <1>2, <2>2, <2>4 DEF AllOwned, Savable
  <2>7. deckCards'[r.deck] = Plus(a, c)
    BY <1>1, <2>2
  <2>8. Joined(deckCards'[r.deck], Minus(b, c)) = Joined(a, b)
    BY <1>6, <2>7
  <2>9. Savable(Joined(deckCards'[r.deck], Minus(b, c)), quantity)
    BY <1>3, <2>8
  <2> QED
    BY <1>4, <2>2, <2>5, <2>6, <2>8, <2>9 DEF a, b
<1> QED
  BY <1>8, <1>9

\* A new deck has no cards.
LEMMA NewDeck ==
  ASSUME NEW h \in Handlers, Alone(h), ~Prunes(request[h].at), NEW d \in Decks, d \notin used,
         decks' = decks \cup {d}, UNCHANGED <<quantity, packs, awarded, deckCards>>
  PROVE  /\ PacksOnce' /\ DecksAreComposed' /\ AllOwned'
         /\ d \notin decks /\ deckCards[d] = Empty
<1>1. /\ PacksOnce /\ DecksAreComposed /\ d \notin decks /\ deckCards[d] = Empty
      /\ quantity \in [Cards -> Nat]
  BY DEF Alone, Sound, RowsOfDecks, TypeOK, Bags
<1>2. AllOwned
  BY OwnedWhileNoCopiesAreTaken DEF Alone
<1>3. PacksOnce'
  <2>1. Unopened' = Unopened
    BY DEF Unopened
  <2> QED
    BY <1>1, <2>1 DEF PacksOnce
<1>4. DecksAreComposed'
  <2>1. \A x \in decks' : Composed(deckCards[x])
    BY <1>1, EmptyDeck DEF DecksAreComposed
  <2> QED
    BY <2>1 DEF DecksAreComposed, Composed, Size
<1>5. AllOwned'
  <2>1. \A c \in Cards : deckCards[d][c] <= quantity[c]
    BY <1>1 DEF Empty
  <2> QED
    BY <1>2, <2>1 DEF AllOwned
<1> QED
  BY <1>1, <1>3, <1>4, <1>5

LEMMA ValidIsSavable ==
  ASSUME NEW b, ValidDeck(b)
  PROVE  Savable(b, quantity)
BY DEF ValidDeck, Savable, Composed

LEMMA DeckReadIsSound ==
  ASSUME NEW h \in Handlers, Alone(h), NEW d, NEW body, NEW b,
         SaveRead(h, d, body, b) \/ CreateRead(h, b) \/ SetActiveRead(h, d)
  PROVE  Sound(h)'
<1>1. UNCHANGED Stock
  BY DEF SaveRead, CreateRead, SetActiveRead, Stock, cards, deckRows, earnings
<1>2. CASE SaveRead(h, d, body, b)
  <2> DEFINE t == [NoRequest EXCEPT !.at = "saveVerify", !.deck = d, !.checked = body, !.todo = b]
  <2>1. Start(h, t) /\ ValidDeck(b)
    BY <1>2 DEF SaveRead
  <2>2. t.at = "saveVerify" /\ t.todo = b
    BY BagTypes DEF Requests
  <2>3. Justified(t)
    BY <2>1, <2>2, ValidIsSavable DEF Justified
  <2> QED
    BY <1>1, <2>1, <2>3, StartIsSound
<1>3. CASE CreateRead(h, b)
  <2> DEFINE t == [NoRequest EXCEPT !.at = "createDeck", !.todo = b]
  <2>1. Start(h, t) /\ ValidDeck(b)
    BY <1>3 DEF CreateRead
  <2>2. t.at = "createDeck" /\ t.todo = b
    BY BagTypes DEF Requests
  <2>3. Justified(t)
    BY <2>1, <2>2, ValidIsSavable DEF Justified
  <2> QED
    BY <1>1, <2>1, <2>3, StartIsSound
<1>4. CASE SetActiveRead(h, d)
  <2> DEFINE t == [NoRequest EXCEPT !.at = "setActive", !.deck = d]
  <2>1. Start(h, t)
    BY <1>4 DEF SetActiveRead
  <2>2. t.at = "setActive"
    BY BagTypes DEF Requests
  <2>3. Justified(t)
    BY <2>2 DEF Justified
  <2> QED
    BY <1>1, <2>1, <2>3, StartIsSound
<1> QED
  BY <1>2, <1>3, <1>4

LEMMA DeckStepIsSound ==
  ASSUME NEW h \in Handlers, Alone(h), ~Fails, DeckStep(h)
  PROVE  Sound(h)'
<1> DEFINE r == request[h]
<1>1. /\ TypeOK /\ Justified(r) /\ r \in Requests /\ PacksOnce /\ DecksAreComposed
      /\ r.deck \in Decks /\ r.todo \in Bags /\ quantity \in Bags
      /\ deckCards \in [Decks -> Bags] /\ decks \subseteq Decks
  BY RequestFields DEF Alone, Sound, TypeOK
<1>2. CASE SaveVerify(h)
  <2>1. r.at = "saveVerify" /\ UNCHANGED Stock
    BY <1>2 DEF SaveVerify, At, Stock, cards, deckRows, history
  <2>2. CASE Return(h)
    BY <2>1, <2>2, MoveIsSound DEF Prunes
  <2>3. CASE request' = [request EXCEPT ![h].at = "saveDelete", ![h].checked = r.deck]
    <3>1. request'[h].at = "saveDelete" /\ request'[h].todo = r.todo
      BY <1>1, <2>3 DEF TypeOK, Requests
    <3>2. Justified(request[h])'
      BY <1>1, <2>1, <3>1 DEF Justified, Savable, Composed, Size, Stock
    <3> QED
      BY <2>1, <3>2, MoveIsSound DEF Prunes
  <2> QED
    BY <1>2, <2>2, <2>3 DEF SaveVerify
<1>3. CASE SaveDelete(h)
  <2>1. /\ r.at = "saveDelete" /\ UNCHANGED <<quantity, packs, awarded, decks>>
        /\ deckCards' = [deckCards EXCEPT ![r.deck] = Empty]
        /\ Return(h) \/ Goto(h, "saveInsert")
    BY <1>3 DEF SaveDelete, At, cards, history
  <2>2. \A d \in Decks : deckCards'[d] = IF d = r.deck THEN Empty ELSE deckCards[d]
    BY <1>1, <2>1
  <2>3. AllOwned
    BY <2>1, OwnedWhileNoCopiesAreTaken DEF Alone, Prunes
  <2>4. PacksOnce'
    <3>1. Unopened' = Unopened
      BY <2>1 DEF Unopened
    <3> QED
      BY <1>1, <2>1, <3>1 DEF PacksOnce
  <2>5. DecksAreComposed'
    <3>1. \A d \in decks : Composed(deckCards'[d])
      BY <1>1, <2>2, EmptyDeck DEF DecksAreComposed
    <3> QED
      BY <2>1, <3>1 DEF DecksAreComposed, Composed, Size
  <2>6. AllOwned'
    <3>1. \A c \in Cards : Empty[c] <= quantity[c]
      BY <1>1 DEF Empty, Bags
    <3> QED
      BY <1>1, <2>1, <2>2, <2>3, <3>1 DEF AllOwned
  <2>7. CASE Goto(h, "saveInsert")
    <3>1. request'[h] = [r EXCEPT !.at = "saveInsert"]
      BY <1>1, <2>7, RequestOf
    <3>2. request'[h].at = "saveInsert" /\ request'[h].todo = r.todo /\ request'[h].deck = r.deck
      BY <1>1, <3>1 DEF Requests
    <3>3. Savable(r.todo, quantity)
      BY <1>1, <2>1 DEF Justified
    <3>4. Joined(deckCards'[r.deck], r.todo) = r.todo
      BY <1>1, <2>2, BagTypes, JoinedBags
    <3>5. Justified(request[h])'
      BY <2>1, <3>2, <3>3, <3>4 DEF Justified, Savable, Composed, Size, Joined
    <3> QED
      BY <2>4, <2>5, <2>6, <3>5, SoundNext
  <2> QED
    BY <1>1, <2>1, <2>4, <2>5, <2>6, <2>7, ReturnIsSound
<1>4. ASSUME NEW c \in Cards, SaveInsert(h, c) \/ CreateInsert(h, c)
      PROVE  Sound(h)'
  <2>1. /\ r.at \in {"saveInsert", "createInsert"} /\ r.todo[c] > 0
        /\ UNCHANGED <<quantity, packs, awarded, decks>>
        /\ Insert(r.deck, c) \/ UNCHANGED deckCards
        /\ Return(h) \/ request' = [request EXCEPT ![h].todo[c] = @ - 1]
    BY <1>4 DEF SaveInsert, CreateInsert, At, cards, history, Inserted
  <2>2. /\ PacksOnce' /\ DecksAreComposed' /\ AllOwned'
        /\ Savable(Joined(deckCards'[r.deck], Minus(r.todo, c)), quantity)
    BY <2>1, InsertedCard DEF Inserts
  <2>3. CASE request' = [request EXCEPT ![h].todo[c] = @ - 1]
    <3>1. /\ request'[h].at = r.at /\ request'[h].deck = r.deck
          /\ request'[h].todo = Minus(r.todo, c)
      BY <1>1, <2>3 DEF TypeOK, Requests, Minus
    <3>2. Justified(request[h])'
      BY <2>1, <2>2, <3>1 DEF Justified, Savable, Composed, Size, Joined
    <3> QED
      BY <2>2, <3>2, SoundNext
  <2> QED
    BY <1>1, <2>1, <2>2, <2>3, ReturnIsSound
<1>5. ASSUME NEW d \in Decks, CreateDeck(h, d)
      PROVE  Sound(h)'
  <2>1. /\ r.at = "createDeck" /\ d \notin used /\ decks' = decks \cup {d}
        /\ UNCHANGED <<quantity, packs, awarded, deckCards>>
        /\ request' = [request EXCEPT ![h].at = "createInsert", ![h].deck = d]
    BY <1>5 DEF CreateDeck, At, cards, history
  <2>2. PacksOnce' /\ DecksAreComposed' /\ AllOwned' /\ deckCards[d] = Empty
    BY <2>1, NewDeck DEF Prunes
  <2>3. request'[h].at = "createInsert" /\ request'[h].deck = d /\ request'[h].todo = r.todo
    BY <1>1, <2>1 DEF TypeOK, Requests
  <2>4. Savable(r.todo, quantity)
    BY <1>1, <2>1 DEF Justified
  <2>5. Joined(deckCards[d], r.todo) = r.todo
    BY <1>1, <2>2, BagTypes, JoinedBags
  <2>6. Justified(request[h])'
    BY <2>1, <2>3, <2>4, <2>5 DEF Justified, Savable, Composed, Size, Joined
  <2> QED
    BY <2>2, <2>6, SoundNext
<1>6. CASE SetActive(h)
  <2>1. r.at = "setActive" /\ UNCHANGED Stock /\ Return(h)
    BY <1>6 DEF SetActive, At, Stock, cards, history
  <2> QED
    BY <2>1, MoveIsSound DEF Prunes
<1> QED
  BY <1>2, <1>3, <1>4, <1>5, <1>6, DeckReadIsSound DEF DeckStep

\* The starter content is complete so far.
LEMMA StarterStepIsSound ==
  ASSUME NEW h \in Handlers, Alone(h), ~Fails, StarterStep(h)
  PROVE  Sound(h)'
<1> DEFINE r == request[h]
<1>1. /\ TypeOK /\ Justified(r) /\ r \in Requests /\ PacksOnce /\ DecksAreComposed
      /\ r.deck \in Decks /\ r.todo \in Bags /\ r.n \in Nat /\ quantity \in [Cards -> Nat]
      /\ deckCards \in [Decks -> Bags] /\ decks \subseteq Decks
      /\ \A c \in Cards : r.todo[c] \in Nat /\ StarterDeck[c] \in Nat
  BY RequestFields DEF Alone, Sound, TypeOK, Bags
<1>2. ~Prunes(r.at) => AllOwned
  BY OwnedWhileNoCopiesAreTaken DEF Alone
<1>3. ASSUME NEW c \in Cards, StarterCard(h, c)
      PROVE  Sound(h)'
  <2>1. /\ r.at = "starterCards" /\ r.todo[c] > 0
        /\ UNCHANGED <<packs, awarded, decks, deckCards>>
        /\ quantity' = [quantity EXCEPT ![c] = @ + 1]
        /\ request' = [request EXCEPT ![h].todo[c] = @ - 1]
    BY <1>3 DEF StarterCard, At, deckRows, history
  <2>2. PacksOnce'
    <3>1. Unopened' = Unopened
      BY <2>1 DEF Unopened
    <3> QED
      BY <1>1, <2>1, <3>1 DEF PacksOnce
  <2>3. DecksAreComposed'
    BY <1>1, <2>1 DEF DecksAreComposed, Composed, Size
  <2>4. \A x \in Cards : quantity'[x] = IF x = c THEN quantity[x] + 1 ELSE quantity[x]
    BY <1>1, <2>1
  <2>5. AllOwned'
    <3>1. \A d \in decks, x \in Cards : deckCards[d][x] \in Nat
      BY <1>1 DEF Bags
    <3> QED
      BY <1>1, <1>2, <2>1, <2>4, <3>1 DEF AllOwned, Prunes
  <2>6. /\ request'[h].at = "starterCards" /\ request'[h].n = r.n
        /\ \A x \in Cards : request'[h].todo[x] = IF x = c THEN r.todo[x] - 1 ELSE r.todo[x]
    BY <1>1, <2>1 DEF TypeOK, Requests, Bags
  <2>7. \A x \in Cards : StarterDeck[x] <= quantity'[x] + request'[h].todo[x]
    <3>1. \A x \in Cards : StarterDeck[x] <= quantity[x] + r.todo[x]
      BY <1>1, <2>1 DEF Justified
    <3> QED
      BY <1>1, <2>4, <2>6, <3>1
  <2>8. r.n = StarterDecks
    BY <1>1, <2>1 DEF Justified
  <2>9. Justified(request[h])'
    BY <2>6, <2>7, <2>8 DEF Justified
  <2> QED
    BY <2>2, <2>3, <2>5, <2>9, SoundNext
<1>4. ASSUME NEW d \in Decks, StarterCreate(h, d)
      PROVE  Sound(h)'
  <2>1. /\ Starting(h) /\ r.todo = Empty /\ r.n > 0 /\ d \notin used /\ decks' = decks \cup {d}
        /\ UNCHANGED <<quantity, packs, awarded, deckCards>>
        /\ request' = [request EXCEPT ![h] =
             [r EXCEPT !.at = "starterDeck", !.deck = d, !.n = r.n - 1, !.todo = StarterDeck,
                       !.first = FirstDeck(r, d)]]
    BY <1>4 DEF StarterCreate, cards
  <2>2. r.at \in {"starterCards", "starterDeck"}
    BY <2>1 DEF Starting, At
  <2>3. /\ PacksOnce' /\ DecksAreComposed' /\ AllOwned'
        /\ d \notin decks /\ deckCards[d] = Empty
    BY <2>1, <2>2, NewDeck DEF Prunes
  <2>4. /\ request'[h].at = "starterDeck" /\ request'[h].deck = d /\ request'[h].n = r.n - 1
        /\ request'[h].todo = StarterDeck /\ request'[h].first = FirstDeck(r, d)
    BY <1>1, <2>1 DEF TypeOK, Requests
  <2>5. \A c \in Cards : StarterDeck[c] <= quantity[c]
    <3>1. \A c \in Cards : r.todo[c] = 0
      BY <2>1 DEF Empty
    <3>2. CASE r.at = "starterCards"
      <4>1. \A c \in Cards : StarterDeck[c] <= quantity[c] + r.todo[c]
        BY <1>1, <3>2 DEF Justified
      <4> QED
        BY <1>1, <3>1, <4>1
    <3>3. CASE r.at = "starterDeck"
      BY <1>1, <3>3 DEF Justified
    <3> QED
      BY <2>2, <3>2, <3>3
  <2>6. Savable(StarterDeck, quantity)
    BY <2>5, StarterDeckComposed DEF Savable
  <2>7. Joined(deckCards[d], StarterDeck) = StarterDeck
    BY <2>3, BagTypes, JoinedBags
  <2>8. r.n - 1 < StarterDecks
    BY <1>1, <2>2 DEF Justified
  <2>9. CASE r.n = StarterDecks
    <3>1. request'[h].first = d
      BY <2>4, <2>9 DEF FirstDeck
    <3>2. Justified(request[h])'
      BY <2>1, <2>4, <2>5, <2>6, <2>7, <2>8, <3>1
         DEF Justified, Savable, Composed, Size, Joined
    <3> QED
      BY <2>3, <3>2, SoundNext
  <2>10. CASE r.n # StarterDecks
    <3>1. request'[h].first = r.first
      BY <2>4, <2>10 DEF FirstDeck
    <3>2. /\ r.at = "starterDeck" /\ r.first \in decks /\ r.deck \in decks
          /\ IF r.first = r.deck THEN Joined(deckCards[r.deck], r.todo) = StarterDeck
             ELSE deckCards[r.first] = StarterDeck
      BY <1>1, <2>2, <2>10 DEF Justified
    <3>3. Joined(deckCards[r.deck], Empty) = deckCards[r.deck]
      BY <1>1, BagTypes, JoinedBags
    <3>4. deckCards[r.first] = StarterDeck /\ r.first # d
      BY <2>1, <2>3, <3>2, <3>3
    <3>5. Justified(request[h])'
      BY <2>1, <2>4, <2>5, <2>6, <2>7, <2>8, <3>1, <3>2, <3>4
         DEF Justified, Savable, Composed, Size, Joined
    <3> QED
      BY <2>3, <3>5, SoundNext
  <2> QED
    BY <2>9, <2>10
<1>5. ASSUME NEW c \in Cards, StarterInsert(h, c)
      PROVE  Sound(h)'
  <2>1. /\ r.at = "starterDeck" /\ r.todo[c] > 0
        /\ UNCHANGED <<quantity, packs, awarded, decks>>
        /\ request' = [request EXCEPT ![h].todo[c] = @ - 1]
    BY <1>5 DEF StarterInsert, At, cards, history
  <2>2. /\ r.first \in decks /\ r.deck \in decks /\ r.n < StarterDecks
        /\ \A x \in Cards : StarterDeck[x] <= quantity[x]
        /\ IF r.first = r.deck THEN Joined(deckCards[r.deck], r.todo) = StarterDeck
           ELSE deckCards[r.first] = StarterDeck
    BY <1>1, <2>1 DEF Justified
  <2>3. Insert(r.deck, c)
    BY <1>5, <2>2 DEF StarterInsert
  <2>4. /\ PacksOnce' /\ DecksAreComposed' /\ AllOwned'
        /\ Savable(Joined(deckCards'[r.deck], Minus(r.todo, c)), quantity)
        /\ \A d \in Decks : d # r.deck => deckCards'[d] = deckCards[d]
        /\ Joined(deckCards'[r.deck], Minus(r.todo, c)) = Joined(deckCards[r.deck], r.todo)
    BY <2>1, <2>3, InsertedCard DEF Inserts
  <2>5. /\ request'[h].at = "starterDeck" /\ request'[h].deck = r.deck
        /\ request'[h].first = r.first /\ request'[h].n = r.n
        /\ request'[h].todo = Minus(r.todo, c)
    BY <1>1, <2>1 DEF TypeOK, Requests, Minus
  <2>6. IF r.first = r.deck THEN Joined(deckCards'[r.deck], Minus(r.todo, c)) = StarterDeck
        ELSE deckCards'[r.first] = StarterDeck
    BY <1>1, <2>2, <2>4
  <2>7. Joined(deckCards[request[h].deck], request[h].todo)'
          = Joined(deckCards'[r.deck], Minus(r.todo, c))
    BY <2>5 DEF Joined
  <2>8. Savable(Joined(deckCards[request[h].deck], request[h].todo), quantity)'
    BY <2>1, <2>4, <2>7 DEF Savable, Composed, Size
  <2>9. Justified(request[h])'
    BY <2>1, <2>2, <2>5, <2>6, <2>7, <2>8 DEF Justified
  <2> QED
    BY <2>4, <2>9, SoundNext
<1>6. CASE StarterActive(h)
  <2>1. r.at \in {"starterCards", "starterDeck"} /\ UNCHANGED Stock /\ Return(h)
    BY <1>6 DEF StarterActive, Starting, At, Stock, cards, history
  <2> QED
    BY <2>1, MoveIsSound DEF Prunes
<1> QED
  BY <1>3, <1>4, <1>5, <1>6 DEF StarterStep

LEMMA RequestStepIsSound ==
  ASSUME NEW h \in Handlers, Alone(h), ~Fails, RequestStep(h)
  PROVE  Sound(h)'
<1>1. ~Disconnect(h)
  BY DEF Disconnect
<1> QED
  BY <1>1, CardStepIsSound, PackStepIsSound, DeckStepIsSound, StarterStepIsSound DEF RequestStep

\* Cards are inserted only into decks that have a row, and an id is drawn once.
LEMMA RowsOfDecksStep ==
  ASSUME TypeOK, RowsOfDecks, NEW h \in Handlers, RequestStep(h)
  PROVE  RowsOfDecks'
<1> DEFINE r == request[h]
<1>1. /\ deckCards \in [Decks -> Bags] /\ r.card \in Cards /\ r.excess \in [Decks -> Nat]
      /\ r.deck \in Decks /\ decks \subseteq Decks
  BY RequestFields DEF TypeOK
<1>2. CASE UNCHANGED <<decks, used, deckCards>>
  BY <1>2 DEF RowsOfDecks
<1>3. ASSUME NEW d \in Decks, Prune(h, d), ~UNCHANGED deckCards
      PROVE  RowsOfDecks'
  <2>1. /\ UNCHANGED <<decks, used>>
        /\ deckCards' = [deckCards EXCEPT ![d][r.card] = Surplus(@, r.excess[d])]
        /\ r.excess[d] > 0
    BY <1>3 DEF Prune
  <2>2. ASSUME NEW x \in Decks \ decks
        PROVE  deckCards'[x] = Empty
    <3>1. deckCards[x] = Empty
      BY DEF RowsOfDecks
    <3>2. CASE x # d
      BY <1>1, <2>1, <3>1, <3>2
    <3>3. CASE x = d
      <4>1. Empty[r.card] = 0 /\ r.excess[d] \in Nat
        BY <1>1 DEF Empty
      <4>2. Surplus(Empty[r.card], r.excess[d]) = 0
        BY <2>1, <4>1 DEF Surplus
      <4>3. deckCards'[x] = [Empty EXCEPT ![r.card] = 0]
        BY <1>1, <2>1, <3>1, <3>3, <4>2
      <4> QED
        BY <1>1, <4>3 DEF Empty
    <3> QED
      BY <3>2, <3>3
  <2> QED
    BY <2>1, <2>2 DEF RowsOfDecks
<1>4. CASE SaveDelete(h)
  <2>1. /\ UNCHANGED <<decks, used>>
        /\ deckCards' = deckCards \/ deckCards' = [deckCards EXCEPT ![r.deck] = Empty]
    BY <1>4 DEF SaveDelete
  <2> QED
    BY <1>1, <2>1 DEF RowsOfDecks
<1>5. ASSUME NEW c \in Cards, SaveInsert(h, c) \/ CreateInsert(h, c) \/ StarterInsert(h, c)
      PROVE  RowsOfDecks'
  <2>1. /\ UNCHANGED <<decks, used>>
        /\ deckCards' = deckCards \/ Insert(r.deck, c)
    BY <1>5 DEF SaveInsert, CreateInsert, StarterInsert
  <2> QED
    BY <1>1, <2>1 DEF RowsOfDecks, Insert
<1>6. ASSUME NEW d \in Decks, CreateDeck(h, d) \/ StarterCreate(h, d)
      PROVE  RowsOfDecks'
  BY <1>6 DEF CreateDeck, StarterCreate, RowsOfDecks
<1>7. \/ UNCHANGED deckCards \/ (\E d \in Decks : Prune(h, d)) \/ SaveDelete(h)
      \/ \E c \in Cards : SaveInsert(h, c) \/ CreateInsert(h, c) \/ StarterInsert(h, c)
  BY DEF RequestStep, CardStep, PackStep, DeckStep, StarterStep, Disconnect, deckRows,
         LevelUpRead, LevelUpCrystals, LevelUpDeduct, LevelUpRow, Refund, DisenchantRead,
         DisenchantRow, Award, Rollback, PruneRead, BuyCount, BuyPack, OpenRead, OpenPack,
         OpenCard, OpenAward, SaveRead, SaveVerify, CreateRead, CreateDeck, SetActiveRead,
         SetActive, StarterCard, StarterCreate, StarterActive
<1>8. UNCHANGED <<decks, used>> \/ \E d \in Decks : CreateDeck(h, d) \/ StarterCreate(h, d)
  BY DEF RequestStep, CardStep, PackStep, DeckStep, StarterStep, Disconnect, deckRows,
         LevelUpRead, LevelUpCrystals, LevelUpDeduct, LevelUpRow, Refund, DisenchantRead,
         DisenchantRow, Award, Rollback, PruneRead, Prune, BuyCount, BuyPack, OpenRead,
         OpenPack, OpenCard, OpenAward, SaveRead, SaveVerify, SaveDelete, SaveInsert,
         CreateRead, CreateInsert, SetActiveRead, SetActive, StarterCard,
         StarterInsert, StarterActive
<1>9. ASSUME NEW d \in Decks, Prune(h, d)
      PROVE  RowsOfDecks'
  <2>1. UNCHANGED <<decks, used>>
    BY <1>9 DEF Prune
  <2> QED
    BY <1>2, <1>3, <1>9, <2>1
<1> QED
  BY <1>2, <1>4, <1>5, <1>6, <1>7, <1>8, <1>9

\* As long as nothing has failed nothing fails, and a request that starts while
\* none overlaps is the only one.
LEMMA QuietStep ==
  ASSUME TypeOK, NEW h \in Handlers, RequestStep(h), Quiet'
  PROVE  Quiet /\ ~Fails /\ (request[h].at = "idle" => ~Busy)
<1>1. faults' = 0 /\ faults = 0
  BY TypesOfHistory DEF Quiet
<1>2. ~Fails
  BY <1>1 DEF Fails
<1>3. ~overlapped' /\ overlapped \in BOOLEAN
  BY DEF Quiet, TypeOK
<1>4. overlapped' = overlapped \/ overlapped' = (overlapped \/ Busy)
  BY DEF RequestStep, CardStep, PackStep, DeckStep, StarterStep, Disconnect, history, earnings,
         Start, LevelUpRead, LevelUpCrystals, LevelUpDeduct, LevelUpRow, Refund, DisenchantRead,
         DisenchantRow, Award, Rollback, PruneRead, Prune, BuyCount, BuyPack, OpenRead, OpenPack,
         OpenCard, OpenAward, SaveRead, SaveVerify, SaveDelete, SaveInsert, CreateRead,
         CreateDeck, CreateInsert, SetActiveRead, SetActive, StarterCard, StarterCreate,
         StarterInsert, StarterActive
<1>5. ASSUME request[h].at = "idle"
      PROVE  overlapped' = (overlapped \/ Busy)
  <2>1. CASE CardStep(h)
    BY <1>5, <2>1 DEF CardStep, At, Start, LevelUpRead, LevelUpCrystals, LevelUpDeduct,
           LevelUpRow, Refund, DisenchantRead, DisenchantRow, Award, Rollback, PruneRead, Prune
  <2>2. CASE PackStep(h)
    BY <1>5, <2>2 DEF PackStep, At, Start, BuyCount, BuyPack, OpenRead, OpenPack, OpenCard,
           OpenAward
  <2>3. CASE DeckStep(h)
    BY <1>5, <2>3 DEF DeckStep, At, Start, SaveRead, SaveVerify, SaveDelete, SaveInsert,
           CreateRead, CreateDeck, CreateInsert, SetActiveRead, SetActive
  <2>4. ~StarterStep(h) /\ ~Disconnect(h)
    BY <1>5 DEF StarterStep, Disconnect, At, Starting, StarterCard, StarterInsert, StarterCreate,
           StarterActive
  <2> QED
    BY <2>1, <2>2, <2>3, <2>4 DEF RequestStep
<1>6. ~overlapped
  BY <1>3, <1>4
<1>7. request[h].at = "idle" => ~Busy
  BY <1>3, <1>5
<1> QED
  BY <1>1, <1>2, <1>6, <1>7 DEF Quiet

\* Only one request runs, so what the others have read does not matter.
LEMMA OnlyOne ==
  ASSUME OneAtATime, NEW h \in Handlers, request[h].at = "idle" => ~Busy
  PROVE  \A k \in Handlers \ {h} : request[k].at = "idle"
BY DEF OneAtATime, Busy, At

LEMMA OthersIdle ==
  ASSUME NEW h \in Handlers, \A k \in Handlers \ {h} : request[k].at = "idle"
  PROVE  /\ OneAtATime
         /\ DecksAreOwned <=> Fits(request[h])
         /\ (\A k \in Handlers : Justified(request[k])) <=> Justified(request[h])
<1>1. OneAtATime
  BY DEF OneAtATime, At
<1>2. \A k \in Handlers \ {h}, d \in decks : ~WillPrune(request[k], d)
  BY DEF WillPrune
<1>3. ASSUME DecksAreOwned
      PROVE  Fits(request[h])
  BY <1>2, <1>3 DEF DecksAreOwned, Fits
<1>4. ASSUME Fits(request[h])
      PROVE  DecksAreOwned
  BY <1>4 DEF DecksAreOwned, Fits
<1>5. \A k \in Handlers \ {h} : Justified(request[k])
  BY DEF Justified
<1> QED
  BY <1>1, <1>3, <1>4, <1>5

LEMMA QuietInvStep ==
  ASSUME TypeOK, QuietInv, NEW h \in Handlers, RequestStep(h)
  PROVE  QuietInv'
<1>1. RowsOfDecks'
  BY RowsOfDecksStep DEF QuietInv
<1>2. ASSUME Quiet'
      PROVE  (OneAtATime /\ PacksOnce /\ DecksAreComposed /\ DecksAreOwned
                /\ \A k \in Handlers : Justified(request[k]))'
  <2>1. Quiet /\ ~Fails /\ (request[h].at = "idle" => ~Busy)
    BY <1>2, QuietStep
  <2>2. \A k \in Handlers \ {h} : request[k].at = "idle"
    BY <2>1, OnlyOne DEF QuietInv
  <2>3. Sound(h)
    BY <2>1, <2>2, OthersIdle DEF QuietInv, Sound
  <2>4. Sound(h)'
    BY <2>1, <2>3, RequestStepIsSound DEF Alone, QuietInv
  <2>5. \A k \in Handlers \ {h} : request'[k].at = "idle"
    BY <2>2, RequestsTyped
  <2>6. OneAtATime'
    BY <2>5 DEF OneAtATime, At
  <2>7. DecksAreOwned'
    BY <2>4 DEF Sound, Fits, DecksAreOwned, WillPrune
  <2>8. (\A k \in Handlers \ {h} : Justified(request[k]))'
    BY <2>5 DEF Justified
  <2>9. (\A k \in Handlers : Justified(request[k]))'
    BY <2>4, <2>8 DEF Sound
  <2> QED
    BY <2>4, <2>6, <2>7, <2>9 DEF Sound
<1> QED
  BY <1>1, <1>2 DEF QuietInv

\* A deck is deleted while no request runs.
LEMMA QuietInvDelete ==
  ASSUME TypeOK, QuietInv, NEW d \in Decks, DeleteDeck(d)
  PROVE  QuietInv'
<1>1. /\ deckCards \in [Decks -> Bags] /\ decks \subseteq Decks
      /\ decks' = decks \ {d} /\ deckCards' = [deckCards EXCEPT ![d] = Empty]
      /\ UNCHANGED <<quantity, packs, used, request, faults, awarded>>
      /\ overlapped' = (overlapped \/ Busy)
  BY DEF TypeOK, DeleteDeck, cards, earnings
<1>2. RowsOfDecks'
  BY <1>1 DEF QuietInv, RowsOfDecks
<1>3. ASSUME Quiet'
      PROVE  (OneAtATime /\ PacksOnce /\ DecksAreComposed /\ DecksAreOwned
                /\ \A k \in Handlers : Justified(request[k]))'
  <2>1. Quiet /\ ~Busy
    BY <1>1, <1>3 DEF Quiet
  <2>2. /\ PacksOnce /\ DecksAreComposed /\ DecksAreOwned
        /\ \A k \in Handlers : request[k].at = "idle"
    BY <2>1 DEF QuietInv, Busy, At
  <2>3. OneAtATime'
    BY <1>1, <2>2 DEF OneAtATime, At
  <2>4. PacksOnce'
    <3>1. Unopened' = Unopened
      BY <1>1 DEF Unopened
    <3> QED
      BY <1>1, <2>2, <3>1 DEF PacksOnce
  <2>5. \A x \in decks' : deckCards'[x] = deckCards[x]
    BY <1>1
  <2>6. DecksAreComposed'
    <3>1. \A x \in decks' : Composed(deckCards'[x])
      BY <1>1, <2>2, <2>5 DEF DecksAreComposed
    <3> QED
      BY <3>1 DEF DecksAreComposed, Composed, Size
  <2>7. DecksAreOwned'
    BY <1>1, <2>2, <2>5 DEF DecksAreOwned, WillPrune
  <2>8. (\A k \in Handlers : Justified(request[k]))'
    BY <1>1, <2>2 DEF Justified
  <2> QED
    BY <2>3, <2>4, <2>6, <2>7, <2>8
<1> QED
  BY <1>2, <1>3 DEF QuietInv

LEMMA QuietInvStutter ==
  ASSUME QuietInv, UNCHANGED vars
  PROVE  QuietInv'
BY DEF QuietInv, RowsOfDecks, Quiet, OneAtATime, At, PacksOnce, Unopened, DecksAreComposed,
       Composed, Size, DecksAreOwned, WillPrune, Justified, Savable, Joined, vars, cards,
       deckRows, history

\* The request for the starter content is the only one that runs at first.
LEMMA QuietInvInit ==
  ASSUME Init
  PROVE  QuietInv
<1>1. PICK h \in Handlers :
        request = [k \in Handlers |-> IF k = h THEN StarterRequest ELSE NoRequest]
  BY DEF Init
<1>2. /\ request[h].at = "starterCards" /\ request[h].n = StarterDecks
      /\ request[h].todo = StarterCards
      /\ \A k \in Handlers \ {h} : request[k].at = "idle"
  BY <1>1, BagTypes DEF StarterRequest, NoRequest
<1>3. \A c \in Cards : StarterDeck[c] <= quantity[c] + request[h].todo[c]
  <2>1. \A c \in Cards : StarterDeck[c] <= StarterCards[c] /\ StarterCards[c] \in Nat
    BY StarterCanBeSaved DEF Bags
  <2>2. \A c \in Cards : quantity[c] = 0
    BY DEF Init, Empty
  <2> QED
    BY <1>2, <2>1, <2>2
<1>4. Justified(request[h])
  BY <1>2, <1>3 DEF Justified
<1>5. PacksOnce
  <2>1. Unopened = {}
    BY DEF Init, Unopened
  <2>2. Cardinality(Unopened) = 0
    BY <2>1, FS_EmptySet
  <2> QED
    BY <2>2 DEF Init, PacksOnce
<1>6. decks = {} /\ RowsOfDecks
  BY DEF Init, RowsOfDecks
<1>7. DecksAreComposed /\ Fits(request[h])
  BY <1>6 DEF DecksAreComposed, Fits
<1> QED
  BY <1>2, <1>4, <1>5, <1>6, <1>7, OthersIdle DEF QuietInv

----------------------------------------------------------------------------
(* The theorems.                                                           *)

InductiveInv ==
  /\ TypeOK
  /\ LevelsBelowTop
  /\ CrystalsAreAccounted
  /\ RoomIsSeen
  /\ ActiveDeckExists

LEMMA StepKeepsInv ==
  ASSUME InductiveInv, NEW h \in Handlers, RequestStep(h)
  PROVE  InductiveInv'
<1>1. ActiveDeckExists'
  BY ActiveChanges, DecksGrow DEF InductiveInv, ActiveDeckExists
<1> QED
  BY <1>1, TypeStep, LevelsBelowTopStep, AccountsStep, RoomIsSeenStep DEF InductiveInv

\* What has no part in the crystals, the packs and the requests changes nothing.
LEMMA DecksApart ==
  ASSUME InductiveInv, TypeOK', ActiveDeckExists',
         UNCHANGED <<crystals, level, packs, request, faults, income, answerLost>>
  PROVE  InductiveInv'
<1>1. LevelsBelowTop'
  BY DEF InductiveInv, LevelsBelowTop
<1>2. Spent' = Spent
  BY DEF Spent
<1>3. Held' = Held
  BY DEF Held, HeldBy, Price, Worth
<1>4. CrystalsAreAccounted'
  BY <1>2, <1>3 DEF InductiveInv, CrystalsAreAccounted
<1>5. Unopened' = Unopened /\ Buyers' = Buyers
  BY DEF Unopened, Buyers, At
<1>6. RoomIsSeen'
  BY <1>5 DEF InductiveInv, RoomIsSeen
<1> QED
  BY <1>1, <1>4, <1>6 DEF InductiveInv

LEMMA DeleteDeckKeepsInv ==
  ASSUME InductiveInv, NEW d \in Decks, DeleteDeck(d)
  PROVE  InductiveInv'
<1>1. deckCards' \in [Decks -> Bags]
  BY BagTypes DEF InductiveInv, TypeOK, DeleteDeck
<1>2. overlapped' \in BOOLEAN
  <2>1. overlapped' = (overlapped \/ Busy)
    BY DEF DeleteDeck
  <2> QED
    BY <2>1
<1>3. TypeOK'
  BY <1>1, <1>2 DEF InductiveInv, TypeOK, DeleteDeck, cards, earnings
<1>4. ActiveDeckExists'
  BY DEF InductiveInv, ActiveDeckExists, DeleteDeck
<1> QED
  BY <1>3, <1>4, DecksApart DEF DeleteDeck, cards, earnings

LEMMA StutterKeepsInv ==
  ASSUME InductiveInv, UNCHANGED vars
  PROVE  InductiveInv'
<1>1. TypeOK'
  BY DEF InductiveInv, TypeOK, vars, cards, deckRows, history
<1>2. ActiveDeckExists'
  BY DEF InductiveInv, ActiveDeckExists, vars, deckRows
<1> QED
  BY <1>1, <1>2, DecksApart DEF vars, cards, deckRows, history

LEMMA InitInv ==
  ASSUME Init
  PROVE  InductiveInv
<1>0. PICK starter \in Handlers :
        request = [k \in Handlers |-> IF k = starter THEN StarterRequest ELSE NoRequest]
  BY DEF Init
<1>1. TypeOK
  <2>1. /\ level \in [Cards -> Levels] /\ faults \in 0..MaxFaults
        /\ crystals \in Nat /\ income \in Int /\ awarded \in [Packs -> Nat]
    BY DEF Init, Levels
  <2>2. /\ quantity \in Bags /\ deckCards \in [Decks -> Bags]
        /\ request \in [Handlers -> Requests]
    BY <1>0, BagTypes DEF Init
  <2>3. /\ packs \in [Packs -> {"none", "unopened", "opened"}]
        /\ decks \subseteq Decks /\ used \subseteq Decks
        /\ overlapped \in BOOLEAN /\ answerLost \in BOOLEAN
        /\ active \in Decks \cup {NoDeck}
    BY DEF Init
  <2> QED
    BY <2>1, <2>2, <2>3 DEF TypeOK
<1>2. \A h \in Handlers : request[h].at \in {"idle", "starterCards"}
  BY <1>0, BagTypes
<1>3. LevelsBelowTop
  BY <1>2 DEF LevelsBelowTop
<1>4. CrystalsAreAccounted
  <2>1. 1..(1 - 1) = {}
    OBVIOUS
  <2>2. Total(CrystalsCost, 1..(1 - 1)) = 0
    BY <2>1, TotalOfNothing
  <2>3. \A c \in Cards : Spent[c] = 0
    BY <2>2 DEF Init, Spent
  <2>4. \A h \in Handlers : Held[h] = 0
    BY <1>2 DEF Held, HeldBy
  <2>5. Total(Spent, Cards) = 0 /\ Total(Held, Handlers) = 0
    BY <2>3, <2>4, TotalOfZeros
  <2>6. crystals \in Nat /\ income = crystals
    BY DEF Init
  <2> QED
    BY <2>5, <2>6 DEF CrystalsAreAccounted
<1>5. RoomIsSeen
  <2>1. Unopened = {} /\ Buyers = {}
    BY <1>2 DEF Init, Unopened, Buyers, At
  <2>2. Cardinality(Handlers) # 0
    BY FS_EmptySet
  <2>3. Cardinality(Unopened) = 0 /\ Cardinality(Buyers) = 0
    BY <2>1, FS_EmptySet
  <2> QED
    BY <2>2, <2>3, SizesOfPacks DEF RoomIsSeen
<1>6. ActiveDeckExists
  BY DEF Init, ActiveDeckExists
<1> QED
  BY <1>1, <1>3, <1>4, <1>5, <1>6 DEF InductiveInv

LEMMA NextKeepsInv ==
  ASSUME InductiveInv, [Next]_vars
  PROVE  InductiveInv'
BY StepKeepsInv, DeleteDeckKeepsInv, StutterKeepsInv DEF Next, RequestStep

LEMMA InductiveInvHolds == Spec => []InductiveInv
<1>1. Init => InductiveInv
  BY InitInv
<1>2. InductiveInv /\ [Next]_vars => InductiveInv'
  BY NextKeepsInv
<1> QED
  BY <1>1, <1>2, PTL DEF Spec

\* However the statements of level-ups, disenchantments, purchases, openings and
\* changes of decks interleave, fail or are cut off: balances and copies stay
\* non-negative, crystals and levels are paid for, and the limit of unopened packs
\* is passed by less than one pack per request (services/deck/handlers.go).
THEOREM InventoryInvariant == Spec => []InventoryInv
<1>1. InductiveInv => InventoryInv
  <2> SUFFICES ASSUME InductiveInv
               PROVE  InventoryInv
    OBVIOUS
  <2>1. PacksAreLimited
    BY SizesOfPacks DEF InductiveInv, RoomIsSeen, PacksAreLimited
  <2> QED
    BY <2>1 DEF InductiveInv, InventoryInv
<1> QED
  BY <1>1, InductiveInvHolds, PTL

\* No step, of whatever requests run, takes the last copy of a card at its
\* highest level: DisenchantPlayerCard keeps one, LevelUpPlayerCard does not apply.
THEOREM LastCopyIsKept == Spec => LastCopyStays
<1> DEFINE Kept == \A c \in Cards : level[c] = MaxLevel /\ quantity[c] > 0 => quantity'[c] > 0
<1>1. ASSUME InductiveInv, NEW h \in Handlers, RequestStep(h)
      PROVE  Kept
  <2> DEFINE r == request[h]
  <2>1. /\ level \in [Cards -> Levels] /\ quantity \in [Cards -> Nat]
        /\ r.card \in Cards /\ r.n \in Nat
    BY <1>1, RequestFields DEF InductiveInv, TypeOK, Bags
  <2>2. CASE UNCHANGED quantity
    BY <2>2
  <2>3. CASE LevelUpRow(h) /\ ~UNCHANGED quantity
    <3>1. /\ r.at = "levelUpRow" /\ level[r.card] = r.level
          /\ quantity' = [quantity EXCEPT ![r.card] = @ - Copies(r)]
      BY <2>3 DEF LevelUpRow, LevelIsAsRead, At, cards
    <3>2. r.level < MaxLevel
      BY <1>1, <3>1 DEF InductiveInv, LevelsBelowTop
    <3>3. level[r.card] # MaxLevel
      BY <3>1, <3>2
    <3> QED
      BY <2>1, <3>1, <3>3
  <2>4. CASE DisenchantRow(h) /\ ~UNCHANGED quantity
    <3>1. quantity[r.card] >= r.n + 1 /\ quantity' = [quantity EXCEPT ![r.card] = @ - r.n]
      BY <2>4 DEF DisenchantRow, EnoughCopies
    <3>2. quantity[r.card] - r.n > 0
      BY <2>1, <3>1
    <3> QED
      BY <2>1, <3>1, <3>2
  <2>5. CASE Rollback(h) /\ ~UNCHANGED quantity
    <3>1. quantity' = [quantity EXCEPT ![r.card] = @ + r.n]
      BY <2>5 DEF Rollback
    <3>2. quantity[r.card] > 0 => quantity[r.card] + r.n > 0
      BY <2>1
    <3> QED
      BY <2>1, <3>1, <3>2
  <2>6. ASSUME NEW c \in Cards, OpenCard(h, c) \/ StarterCard(h, c), ~UNCHANGED quantity
        PROVE  Kept
    <3>1. quantity' = [quantity EXCEPT ![c] = @ + 1]
      BY <2>6 DEF OpenCard, StarterCard
    <3>2. quantity[c] + 1 > 0
      BY <2>1
    <3> QED
      BY <2>1, <3>1, <3>2
  <2>7. \/ UNCHANGED quantity \/ LevelUpRow(h) \/ DisenchantRow(h) \/ Rollback(h)
        \/ \E c \in Cards : OpenCard(h, c) \/ StarterCard(h, c)
    BY <1>1 DEF RequestStep, CardStep, PackStep, DeckStep, StarterStep, Disconnect, cards,
           LevelUpRead, LevelUpCrystals, LevelUpDeduct, Refund, DisenchantRead, Award, PruneRead,
           Prune, BuyCount, BuyPack, OpenRead, OpenPack, OpenAward, SaveRead, SaveVerify,
           SaveDelete, SaveInsert, CreateRead, CreateDeck, CreateInsert, SetActiveRead, SetActive,
           StarterCreate, StarterInsert, StarterActive
  <2> QED
    BY <2>2, <2>3, <2>4, <2>5, <2>6, <2>7
<1>2. ASSUME InductiveInv, [Next]_vars
      PROVE  [Kept]_vars
  <2>1. (\E h \in Handlers : RequestStep(h)) \/ UNCHANGED quantity
    BY <1>2 DEF Next, RequestStep, DeleteDeck, vars, cards
  <2>2. UNCHANGED quantity => Kept
    OBVIOUS
  <2> QED
    BY <1>1, <1>2, <2>1, <2>2
<1> HIDE DEF Kept
<1>3. InductiveInv /\ [Next]_vars => [Kept]_vars
  BY <1>2
<1>4. [][Kept]_vars <=> LastCopyStays
  BY PTL DEF Kept, LastCopyStays
<1> QED
  BY <1>3, <1>4, InductiveInvHolds, PTL DEF Spec

LEMMA QuietInvHolds == Spec => [](InductiveInv /\ QuietInv)
<1>1. Init => QuietInv
  BY QuietInvInit
<1>2. InductiveInv /\ QuietInv /\ [Next]_vars => QuietInv'
  BY QuietInvStep, QuietInvDelete, QuietInvStutter DEF Next, RequestStep, InductiveInv
<1> QED
  BY <1>1, <1>2, InductiveInvHolds, PTL DEF Spec

\* While nothing fails and requests come one at a time, no pack is awarded twice, the
\* limit of unopened packs holds, and after each request every deck still passes
\* validateDeckCards: pruneDecksForPlayerCard removes all that is not owned any more
\* (services/deck/handlers.go).
THEOREM RequestsAloneAreSound == Spec => []OneByOne
<1>1. InductiveInv /\ QuietInv => OneByOne
  <2> SUFFICES ASSUME InductiveInv, QuietInv, ~overlapped, faults = 0
               PROVE  /\ \A p \in Packs : awarded[p] <= 1
                      /\ Cardinality(Unopened) <= MaxUnopenedPacks
                      /\ ~Busy => \A d \in decks : ValidDeck(deckCards[d])
    BY DEF OneByOne
  <2>1. PacksOnce /\ DecksAreComposed /\ DecksAreOwned
    BY DEF QuietInv, Quiet
  <2>2. \A p \in Packs : awarded[p] <= 1
    <3>1. awarded \in [Packs -> Nat]
      BY DEF InductiveInv, TypeOK
    <3> QED
      BY <2>1, <3>1 DEF PacksOnce
  <2>3. ASSUME ~Busy, NEW d \in decks
        PROVE  ValidDeck(deckCards[d])
    <3>1. Composed(deckCards[d])
      BY <2>1 DEF DecksAreComposed
    <3>2. \A c \in Cards : deckCards[d][c] <= quantity[c]
      BY <2>1, <2>3 DEF DecksAreOwned, WillPrune, Busy, At
    <3> QED
      BY <3>1, <3>2 DEF ValidDeck, Composed
  <2> QED
    BY <2>1, <2>2, <2>3 DEF PacksOnce
<1> QED
  BY <1>1, QuietInvHolds, PTL

\* When the request for the starter content ends, with nothing failed and no other
\* request before it, the active deck is a complete starter deck whose cards the
\* player owns (handleInitStarterContent, services/deck/handlers.go).
THEOREM StarterContentIsPlayable == Spec => StarterIsPlayable
<1> DEFINE Playable ==
      /\ active' # NoDeck
      /\ deckCards'[active'] = StarterDeck
      /\ ValidDeck(StarterDeck)'
           Given ==
      \A h \in Handlers :
        Starting(h) /\ ~Starting(h)' /\ faults' = 0 /\ ~overlapped' => Playable
<1>1. ASSUME TypeOK, QuietInv, NEW h \in Handlers, RequestStep(h),
             Starting(h), ~Starting(h)', Quiet'
      PROVE  Playable
  <2> DEFINE r == request[h]
  <2>1. Quiet /\ ~Fails
    BY <1>1, QuietStep
  <2>2. Justified(r) /\ r \in Requests /\ request'[h] \in Requests
    BY <1>1, <2>1, RequestFields, RequestsTyped DEF QuietInv, TypeOK
  <2>3. r.at \in {"starterCards", "starterDeck"}
    BY <1>1 DEF Starting, At
  <2>4. StarterStep(h)
    <3>1. ~CardStep(h)
      BY <2>3 DEF CardStep, At, Start, LevelUpRead, LevelUpCrystals, LevelUpDeduct,
             LevelUpRow, Refund, DisenchantRead, DisenchantRow, Award, Rollback, PruneRead, Prune
    <3>2. ~PackStep(h)
      BY <2>3 DEF PackStep, At, Start, BuyCount, BuyPack, OpenRead, OpenPack, OpenCard, OpenAward
    <3>3. ~DeckStep(h)
      BY <2>3 DEF DeckStep, At, Start, SaveRead, SaveVerify, SaveDelete, SaveInsert,
             CreateRead, CreateDeck, CreateInsert, SetActiveRead, SetActive
    <3>4. ~Disconnect(h)
      BY <2>1 DEF Disconnect
    <3> QED
      BY <1>1, <3>1, <3>2, <3>3, <3>4 DEF RequestStep
  <2>5. StarterActive(h)
    <3>1. request'[h].at \notin {"starterCards", "starterDeck"}
      BY <1>1 DEF Starting, At
    <3>2. ASSUME NEW c \in Cards, StarterCard(h, c) \/ StarterInsert(h, c)
          PROVE  FALSE
      <4>1. request' = [request EXCEPT ![h].todo[c] = @ - 1]
        BY <3>2 DEF StarterCard, StarterInsert
      <4>2. request'[h].at = r.at
        BY <1>1, <2>2, <4>1 DEF TypeOK, Requests
      <4> QED
        BY <2>3, <3>1, <4>2
    <3>3. ASSUME NEW d \in Decks, StarterCreate(h, d)
          PROVE  FALSE
      <4>1. request' = [request EXCEPT ![h] =
             [r EXCEPT !.at = "starterDeck", !.deck = d, !.n = r.n - 1, !.todo = StarterDeck,
                       !.first = FirstDeck(r, d)]]
        BY <2>1, <3>3 DEF StarterCreate
      <4>2. request'[h].at = "starterDeck"
        BY <1>1, <2>2, <4>1 DEF TypeOK, Requests
      <4> QED
        BY <3>1, <4>2
    <3> QED
      BY <2>4, <3>2, <3>3 DEF StarterStep
  <2>6. r.todo = Empty /\ r.n = 0 /\ UNCHANGED <<quantity, decks, deckCards>>
    BY <2>5 DEF StarterActive, cards
  <2>7. r.at = "starterDeck"
    BY <2>2, <2>3, <2>6, StarterCanBeSaved DEF Justified
  <2>8. /\ r.first \in decks /\ r.deck \in decks
        /\ \A c \in Cards : StarterDeck[c] <= quantity[c]
        /\ IF r.first = r.deck THEN Joined(deckCards[r.deck], r.todo) = StarterDeck
           ELSE deckCards[r.first] = StarterDeck
    BY <2>2, <2>7 DEF Justified
  <2>9. decks \subseteq Decks /\ deckCards \in [Decks -> Bags]
    BY <1>1 DEF TypeOK
  <2>10. deckCards[r.first] = StarterDeck
    <3>1. Joined(deckCards[r.deck], Empty) = deckCards[r.deck]
      BY <2>8, <2>9, BagTypes, JoinedBags
    <3> QED
      BY <2>6, <2>8, <3>1
  <2>11. active' = r.first
    BY <2>1, <2>5, <2>8 DEF StarterActive, Refer
  <2>12. ValidDeck(StarterDeck)'
    BY <2>6, <2>8, StarterCanBeSaved DEF ValidDeck, Size
  <2> QED
    BY <2>6, <2>8, <2>9, <2>10, <2>11, <2>12
<1> HIDE DEF Playable
<1>2. ASSUME InductiveInv, QuietInv, [Next]_vars
      PROVE  Given
  <2> SUFFICES ASSUME NEW h \in Handlers, Starting(h), ~Starting(h)', faults' = 0, ~overlapped'
               PROVE  Playable
    OBVIOUS
  <2>1. request'[h] # request[h]
    BY DEF Starting, At
  <2>2. PICK k \in Handlers : RequestStep(k)
    BY <1>2, <2>1 DEF Next, RequestStep, DeleteDeck, vars
  <2>3. k = h
    BY <1>2, <2>1, <2>2, RequestsTyped DEF InductiveInv
  <2> QED
    BY <1>1, <1>2, <2>2, <2>3 DEF InductiveInv, Quiet
<1>3. InductiveInv /\ QuietInv /\ [Next]_vars => [Given]_vars
  <2> HIDE DEF Given
  <2> QED
    BY <1>2
<1>4. [][Given]_vars <=> StarterIsPlayable
  BY PTL DEF Given, Playable, StarterIsPlayable
<1> HIDE DEF Given
<1> QED
  BY <1>3, <1>4, QuietInvHolds, PTL DEF Spec
=============================================================================
