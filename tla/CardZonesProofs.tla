--------------------------- MODULE CardZonesProofs ---------------------------
(***************************************************************************)
(* Proofs about the card zones, for any cards, decks, boards and limits.   *)
(***************************************************************************)
EXTENDS CardZones, SequenceTheorems, FiniteSetTheorems, WellFoundedInduction, TLAPS

USE CardsAreCards, CardsAreFinite, DecksAreSequences, SlotsAreNats, SizesAreNats

----------------------------------------------------------------------------
(* How often a card is in a sequence.                                      *)

Where(s, c) == {i \in DOMAIN s : s[i] = c}

LEMMA WhereIsFinite ==
  ASSUME NEW s \in Seq(Cards), NEW c
  PROVE  IsFiniteSet(Where(s, c)) /\ Cardinality(Where(s, c)) \in Nat
<1>1. Where(s, c) \in SUBSET (1..Len(s)) /\ Len(s) \in Nat
  BY DEF Where
<1>2. IsFiniteSet(1..Len(s))
  BY <1>1, FS_Interval
<1> QED
  BY <1>1, <1>2, FS_Subset, FS_CardinalityType

LEMMA BagOfType ==
  ASSUME NEW s \in Seq(Cards)
  PROVE  /\ BagOf(s) \in [Cards -> Nat]
         /\ \A c \in Cards : BagOf(s)[c] = Cardinality(Where(s, c))
BY WhereIsFinite DEF BagOf, Where

\* The positions of a card in the second of two sequences, put after the first.
LEMMA ShiftedWhere ==
  ASSUME NEW t \in Seq(Cards), NEW c, NEW n \in Nat
  PROVE  LET moved == {i + n : i \in Where(t, c)} IN
         IsFiniteSet(moved) /\ Cardinality(moved) = Cardinality(Where(t, c))
<1> DEFINE moved == {i + n : i \in Where(t, c)}
           f == [i \in Where(t, c) |-> i + n]
<1>1. Where(t, c) \subseteq Int
  BY DEF Where
<1>2. f \in Bijection(Where(t, c), moved)
  BY <1>1 DEF Bijection, Injection, Surjection, IsInjective
<1>3. ExistsBijection(Where(t, c), moved)
  BY <1>2 DEF ExistsBijection
<1> QED
  BY <1>3, WhereIsFinite, FS_Bijection

\* Cards are counted one sequence after the other.
LEMMA BagOfConcat ==
  ASSUME NEW s \in Seq(Cards), NEW t \in Seq(Cards), NEW c \in Cards
  PROVE  /\ s \o t \in Seq(Cards) /\ Len(s \o t) = Len(s) + Len(t)
         /\ BagOf(s \o t)[c] = BagOf(s)[c] + BagOf(t)[c]
<1> DEFINE moved == {i + Len(s) : i \in Where(t, c)}
<1>1. /\ s \o t \in Seq(Cards) /\ Len(s \o t) = Len(s) + Len(t)
      /\ \A i \in 1..Len(s) + Len(t) :
           (s \o t)[i] = IF i <= Len(s) THEN s[i] ELSE t[i - Len(s)]
      /\ Len(s) \in Nat /\ Len(t) \in Nat
      /\ DOMAIN s = 1..Len(s) /\ DOMAIN t = 1..Len(t) /\ DOMAIN (s \o t) = 1..Len(s) + Len(t)
  BY ConcatProperties
<1>2. Where(s \o t, c) = Where(s, c) \cup moved
  <2>1. ASSUME NEW i \in Where(s \o t, c)
        PROVE  i \in Where(s, c) \cup moved
    <3>1. CASE i <= Len(s)
      BY <1>1, <3>1 DEF Where
    <3>2. CASE ~(i <= Len(s))
      <4>1. i - Len(s) \in Where(t, c) /\ i = (i - Len(s)) + Len(s)
        BY <1>1, <3>2 DEF Where
      <4> QED
        BY <4>1
    <3> QED
      BY <3>1, <3>2
  <2>2. ASSUME NEW i \in Where(s, c)
        PROVE  i \in Where(s \o t, c)
    BY <1>1 DEF Where
  <2>3. ASSUME NEW i \in Where(t, c)
        PROVE  i + Len(s) \in Where(s \o t, c)
    <3>1. i \in 1..Len(t) /\ i + Len(s) \in 1..Len(s) + Len(t) /\ ~(i + Len(s) <= Len(s))
          /\ i + Len(s) - Len(s) = i
      BY <1>1 DEF Where
    <3> QED
      BY <1>1, <3>1 DEF Where
  <2> QED
    BY <2>1, <2>2, <2>3
<1>3. Where(s, c) \cap moved = {}
  BY <1>1 DEF Where
<1>4. /\ IsFiniteSet(moved) /\ Cardinality(moved) = Cardinality(Where(t, c))
      /\ IsFiniteSet(Where(s, c)) /\ Cardinality(Where(s, c)) \in Nat
      /\ Cardinality(Where(t, c)) \in Nat
  BY <1>1, ShiftedWhere, WhereIsFinite
<1>5. Cardinality(Where(s \o t, c)) = Cardinality(Where(s, c)) + Cardinality(Where(t, c))
  <2> HIDE DEF moved
  <2>1. Cardinality(Where(s, c) \cup moved)
          = Cardinality(Where(s, c)) + Cardinality(moved) - Cardinality(Where(s, c) \cap moved)
    BY <1>4, FS_Union
  <2>2. Cardinality(Where(s, c) \cap moved) = 0
    BY <1>3, FS_EmptySet
  <2> QED
    BY <1>2, <1>4, <2>1, <2>2
<1> QED
  BY <1>1, <1>5, BagOfType

LEMMA BagOfOne ==
  ASSUME NEW d \in Cards, NEW c \in Cards
  PROVE  <<d>> \in Seq(Cards) /\ BagOf(<<d>>)[c] = IF c = d THEN 1 ELSE 0
<1>1. Where(<<d>>, c) = IF c = d THEN {1} ELSE {}
  BY DEF Where
<1>2. Cardinality({1}) = 1 /\ Cardinality({}) = 0
  BY FS_Singleton, FS_EmptySet
<1>3. <<d>> \in Seq(Cards)
  OBVIOUS
<1>4. BagOf(<<d>>)[c] = Cardinality(Where(<<d>>, c))
  BY <1>3, BagOfType
<1> QED
  BY <1>1, <1>2, <1>3, <1>4

LEMMA BagOfAppend ==
  ASSUME NEW s \in Seq(Cards), NEW d \in Cards, NEW c \in Cards
  PROVE  /\ Append(s, d) \in Seq(Cards) /\ Len(Append(s, d)) = Len(s) + 1
         /\ BagOf(Append(s, d))[c] = BagOf(s)[c] + IF c = d THEN 1 ELSE 0
<1>1. Append(s, d) = s \o <<d>>
  OBVIOUS
<1>2. <<d>> \in Seq(Cards) /\ Len(<<d>>) = 1 /\ BagOf(<<d>>)[c] = IF c = d THEN 1 ELSE 0
  BY BagOfOne
<1>3. /\ s \o <<d>> \in Seq(Cards) /\ Len(s \o <<d>>) = Len(s) + Len(<<d>>)
      /\ BagOf(s \o <<d>>)[c] = BagOf(s)[c] + BagOf(<<d>>)[c]
  BY <1>2, BagOfConcat
<1> QED
  BY <1>1, <1>2, <1>3

\* The cards of a deck before and after a position.
LEMMA BagOfSplit ==
  ASSUME NEW s \in Seq(Cards), NEW n \in 0..Len(s), NEW c \in Cards
  PROVE  /\ SubSeq(s, 1, n) \in Seq(Cards) /\ Len(SubSeq(s, 1, n)) = n
         /\ SubSeq(s, n + 1, Len(s)) \in Seq(Cards)
         /\ BagOf(SubSeq(s, 1, n))[c] + BagOf(SubSeq(s, n + 1, Len(s)))[c] = BagOf(s)[c]
<1>1. Len(s) \in Nat /\ n \in 1 - 1..Len(s) /\ Len(s) \in n..Len(s) /\ 1 \in 1..Len(s) + 1
  OBVIOUS
<1>2. SubSeq(s, 1, n) \o SubSeq(s, n + 1, Len(s)) = s
  BY <1>1, ConcatAdjacentSubSeq, SubSeqFull
<1>3. /\ SubSeq(s, 1, n) \in Seq(Cards) /\ Len(SubSeq(s, 1, n)) = n
      /\ SubSeq(s, n + 1, Len(s)) \in Seq(Cards)
  <2>1. \A i \in 1..n : s[i] \in Cards
    BY <1>1, ElementOfSeq
  <2>2. \A i \in n + 1..Len(s) : s[i] \in Cards
    BY <1>1, ElementOfSeq
  <2> QED
    BY <1>1, <2>1, <2>2, SubSeqProperties
<1>4. BagOf(SubSeq(s, 1, n) \o SubSeq(s, n + 1, Len(s)))[c]
        = BagOf(SubSeq(s, 1, n))[c] + BagOf(SubSeq(s, n + 1, Len(s)))[c]
  BY <1>3, BagOfConcat
<1> QED
  BY <1>2, <1>3, <1>4

\* The sets 0..x for the x of T are finite, so one of them is minimal.
LEMMA LeastOfNaturals ==
  ASSUME NEW T \in SUBSET Nat, T # {}
  PROVE  \E x \in T : \A y \in T : x <= y
<1> DEFINE Below == {0..x : x \in T}
<1>1. Below \subseteq FiniteSubsetsOf(Nat) /\ Below # {}
  <2>1. ASSUME NEW x \in T
        PROVE  IsFiniteSet(0..x) /\ 0..x \in SUBSET Nat
    BY FS_Interval
  <2> QED
    BY <2>1 DEF FiniteSubsetsOf
<1>2. PICK b \in Below : \A c \in Below : ~ (<<c, b>> \in StrictSubsetOrdering(Nat))
  <2> HIDE DEF Below
  <2> QED
    BY <1>1, FS_StrictSubsetOrderingWellFounded, WFMin
<1>3. PICK x \in T : b = 0..x
  OBVIOUS
<1>4. ASSUME NEW y \in T, y < x
      PROVE  FALSE
  <2>1. 0..y \in Below /\ 0..y \subseteq 0..x /\ 0..y # 0..x
    <3>1. x \in 0..x /\ x \notin 0..y
      BY <1>4
    <3> QED
      BY <3>1, <1>4
  <2>2. <<0..y, 0..x>> \in StrictSubsetOrdering(Nat)
    BY <2>1 DEF StrictSubsetOrdering
  <2> QED
    BY <2>1, <2>2, <1>2, <1>3
<1> QED
  BY <1>4

\* The first position of a card that is in a hand.
LEMMA FirstPosition ==
  ASSUME NEW s \in Seq(Cards), NEW c \in ToSet(s)
  PROVE  SelectInSeq(s, LAMBDA v : v = c) \in Where(s, c)
<1> DEFINE I == {i \in 1..Len(s) : s[i] = c}
<1>1. I \in SUBSET Nat /\ I # {} /\ I = Where(s, c)
  BY DEF ToSet, Where
<1>2. \E x \in I : \A y \in I : x <= y
  BY <1>1, LeastOfNaturals
<1>3. Min(I) \in I
  <2> HIDE DEF I
  <2> QED
    BY <1>2 DEF Min
<1>4. SelectInSeq(s, LAMBDA v : v = c) = Min(I)
  BY <1>1 DEF SelectInSeq
<1> QED
  BY <1>1, <1>3, <1>4

LEMMA RemoveFirstTakesOne ==
  ASSUME NEW s \in Seq(Cards), NEW d \in ToSet(s), NEW c \in Cards
  PROVE  /\ d \in Cards
         /\ RemoveFirst(s, d) \in Seq(Cards) /\ Len(RemoveFirst(s, d)) = Len(s) - 1
         /\ BagOf(RemoveFirst(s, d))[c] = BagOf(s)[c] - IF c = d THEN 1 ELSE 0
<1> DEFINE i == SelectInSeq(s, LAMBDA v : v = d)
           front == SubSeq(s, 1, i - 1)
           back == SubSeq(s, i + 1, Len(s))
<1>1. i \in 1..Len(s) /\ s[i] = d /\ d \in Cards /\ Len(s) \in Nat
  <2>1. i \in Where(s, d)
    BY FirstPosition
  <2> HIDE DEF i
  <2>2. DOMAIN s = 1..Len(s) /\ i \in 1..Len(s) /\ s[i] = d
    BY <2>1 DEF Where
  <2> QED
    BY <2>2, ElementOfSeq
<1>2. RemoveFirst(s, d) = front \o back
  <2>1. \E j \in 1..Len(s) : s[j] = d
    BY <1>1
  <2> QED
    BY <2>1 DEF RemoveFirst, RemoveAt
<1> HIDE DEF i
<1>3. /\ front \in Seq(Cards) /\ Len(front) = i - 1
      /\ SubSeq(s, i, Len(s)) \in Seq(Cards)
      /\ BagOf(front)[c] + BagOf(SubSeq(s, i, Len(s)))[c] = BagOf(s)[c]
  <2>1. i - 1 \in 0..Len(s) /\ (i - 1) + 1 = i
    BY <1>1
  <2> QED
    BY <2>1, BagOfSplit
<1>4. back \in Seq(Cards) /\ Len(back) = Len(s) - i
  <2>1. \A j \in i + 1..Len(s) : s[j] \in Cards
    BY <1>1, ElementOfSeq
  <2> QED
    BY <1>1, <2>1, SubSeqProperties
<1>5. SubSeq(s, i, Len(s)) = <<d>> \o back
  <2>1. Len(s) \in i..Len(s)
    BY <1>1
  <2> QED
    BY <1>1, <2>1, SubSeqRecursiveFirst
<1> HIDE DEF front, back
<1>6. BagOf(SubSeq(s, i, Len(s)))[c] = (IF c = d THEN 1 ELSE 0) + BagOf(back)[c]
  <2>1. <<d>> \in Seq(Cards) /\ BagOf(<<d>>)[c] = IF c = d THEN 1 ELSE 0
    BY <1>1, BagOfOne
  <2>2. BagOf(<<d>> \o back)[c] = BagOf(<<d>>)[c] + BagOf(back)[c]
    BY <1>4, <2>1, BagOfConcat
  <2> QED
    BY <1>5, <2>1, <2>2
<1>7. /\ front \o back \in Seq(Cards) /\ Len(front \o back) = Len(front) + Len(back)
      /\ BagOf(front \o back)[c] = BagOf(front)[c] + BagOf(back)[c]
  BY <1>3, <1>4, BagOfConcat
<1>8. /\ BagOf(front)[c] \in Nat /\ BagOf(back)[c] \in Nat /\ BagOf(s)[c] \in Nat
  BY <1>3, <1>4, BagOfType
<1> QED
  BY <1>1, <1>2, <1>3, <1>4, <1>6, <1>7, <1>8

----------------------------------------------------------------------------
(* The number of cards in a bag.                                           *)

CardBags == [Cards -> Nat]
Elements(b) == UNION {{c} \X (1..b[c]) : c \in Cards}

LEMMA ElementsOfBag ==
  ASSUME NEW b \in CardBags
  PROVE  /\ \A x : x \in Elements(b) <=> \E c \in Cards : \E k \in 1..b[c] : x = <<c, k>>
         /\ IsFiniteSet(Elements(b))
         /\ Size(b) = Cardinality(Elements(b)) /\ Size(b) \in Nat
<1> DEFINE columns == {{c} \X (1..b[c]) : c \in Cards}
           f == [c \in Cards |-> {c} \X (1..b[c])]
<1>1. \A x : x \in Elements(b) <=> \E c \in Cards : \E k \in 1..b[c] : x = <<c, k>>
  BY DEF Elements
<1>2. IsFiniteSet(columns)
  <2>1. f \in Surjection(Cards, columns)
    BY DEF Surjection
  <2> HIDE DEF f, columns
  <2> QED
    BY <2>1, FS_Surjection
<1>3. \A T \in columns : IsFiniteSet(T)
  <2>1. ASSUME NEW c \in Cards
        PROVE  IsFiniteSet({c} \X (1..b[c]))
    <3>1. IsFiniteSet({c})
      BY FS_Singleton
    <3>2. b[c] \in Int /\ 1 \in Int
      BY DEF CardBags
    <3>3. IsFiniteSet(1..b[c])
      BY <3>2, FS_Interval
    <3> QED
      BY <3>1, <3>3, FS_Product
  <2> QED
    BY <2>1
<1>4. IsFiniteSet(Elements(b))
  <2> HIDE DEF columns
  <2>1. IsFiniteSet(UNION columns)
    BY <1>2, <1>3, FS_UNION
  <2> QED
    BY <2>1 DEF Elements, columns
<1> QED
  BY <1>1, <1>4, FS_CardinalityType DEF Size, Elements

LEMMA SizeOfEmpty == Empty \in CardBags /\ Size(Empty) = 0
<1>1. Empty \in CardBags
  BY DEF Empty, CardBags
<1>2. Elements(Empty) = {}
  BY <1>1, ElementsOfBag DEF Empty
<1> QED
  BY <1>1, <1>2, ElementsOfBag, FS_EmptySet

LEMMA SizeGrows ==
  ASSUME NEW a \in CardBags, NEW b \in CardBags, \A c \in Cards : a[c] <= b[c]
  PROVE  Size(a) <= Size(b)
<1>1. Elements(a) \in SUBSET Elements(b)
  <2>1. ASSUME NEW c \in Cards, NEW k \in 1..a[c]
        PROVE  k \in 1..b[c]
    BY DEF CardBags
  <2> QED
    BY <2>1, ElementsOfBag
<1> QED
  BY <1>1, ElementsOfBag, FS_Subset

LEMMA SizeOfPlus ==
  ASSUME NEW b \in CardBags, NEW c \in Cards
  PROVE  Plus(b, c) \in CardBags /\ Size(Plus(b, c)) = Size(b) + 1
<1>1. Plus(b, c) \in CardBags
  BY DEF Plus, CardBags
<1> DEFINE x == <<c, b[c] + 1>>
<1>2. Elements(Plus(b, c)) = Elements(b) \cup {x}
  <2>1. ASSUME NEW d \in Cards, NEW k \in 1..Plus(b, c)[d]
        PROVE  k \in 1..b[d] \/ <<d, k>> = x
    BY DEF Plus, CardBags
  <2>2. ASSUME NEW d \in Cards, NEW k \in 1..b[d]
        PROVE  k \in 1..Plus(b, c)[d]
    BY DEF Plus, CardBags
  <2>3. b[c] + 1 \in 1..Plus(b, c)[c]
    BY DEF Plus, CardBags
  <2> QED
    BY <1>1, <2>1, <2>2, <2>3, ElementsOfBag
<1>3. x \notin Elements(b)
  BY ElementsOfBag DEF CardBags
<1> HIDE DEF x
<1> QED
  BY <1>1, <1>2, <1>3, ElementsOfBag, FS_AddElement

LEMMA SizeOfMinus ==
  ASSUME NEW b \in CardBags, NEW c \in Cards, b[c] > 0
  PROVE  Minus(b, c) \in CardBags /\ Size(Minus(b, c)) = Size(b) - 1
<1>1. Minus(b, c) \in CardBags
  BY DEF Minus, CardBags
<1>2. Plus(Minus(b, c), c) = b
  <2>1. Plus(Minus(b, c), c) \in CardBags
    BY <1>1 DEF Plus, CardBags
  <2>2. \A d \in Cards : Plus(Minus(b, c), c)[d] = b[d]
    BY <1>1 DEF Plus, Minus, CardBags
  <2> QED
    BY <2>1, <2>2 DEF CardBags
<1>3. Size(Plus(Minus(b, c), c)) = Size(Minus(b, c)) + 1
  BY <1>1, SizeOfPlus
<1> QED
  BY <1>1, <1>2, <1>3, ElementsOfBag

\* The copies of a card stand at different positions.
LEMMA SizeOfBagOf ==
  ASSUME NEW s \in Seq(Cards)
  PROVE  BagOf(s) \in CardBags /\ Size(BagOf(s)) <= Len(s)
<1>1. BagOf(s) \in CardBags /\ Len(s) \in Nat /\ DOMAIN s = 1..Len(s)
  BY BagOfType DEF CardBags
<1> DEFINE g == [c \in Cards |-> CHOOSE f : f \in Bijection(1..BagOf(s)[c], Where(s, c))]
<1>2. \A c \in Cards : g[c] \in Bijection(1..BagOf(s)[c], Where(s, c))
  <2>1. ASSUME NEW c \in Cards
        PROVE  ExistsBijection(1..BagOf(s)[c], Where(s, c))
    BY WhereIsFinite, BagOfType, FS_CardinalityType
  <2> QED
    BY <2>1 DEF ExistsBijection
<1> HIDE DEF g
<1> DEFINE h == [x \in Elements(BagOf(s)) |-> g[x[1]][x[2]]]
<1>3. h \in Injection(Elements(BagOf(s)), 1..Len(s))
  <2>1. ASSUME NEW x \in Elements(BagOf(s))
        PROVE  /\ x[1] \in Cards /\ x[2] \in 1..BagOf(s)[x[1]] /\ x = <<x[1], x[2]>>
               /\ h[x] \in 1..Len(s) /\ s[h[x]] = x[1]
    <3>1. PICK c \in Cards : \E k \in 1..BagOf(s)[c] : x = <<c, k>>
      BY <1>1, ElementsOfBag
    <3>2. PICK k \in 1..BagOf(s)[c] : x = <<c, k>>
      BY <3>1
    <3>3. g[c][k] \in Where(s, c)
      BY <1>2, <3>2 DEF Bijection, Injection
    <3>4. g[c][k] \in 1..Len(s) /\ s[g[c][k]] = c
      BY <1>1, <3>3 DEF Where
    <3> QED
      BY <3>2, <3>4
  <2>2. ASSUME NEW x \in Elements(BagOf(s)), NEW y \in Elements(BagOf(s)), h[x] = h[y]
        PROVE  x = y
    <3>1. x[1] = y[1]
      BY <2>1, <2>2
    <3>2. g[x[1]][x[2]] = g[x[1]][y[2]]
      BY <2>2, <3>1
    <3>3. x[2] = y[2]
      <4>1. g[x[1]] \in Injection(1..BagOf(s)[x[1]], Where(s, x[1]))
        BY <1>2, <2>1 DEF Bijection
      <4>2. x[2] \in 1..BagOf(s)[x[1]] /\ y[2] \in 1..BagOf(s)[x[1]]
        BY <2>1, <3>1
      <4> QED
        BY <3>2, <4>1, <4>2 DEF Injection, IsInjective
    <3> QED
      BY <2>1, <3>1, <3>3
  <2> HIDE DEF h
  <2>3. h \in [Elements(BagOf(s)) -> 1..Len(s)]
    BY <2>1 DEF h
  <2>4. IsInjective(h)
    BY <2>2, <2>3 DEF IsInjective
  <2> QED
    BY <2>3, <2>4 DEF Injection
<1>4. IsFiniteSet(1..Len(s)) /\ Cardinality(1..Len(s)) = Len(s)
  <2> HIDE DEF h
  <2>1. 1 \in Int /\ Len(s) \in Int
    BY <1>1
  <2>2. /\ IsFiniteSet(1..Len(s))
        /\ Cardinality(1..Len(s)) = IF 1 > Len(s) THEN 0 ELSE Len(s) - 1 + 1
    BY <2>1, FS_Interval
  <2> QED
    BY <1>1, <2>2
<1> HIDE DEF h
<1>5. Cardinality(Elements(BagOf(s))) <= Len(s)
  BY <1>3, <1>4, FS_Injection
<1> QED
  BY <1>1, <1>5, ElementsOfBag

\* A bag to which the cards of another one are added.
LEMMA SizeOfSum ==
  ASSUME NEW a \in CardBags, NEW b \in CardBags, NEW e \in CardBags,
         \A c \in Cards : e[c] = a[c] + b[c]
  PROVE  Size(e) <= Size(a) + Size(b)
<1> DEFINE added == Elements(e) \ Elements(a)
           h == [x \in added |-> <<x[1], x[2] - a[x[1]]>>]
<1>1. ASSUME NEW x \in added
      PROVE  /\ x[1] \in Cards /\ x[2] \in Nat /\ a[x[1]] \in Nat /\ x = <<x[1], x[2]>>
             /\ h[x] \in Elements(b)
  <2>1. PICK c \in Cards : \E k \in 1..e[c] : x = <<c, k>>
    BY ElementsOfBag
  <2>2. PICK k \in 1..e[c] : x = <<c, k>>
    BY <2>1
  <2>3. k \notin 1..a[c] /\ a[c] \in Nat /\ b[c] \in Nat /\ e[c] = a[c] + b[c]
    BY <2>2, ElementsOfBag DEF CardBags
  <2>4. k - a[c] \in 1..b[c] /\ k \in Nat
    BY <2>3
  <2>5. <<c, k - a[c]>> \in Elements(b)
    BY <2>4, ElementsOfBag
  <2> QED
    BY <2>2, <2>3, <2>4, <2>5
<1>2. h \in Injection(added, Elements(b))
  <2>1. ASSUME NEW x \in added, NEW y \in added, h[x] = h[y]
        PROVE  x = y
    <3>1. x[1] = y[1] /\ x[2] - a[x[1]] = y[2] - a[y[1]]
      BY <2>1
    <3>2. x[2] - a[x[1]] = y[2] - a[x[1]] /\ a[x[1]] \in Nat /\ x[2] \in Nat /\ y[2] \in Nat
      BY <1>1, <3>1
    <3>3. x[2] = y[2]
      BY <3>2
    <3> QED
      BY <1>1, <3>1, <3>3
  <2>2. h \in [added -> Elements(b)]
    BY <1>1
  <2> QED
    BY <2>1, <2>2 DEF Injection, IsInjective
<1>3. IsFiniteSet(added) /\ Cardinality(added) <= Cardinality(Elements(b))
  <2> HIDE DEF added, h
  <2> QED
    BY <1>2, ElementsOfBag, FS_Injection
<1>4. Cardinality(added) = Cardinality(Elements(e)) - Cardinality(Elements(e) \cap Elements(a))
  BY ElementsOfBag, FS_Difference
<1>5. Cardinality(Elements(e) \cap Elements(a)) <= Cardinality(Elements(a))
  BY ElementsOfBag, FS_Intersection
<1>6. /\ Cardinality(added) \in Nat /\ Cardinality(Elements(e)) \in Nat
      /\ Cardinality(Elements(e) \cap Elements(a)) \in Nat
  <2>1. IsFiniteSet(Elements(e) \cap Elements(a))
    BY ElementsOfBag, FS_Intersection
  <2> HIDE DEF added
  <2> QED
    BY <1>3, <2>1, ElementsOfBag, FS_CardinalityType
<1> HIDE DEF added
<1> QED
  BY <1>3, <1>4, <1>5, <1>6, ElementsOfBag

----------------------------------------------------------------------------
(* Decks and draw piles.                                                   *)

LEMMA TopUpFits ==
  ASSUME TypeOK, NEW p \in Players
  PROVE  /\ TopUpSize(p) \in 0..Len(deck[p])
         /\ TopUpSize(p) = 0 \/ Size(drawPile[p]) + TopUpSize(p) <= MaxDrawPile
<1>1. Size(drawPile[p]) \in Nat /\ Len(deck[p]) \in Nat
  BY ElementsOfBag DEF TypeOK, CardBags
<1> DEFINE space == MaxDrawPile - Size(drawPile[p])
           limits == {DrawPileTopUp, space, Len(deck[p])}
           n == CHOOSE k \in limits : \A m \in limits : k <= m
<1>2. CASE space <= 0
  BY <1>1, <1>2 DEF TopUpSize
<1>3. CASE ~(space <= 0)
  <2>1. \E k \in limits : \A m \in limits : k <= m
    BY <1>1
  <2>2. n \in limits /\ \A m \in limits : n <= m
    BY <2>1
  <2>3. TopUpSize(p) = n
    BY <1>3 DEF TopUpSize
  <2> HIDE DEF n
  <2>4. n \in Nat /\ n <= Len(deck[p]) /\ n <= MaxDrawPile - Size(drawPile[p])
    BY <1>1, <1>3, <2>2
  <2> QED
    BY <1>1, <2>3, <2>4
<1> QED
  BY <1>2, <1>3

\* The cards that leave the deck are those the draw pile gets, and no pile grows
\* beyond its limit by a top-up.
LEMMA TopUpMovesCards ==
  ASSUME TypeOK, TopUpDrawPiles
  PROVE  /\ deck' \in [Players -> Seq(Cards)] /\ drawPile' \in [Players -> [Cards -> Nat]]
         /\ \A p \in Players, c \in Cards :
              BagOf(deck'[p])[c] + drawPile'[p][c] = BagOf(deck[p])[c] + drawPile[p][c]
         /\ \A p \in Players :
              Size(drawPile'[p]) <= MaxDrawPile \/ drawPile'[p] = drawPile[p]
<1> DEFINE top(p) == SubSeq(deck[p], 1, TopUpSize(p))
           rest(p) == SubSeq(deck[p], TopUpSize(p) + 1, Len(deck[p]))
<1>1. \A p \in Players : drawPile'[p] = [c \in Cards |-> drawPile[p][c] + BagOf(top(p))[c]]
  BY DEF TopUpDrawPiles
<1>2. \A p \in Players : deck'[p] = rest(p)
  BY DEF TopUpDrawPiles
<1>3. ASSUME NEW p \in Players
      PROVE  /\ deck'[p] \in Seq(Cards) /\ drawPile'[p] \in CardBags
             /\ \A c \in Cards :
                  BagOf(deck'[p])[c] + drawPile'[p][c] = BagOf(deck[p])[c] + drawPile[p][c]
             /\ Size(drawPile'[p]) <= MaxDrawPile \/ drawPile'[p] = drawPile[p]
  <2>1. /\ deck[p] \in Seq(Cards) /\ drawPile[p] \in CardBags
        /\ TopUpSize(p) \in 0..Len(deck[p])
        /\ TopUpSize(p) = 0 \/ Size(drawPile[p]) + TopUpSize(p) <= MaxDrawPile
    BY TopUpFits DEF TypeOK, CardBags
  <2>2. ASSUME NEW c \in Cards
        PROVE  /\ top(p) \in Seq(Cards) /\ Len(top(p)) = TopUpSize(p) /\ rest(p) \in Seq(Cards)
               /\ BagOf(top(p))[c] + BagOf(rest(p))[c] = BagOf(deck[p])[c]
    BY <2>1, BagOfSplit
  <2>3. top(p) \in Seq(Cards) /\ Len(top(p)) = TopUpSize(p) /\ rest(p) \in Seq(Cards)
    BY <2>2, CardsAreCards
  <2> HIDE DEF top, rest
  <2>4. /\ BagOf(top(p)) \in CardBags /\ BagOf(rest(p)) \in CardBags /\ BagOf(deck[p]) \in CardBags
        /\ Size(BagOf(top(p))) <= TopUpSize(p)
    BY <2>1, <2>3, SizeOfBagOf
  <2>5. drawPile'[p] \in CardBags
    <3>1. \A c \in Cards : drawPile[p][c] + BagOf(top(p))[c] \in Nat
      BY <2>1, <2>4 DEF CardBags
    <3> QED
      BY <1>1, <3>1 DEF CardBags
  <2>6. \A c \in Cards : drawPile'[p][c] = drawPile[p][c] + BagOf(top(p))[c]
    BY <1>1
  <2>7. \A c \in Cards :
          BagOf(deck'[p])[c] + drawPile'[p][c] = BagOf(deck[p])[c] + drawPile[p][c]
    BY <1>2, <2>1, <2>2, <2>4, <2>6 DEF CardBags
  <2>8. Size(drawPile'[p]) <= Size(drawPile[p]) + Size(BagOf(top(p)))
    BY <2>1, <2>4, <2>5, <2>6, SizeOfSum
  <2>9. CASE TopUpSize(p) = 0
    <3>1. Size(BagOf(top(p))) = 0
      BY <2>4, <2>9, ElementsOfBag
    <3>2. Elements(BagOf(top(p))) = {}
      BY <2>4, <3>1, ElementsOfBag, FS_EmptySet
    <3>3. \A c \in Cards : BagOf(top(p))[c] = 0
      <4>1. ASSUME NEW c \in Cards, BagOf(top(p))[c] # 0
            PROVE  FALSE
        <5>1. 1 \in 1..BagOf(top(p))[c]
          BY <2>4, <4>1 DEF CardBags
        <5>2. <<c, 1>> \in Elements(BagOf(top(p)))
          BY <2>4, <5>1, ElementsOfBag
        <5> QED
          BY <3>2, <5>2
      <4> QED
        BY <4>1
    <3>4. drawPile'[p] = drawPile[p]
      <4>1. \A c \in Cards : drawPile'[p][c] = drawPile[p][c]
        <5>1. \A c \in Cards : drawPile[p][c] \in Nat
          BY <2>1 DEF CardBags
        <5> QED
          BY <2>6, <3>3, <5>1
      <4> QED
        BY <2>1, <2>5, <4>1 DEF CardBags
    <3> QED
      BY <1>2, <2>3, <2>5, <2>7, <3>4
  <2>10. CASE TopUpSize(p) # 0
    <3>1. Size(drawPile'[p]) <= MaxDrawPile
      BY <2>1, <2>4, <2>5, <2>8, <2>10, ElementsOfBag
    <3> QED
      BY <1>2, <2>3, <2>5, <2>7, <3>1
  <2> QED
    BY <2>9, <2>10
<1>4. deck' \in [Players -> Seq(Cards)]
  BY <1>2, <1>3 DEF TopUpDrawPiles
<1>5. drawPile' \in [Players -> [Cards -> Nat]]
  BY <1>1, <1>3 DEF TopUpDrawPiles, CardBags
<1> QED
  BY <1>3, <1>4, <1>5

----------------------------------------------------------------------------
(* The steps.                                                              *)

\* What holds of every bag and hand of a player.
LEMMA ZonesAreTyped ==
  ASSUME ZonesInv, NEW p \in Players
  PROVE  /\ deck[p] \in Seq(Cards) /\ hand[p] \in Seq(Cards)
         /\ drawPile[p] \in CardBags /\ selected[p] \in CardBags /\ owned[p] \in CardBags
         /\ BagOf(deck[p]) \in CardBags /\ BagOf(hand[p]) \in CardBags
         /\ Size(drawPile[p]) \in Nat /\ Size(selected[p]) \in Nat
         /\ Len(hand[p]) \in Nat
         /\ Size(selected[p]) <= Len(hand[p])
<1>1. /\ deck[p] \in Seq(Cards) /\ hand[p] \in Seq(Cards)
      /\ drawPile[p] \in CardBags /\ selected[p] \in CardBags /\ owned[p] \in CardBags
  BY DEF ZonesInv, TypeOK, CardBags
<1>2. /\ BagOf(deck[p]) \in CardBags /\ BagOf(hand[p]) \in CardBags
      /\ Size(BagOf(hand[p])) <= Len(hand[p]) /\ Size(BagOf(hand[p])) \in Nat
  BY <1>1, SizeOfBagOf, ElementsOfBag
<1>3. Size(selected[p]) <= Size(BagOf(hand[p]))
  <2>1. \A c \in Cards : selected[p][c] <= BagOf(hand[p])[c]
    BY DEF ZonesInv, SelectedInHand
  <2> QED
    BY <1>1, <1>2, <2>1, SizeGrows
<1>4. Size(drawPile[p]) \in Nat /\ Size(selected[p]) \in Nat /\ Len(hand[p]) \in Nat
  BY <1>1, ElementsOfBag
<1> QED
  BY <1>1, <1>2, <1>3, <1>4

\* What ZonesInv says of the zones of one player.
Sound(d, w, h, s, o, active) ==
  /\ \A c \in Cards : BagOf(d)[c] + w[c] + BagOf(h)[c] = o[c]
  /\ \A c \in Cards : s[c] <= BagOf(h)[c]
  /\ active => s = Empty
  /\ Len(h) <= MaxHand
  /\ Size(w) + Size(s) <= MaxDrawPile + MaxHand

LEMMA SoundBefore ==
  ASSUME ZonesInv, NEW p \in Players
  PROVE  Sound(deck[p], drawPile[p], hand[p], selected[p], owned[p], phase = "ACTIVE")
BY DEF ZonesInv, CardsConserved, SelectedInHand, PilesBounded, Sound

LEMMA SoundAfter ==
  ASSUME TypeOK',
         \A p \in Players :
           Sound(deck'[p], drawPile'[p], hand'[p], selected'[p], owned'[p], phase' = "ACTIVE")
  PROVE  ZonesInv'
<1>1. CardsConserved'
  BY DEF CardsConserved, Sound, BagOf
<1>2. SelectedInHand'
  BY DEF SelectedInHand, Sound, BagOf, Empty
<1>3. PilesBounded'
  BY DEF PilesBounded, Sound, Size
<1> QED
  BY <1>1, <1>2, <1>3 DEF ZonesInv

\* A step that leaves the piles alone, and starts no round.
LEMMA StillZonesStep ==
  ASSUME ZonesInv, UNCHANGED <<zones, owned>>, phase' = "ACTIVE" => phase = "ACTIVE", TypeOK'
  PROVE  ZonesInv'
<1>1. ASSUME NEW p \in Players
      PROVE  Sound(deck'[p], drawPile'[p], hand'[p], selected'[p], owned'[p], phase' = "ACTIVE")
  <2>1. Sound(deck[p], drawPile[p], hand[p], selected[p], owned[p], phase = "ACTIVE")
    BY SoundBefore
  <2> QED
    BY <2>1 DEF zones, Sound
<1> QED
  BY <1>1, SoundAfter

LEMMA LoadDeckStep ==
  ASSUME ZonesInv, LoadDeck
  PROVE  ZonesInv'
<1> DEFINE p == loads + 1
<1>1. p \in Players /\ loads' \in 0..2
  BY DEF LoadDeck, ZonesInv, TypeOK, Players
<1>2. /\ deck' \in [Players -> Seq(Cards)] /\ owned' \in [Players -> [Cards -> Nat]]
      /\ CardsConserved'
  <2>1. CASE UNCHANGED <<deck, owned>>
    BY <2>1 DEF LoadDeck, ZonesInv, TypeOK, CardsConserved
  <2>2. ASSUME NEW d \in Decks, deck' = [deck EXCEPT ![p] = d],
               owned' = [owned EXCEPT ![p] =
                           [c \in Cards |-> @[c] - BagOf(deck[p])[c] + BagOf(d)[c]]]
        PROVE  /\ deck' \in [Players -> Seq(Cards)] /\ owned' \in [Players -> [Cards -> Nat]]
               /\ CardsConserved'
    <3>1. d \in Seq(Cards) /\ BagOf(d) \in CardBags
      BY SizeOfBagOf
    <3>2. /\ deck[p] \in Seq(Cards) /\ owned[p] \in CardBags /\ drawPile[p] \in CardBags
          /\ BagOf(deck[p]) \in CardBags /\ BagOf(hand[p]) \in CardBags
      BY <1>1, ZonesAreTyped
    <3>3. \A c \in Cards :
            BagOf(deck[p])[c] + drawPile[p][c] + BagOf(hand[p])[c] = owned[p][c]
      BY <1>1 DEF ZonesInv, CardsConserved
    <3>4. \A c \in Cards : owned'[p][c] = owned[p][c] - BagOf(deck[p])[c] + BagOf(d)[c]
      BY <1>1, <2>2 DEF ZonesInv, TypeOK
    <3>5. \A c \in Cards : /\ owned'[p][c] \in Nat
                           /\ BagOf(d)[c] + drawPile[p][c] + BagOf(hand[p])[c] = owned'[p][c]
      <4>1. ASSUME NEW c \in Cards
            PROVE  /\ owned'[p][c] \in Nat
                   /\ BagOf(d)[c] + drawPile[p][c] + BagOf(hand[p])[c] = owned'[p][c]
        <5> HIDE DEF p
        <5>1. /\ BagOf(d)[c] \in Nat /\ drawPile[p][c] \in Nat /\ BagOf(hand[p])[c] \in Nat
              /\ BagOf(deck[p])[c] \in Nat /\ owned[p][c] \in Nat
          BY <3>1, <3>2 DEF CardBags
        <5> QED
          BY <3>3, <3>4, <5>1
      <4> QED
        BY <4>1
    <3>6. deck' \in [Players -> Seq(Cards)]
      BY <1>1, <2>2, <3>1 DEF ZonesInv, TypeOK
    <3>7. [c \in Cards |-> owned[p][c] - BagOf(deck[p])[c] + BagOf(d)[c]] \in [Cards -> Nat]
      BY <3>4, <3>5
    <3>8. owned' \in [Players -> [Cards -> Nat]]
      BY <1>1, <2>2, <3>7 DEF ZonesInv, TypeOK
    <3>9. CardsConserved'
      <4>1. ASSUME NEW q \in Players, NEW c \in Cards
            PROVE  BagOf(deck'[q])[c] + drawPile'[q][c] + BagOf(hand'[q])[c] = owned'[q][c]
        <5>1. UNCHANGED <<drawPile, hand>>
          BY DEF LoadDeck
        <5>2. CASE q = p
          <6>1. deck'[p] = d
            BY <1>1, <2>2 DEF ZonesInv, TypeOK
          <6> QED
            BY <3>5, <5>1, <5>2, <6>1
        <5>3. CASE q # p
          <6>1. deck'[q] = deck[q] /\ owned'[q] = owned[q]
            BY <1>1, <2>2, <5>3 DEF ZonesInv, TypeOK
          <6> QED
            BY <5>1, <6>1 DEF ZonesInv, CardsConserved
        <5> QED
          BY <5>2, <5>3
      <4> QED
        BY <4>1 DEF CardsConserved, BagOf
    <3> QED
      BY <3>6, <3>8, <3>9
  <2> QED
    BY <2>1, <2>2 DEF LoadDeck
<1>3. UNCHANGED <<phase, drawPile, hand, selected, board, returned>>
  BY DEF LoadDeck
<1>4. TypeOK'
  BY <1>1, <1>2, <1>3 DEF ZonesInv, TypeOK
<1>5. SelectedInHand'
  BY <1>3 DEF ZonesInv, SelectedInHand, BagOf, Empty
<1>6. PilesBounded'
  BY <1>3 DEF ZonesInv, PilesBounded, Size
<1> QED
  BY <1>2, <1>4, <1>5, <1>6 DEF ZonesInv

LEMMA StartRoundStep ==
  ASSUME ZonesInv, StartRound
  PROVE  ZonesInv'
<1>1. TypeOK'
  BY SizeOfEmpty DEF StartRound, ZonesInv, TypeOK, Phases, CardBags
<1>2. ASSUME NEW p \in Players
      PROVE  Sound(deck'[p], drawPile'[p], hand'[p], selected'[p], owned'[p], phase' = "ACTIVE")
  <2>1. Sound(deck[p], drawPile[p], hand[p], selected[p], owned[p], phase = "ACTIVE")
    BY SoundBefore
  <2>2. selected'[p] = Empty /\ UNCHANGED <<deck, drawPile, hand, owned>>
    BY DEF StartRound
  <2>3. Size(Empty) <= Size(selected[p]) /\ Size(selected[p]) \in Nat /\ Size(drawPile[p]) \in Nat
    BY SizeOfEmpty, ZonesAreTyped
  <2>4. \A c \in Cards : Empty[c] <= BagOf(hand[p])[c]
    BY ZonesAreTyped DEF Empty, CardBags
  <2> QED
    BY <2>1, <2>2, <2>3, <2>4, SizeOfEmpty DEF Sound
<1> QED
  BY <1>1, <1>2, SoundAfter

\* A step that tops the draw piles up, and starts no round.
LEMMA TopUpStep ==
  ASSUME ZonesInv, TopUpDrawPiles, UNCHANGED <<hand, selected, owned, loads, board, returned>>,
         phase' = "PRE_TURN"
  PROVE  ZonesInv'
<1>1. /\ deck' \in [Players -> Seq(Cards)] /\ drawPile' \in [Players -> [Cards -> Nat]]
      /\ \A p \in Players, c \in Cards :
           BagOf(deck'[p])[c] + drawPile'[p][c] = BagOf(deck[p])[c] + drawPile[p][c]
      /\ \A p \in Players :
           Size(drawPile'[p]) <= MaxDrawPile \/ drawPile'[p] = drawPile[p]
  BY TopUpMovesCards DEF ZonesInv
<1>2. TypeOK'
  BY <1>1 DEF ZonesInv, TypeOK, Phases
<1>3. ASSUME NEW p \in Players
      PROVE  Sound(deck'[p], drawPile'[p], hand'[p], selected'[p], owned'[p], phase' = "ACTIVE")
  <2>1. Sound(deck[p], drawPile[p], hand[p], selected[p], owned[p], phase = "ACTIVE")
    BY SoundBefore
  <2>2. /\ Size(drawPile[p]) \in Nat /\ Size(selected[p]) \in Nat /\ Len(hand[p]) \in Nat
        /\ Size(selected[p]) <= Len(hand[p])
    BY ZonesAreTyped
  <2>3. drawPile'[p] \in CardBags /\ Size(drawPile'[p]) \in Nat
    BY <1>1, ElementsOfBag DEF CardBags
  <2>4. Size(drawPile'[p]) + Size(selected[p]) <= MaxDrawPile + MaxHand
    <3>1. /\ Len(hand[p]) <= MaxHand
          /\ Size(drawPile[p]) + Size(selected[p]) <= MaxDrawPile + MaxHand
      BY <2>1 DEF Sound
    <3>2. Size(drawPile'[p]) <= MaxDrawPile \/ Size(drawPile'[p]) = Size(drawPile[p])
      BY <1>1
    <3> QED
      BY <2>2, <2>3, <3>1, <3>2
  <2>5. \A c \in Cards : BagOf(deck'[p])[c] + drawPile'[p][c] + BagOf(hand[p])[c] = owned[p][c]
    BY <1>1, <2>1 DEF Sound
  <2> QED
    BY <2>1, <2>4, <2>5 DEF Sound
<1> QED
  BY <1>2, <1>3, SoundAfter

LEMMA JoinGameStep ==
  ASSUME ZonesInv, JoinGame
  PROVE  ZonesInv'
<1>1. CASE phase' = "PRE_TURN"
  <2>1. TopUpDrawPiles /\ UNCHANGED <<hand, selected, owned, loads, board, returned>>
    BY <1>1 DEF JoinGame
  <2> QED
    BY <1>1, <2>1, TopUpStep
<1>2. CASE phase' # "PRE_TURN"
  <2>1. UNCHANGED <<zones, owned>> /\ phase' = phase
    BY <1>2 DEF JoinGame, zones
  <2>2. TypeOK'
    BY <2>1 DEF JoinGame, ZonesInv, TypeOK, zones
  <2> QED
    BY <2>1, <2>2, StillZonesStep
<1> QED
  BY <1>1, <1>2

LEMMA EndRoundStep ==
  ASSUME ZonesInv, EndRound
  PROVE  ZonesInv'
BY TopUpStep DEF EndRound

\* The steps that move no card between the piles.
LEMMA BoardStep ==
  ASSUME ZonesInv,
         \/ Reconnect \/ EndGame
         \/ \E p \in Players, s \in Slots : Board(p, s)
  PROVE  ZonesInv'
<1>1. CASE Reconnect \/ EndGame
  <2>1. UNCHANGED <<zones, owned, loads, board, returned>> /\ phase' \in {"PRE_TURN", "GAME_OVER"}
    BY <1>1 DEF Reconnect, EndGame
  <2>2. TypeOK'
    BY <2>1 DEF ZonesInv, TypeOK, zones, Phases
  <2> QED
    BY <2>1, <2>2, StillZonesStep
<1>2. ASSUME NEW p \in Players, NEW s \in Slots, Board(p, s)
      PROVE  ZonesInv'
  <2>1. UNCHANGED <<zones, owned, loads, phase, returned>>
    BY <1>2 DEF Board, DebugPlaceUnit, TickBoard
  <2>2. PICK c \in Cards \cup {NoCard} : board' = [board EXCEPT ![p][s] = c]
    BY <1>2 DEF Board, DebugPlaceUnit, TickBoard
  <2>3. board' \in [Players -> [Slots -> Cards \cup {NoCard}]]
    BY <2>2 DEF ZonesInv, TypeOK
  <2>4. TypeOK'
    BY <2>1, <2>3 DEF ZonesInv, TypeOK, zones
  <2> QED
    BY <2>1, <2>4, StillZonesStep
<1> QED
  BY <1>1, <1>2

----------------------------------------------------------------------------
(* Hands.                                                                  *)

\* A card of the draw pile joins the hand and what is selected, in one step.
LEMMA SelectMoves ==
  ASSUME ZonesInv, NEW p \in Players, NEW c \in Cards, SelectCard(p, c)
  PROVE  /\ drawPile'[p] = Minus(drawPile[p], c) /\ hand'[p] = Append(hand[p], c)
         /\ selected'[p] = Plus(selected[p], c)
         /\ \A q \in Players \ {p} : /\ drawPile'[q] = drawPile[q] /\ hand'[q] = hand[q]
                                     /\ selected'[q] = selected[q]
         /\ drawPile'[p] \in CardBags /\ hand'[p] \in Seq(Cards) /\ selected'[p] \in CardBags
         /\ Size(drawPile'[p]) = Size(drawPile[p]) - 1 /\ Size(selected'[p]) = Size(selected[p]) + 1
         /\ Len(hand'[p]) = Len(hand[p]) + 1
         /\ \A d \in Cards : LET one == IF d = c THEN 1 ELSE 0 IN
              /\ drawPile'[p][d] = drawPile[p][d] - one
              /\ selected'[p][d] = selected[p][d] + one
              /\ BagOf(hand'[p])[d] = BagOf(hand[p])[d] + one
<1>1. /\ drawPile[p] \in CardBags /\ hand[p] \in Seq(Cards) /\ selected[p] \in CardBags
  BY ZonesAreTyped
<1>2. /\ drawPile'[p] = Minus(drawPile[p], c) /\ hand'[p] = Append(hand[p], c)
      /\ selected'[p] = Plus(selected[p], c) /\ drawPile[p][c] > 0
      /\ \A q \in Players \ {p} : /\ drawPile'[q] = drawPile[q] /\ hand'[q] = hand[q]
                                  /\ selected'[q] = selected[q]
  BY DEF SelectCard, ZonesInv, TypeOK
<1>3. /\ drawPile'[p] \in CardBags /\ Size(drawPile'[p]) = Size(drawPile[p]) - 1
      /\ selected'[p] \in CardBags /\ Size(selected'[p]) = Size(selected[p]) + 1
  BY <1>1, <1>2, SizeOfPlus, SizeOfMinus
<1>4. ASSUME NEW d \in Cards
      PROVE  /\ drawPile'[p][d] = drawPile[p][d] - IF d = c THEN 1 ELSE 0
             /\ selected'[p][d] = selected[p][d] + IF d = c THEN 1 ELSE 0
  <2>1. drawPile[p][d] \in Nat /\ selected[p][d] \in Nat
    BY <1>1 DEF CardBags
  <2> QED
    BY <1>1, <1>2, <2>1 DEF Plus, Minus, CardBags
<1>5. ASSUME NEW d \in Cards
      PROVE  /\ hand'[p] \in Seq(Cards) /\ Len(hand'[p]) = Len(hand[p]) + 1
             /\ BagOf(hand'[p])[d] = BagOf(hand[p])[d] + IF d = c THEN 1 ELSE 0
  BY <1>1, <1>2, BagOfAppend
<1> QED
  BY <1>2, <1>3, <1>4, <1>5

LEMMA DeselectMoves ==
  ASSUME ZonesInv, NEW p \in Players, NEW c \in Cards, DeselectCard(p, c)
  PROVE  /\ drawPile'[p] = Plus(drawPile[p], c) /\ hand'[p] = RemoveFirst(hand[p], c)
         /\ selected'[p] = Minus(selected[p], c)
         /\ \A q \in Players \ {p} : /\ drawPile'[q] = drawPile[q] /\ hand'[q] = hand[q]
                                     /\ selected'[q] = selected[q]
         /\ drawPile'[p] \in CardBags /\ hand'[p] \in Seq(Cards) /\ selected'[p] \in CardBags
         /\ Size(drawPile'[p]) = Size(drawPile[p]) + 1 /\ Size(selected'[p]) = Size(selected[p]) - 1
         /\ Len(hand'[p]) = Len(hand[p]) - 1
         /\ \A d \in Cards : LET one == IF d = c THEN 1 ELSE 0 IN
              /\ drawPile'[p][d] = drawPile[p][d] + one
              /\ selected'[p][d] = selected[p][d] - one
              /\ BagOf(hand'[p])[d] = BagOf(hand[p])[d] - one
<1>1. /\ drawPile[p] \in CardBags /\ hand[p] \in Seq(Cards) /\ selected[p] \in CardBags
  BY ZonesAreTyped
<1>2. /\ drawPile'[p] = Plus(drawPile[p], c) /\ hand'[p] = RemoveFirst(hand[p], c)
      /\ selected'[p] = Minus(selected[p], c) /\ selected[p][c] > 0 /\ c \in ToSet(hand[p])
      /\ \A q \in Players \ {p} : /\ drawPile'[q] = drawPile[q] /\ hand'[q] = hand[q]
                                  /\ selected'[q] = selected[q]
  BY DEF DeselectCard, InHand, ZonesInv, TypeOK
<1>3. /\ drawPile'[p] \in CardBags /\ Size(drawPile'[p]) = Size(drawPile[p]) + 1
      /\ selected'[p] \in CardBags /\ Size(selected'[p]) = Size(selected[p]) - 1
  BY <1>1, <1>2, SizeOfPlus, SizeOfMinus
<1>4. ASSUME NEW d \in Cards
      PROVE  /\ drawPile'[p][d] = drawPile[p][d] + IF d = c THEN 1 ELSE 0
             /\ selected'[p][d] = selected[p][d] - IF d = c THEN 1 ELSE 0
  <2>1. drawPile[p][d] \in Nat /\ selected[p][d] \in Nat
    BY <1>1 DEF CardBags
  <2> QED
    BY <1>1, <1>2, <2>1 DEF Plus, Minus, CardBags
<1>5. ASSUME NEW d \in Cards
      PROVE  /\ hand'[p] \in Seq(Cards) /\ Len(hand'[p]) = Len(hand[p]) - 1
             /\ BagOf(hand'[p])[d] = BagOf(hand[p])[d] - IF d = c THEN 1 ELSE 0
  BY <1>1, <1>2, RemoveFirstTakesOne
<1> QED
  BY <1>2, <1>3, <1>4, <1>5

LEMMA HandStep ==
  ASSUME ZonesInv, NEW p \in Players, NEW c \in Cards, SelectCard(p, c) \/ DeselectCard(p, c)
  PROVE  ZonesInv'
<1>1. UNCHANGED <<phase, loads, deck, board, owned, returned>> /\ phase # "ACTIVE"
  BY DEF SelectCard, DeselectCard
<1>2. TypeOK'
  <2>1. /\ DOMAIN drawPile' = Players /\ DOMAIN hand' = Players /\ DOMAIN selected' = Players
        /\ drawPile' = [q \in Players |-> drawPile'[q]]
        /\ hand' = [q \in Players |-> hand'[q]]
        /\ selected' = [q \in Players |-> selected'[q]]
    BY DEF SelectCard, DeselectCard, ZonesInv, TypeOK
  <2>2. \A q \in Players : /\ drawPile'[q] \in CardBags /\ hand'[q] \in Seq(Cards)
                           /\ selected'[q] \in CardBags
    BY SelectMoves, DeselectMoves, ZonesAreTyped
  <2>3. /\ drawPile' \in [Players -> CardBags] /\ hand' \in [Players -> Seq(Cards)]
        /\ selected' \in [Players -> CardBags]
    BY <2>1, <2>2
  <2> QED
    BY <1>1, <2>3 DEF ZonesInv, TypeOK, CardBags
<1>3. ASSUME NEW q \in Players
      PROVE  Sound(deck'[q], drawPile'[q], hand'[q], selected'[q], owned'[q], phase' = "ACTIVE")
  <2>1. Sound(deck[q], drawPile[q], hand[q], selected[q], owned[q], phase = "ACTIVE")
    BY SoundBefore
  <2>2. CASE q # p
    <3>1. drawPile'[q] = drawPile[q] /\ hand'[q] = hand[q] /\ selected'[q] = selected[q]
      BY <2>2, SelectMoves, DeselectMoves
    <3> QED
      BY <1>1, <2>1, <3>1 DEF Sound
  <2>3. CASE q = p
    <3>1. PICK k \in {1, -1} :
            /\ Size(drawPile'[p]) = Size(drawPile[p]) - k
            /\ Size(selected'[p]) = Size(selected[p]) + k
            /\ Len(hand'[p]) <= MaxHand
            /\ \A d \in Cards : LET one == IF d = c THEN k ELSE 0 IN
                 /\ drawPile'[p][d] = drawPile[p][d] - one
                 /\ selected'[p][d] = selected[p][d] + one
                 /\ BagOf(hand'[p])[d] = BagOf(hand[p])[d] + one
      <4>0. /\ Size(drawPile[p]) \in Nat /\ Size(selected[p]) \in Nat /\ Len(hand[p]) \in Nat
            /\ Len(hand[p]) <= MaxHand
        BY <2>1, <2>3, ZonesAreTyped DEF Sound
      <4>1. ASSUME NEW d \in Cards
            PROVE  /\ drawPile[p][d] \in Nat /\ selected[p][d] \in Nat /\ BagOf(hand[p])[d] \in Nat
        BY ZonesAreTyped DEF CardBags
      <4>2. CASE SelectCard(p, c)
        <5>1. Len(hand[p]) < MaxHand
          BY <4>2 DEF SelectCard
        <5> QED
          BY <4>0, <4>1, <4>2, <5>1, SelectMoves
      <4>3. CASE DeselectCard(p, c)
        <5>1. /\ Size(drawPile'[p]) = Size(drawPile[p]) - (-1)
              /\ Size(selected'[p]) = Size(selected[p]) + (-1)
              /\ Len(hand'[p]) <= MaxHand
          BY <4>0, <4>3, DeselectMoves
        <5>2. ASSUME NEW d \in Cards
              PROVE  LET one == IF d = c THEN -1 ELSE 0 IN
                     /\ drawPile'[p][d] = drawPile[p][d] - one
                     /\ selected'[p][d] = selected[p][d] + one
                     /\ BagOf(hand'[p])[d] = BagOf(hand[p])[d] + one
          BY <4>1, <4>3, DeselectMoves
        <5> QED
          BY <5>1, <5>2
      <4> QED
        BY <4>2, <4>3
    <3>2. /\ Size(drawPile[p]) \in Nat /\ Size(selected[p]) \in Nat
      BY ZonesAreTyped
    <3>3. Size(drawPile'[p]) + Size(selected'[p]) <= MaxDrawPile + MaxHand
      BY <2>1, <2>3, <3>1, <3>2 DEF Sound
    <3>4. ASSUME NEW d \in Cards
          PROVE  /\ BagOf(deck[p])[d] + drawPile'[p][d] + BagOf(hand'[p])[d] = owned[p][d]
                 /\ selected'[p][d] <= BagOf(hand'[p])[d]
      <4>1. /\ drawPile[p][d] \in Nat /\ selected[p][d] \in Nat /\ BagOf(hand[p])[d] \in Nat
            /\ BagOf(deck[p])[d] \in Nat /\ owned[p][d] \in Nat
        BY ZonesAreTyped DEF CardBags
      <4>2. /\ BagOf(deck[p])[d] + drawPile[p][d] + BagOf(hand[p])[d] = owned[p][d]
            /\ selected[p][d] <= BagOf(hand[p])[d]
        BY <2>1, <2>3 DEF Sound
      <4> QED
        BY <3>1, <4>1, <4>2
    <3> QED
      BY <1>1, <2>3, <3>1, <3>3, <3>4 DEF Sound
  <2> QED
    BY <2>2, <2>3
<1> QED
  BY <1>2, <1>3, SoundAfter

----------------------------------------------------------------------------
(* Placements.                                                             *)

\* The played card goes to the player's deck, the bounced ones to player 2's.
LEMMA ReturnMoves ==
  ASSUME ZonesInv, NEW p \in Players, NEW c \in Cards, NEW b \in Seq(Cards), ReturnToDecks(p, c, b)
  PROVE  /\ deck' \in [Players -> Seq(Cards)] /\ owned' \in [Players -> CardBags]
         /\ returned' \in 0..MaxReturned
         /\ \A q \in Players, d \in Cards :
              LET one == IF q = p /\ d = c THEN 1 ELSE 0 IN
              BagOf(deck'[q])[d] - owned'[q][d] = (BagOf(deck[q])[d] + one) - owned[q][d]
<1> DEFINE played == [deck EXCEPT ![p] = Append(@, c)]
<1>1. /\ deck \in [Players -> Seq(Cards)] /\ owned \in [Players -> CardBags]
      /\ 2 \in Players /\ returned \in 0..MaxReturned
  BY DEF ZonesInv, TypeOK, Players, CardBags
<1>2. /\ deck' = [played EXCEPT ![2] = @ \o b]
      /\ owned' = [owned EXCEPT ![2] = [d \in Cards |-> @[d] + BagOf(b)[d]]]
      /\ returned' = returned + Len(b) /\ returned + Len(b) <= MaxReturned
  BY DEF ReturnToDecks
<1>3. ASSUME NEW q \in Players, NEW d \in Cards
      PROVE  /\ played[q] \in Seq(Cards)
             /\ BagOf(played[q])[d] = BagOf(deck[q])[d] + IF q = p /\ d = c THEN 1 ELSE 0
  <2>1. CASE q = p
    <3>1. played[q] = Append(deck[q], c) /\ deck[q] \in Seq(Cards)
      BY <1>1, <2>1
    <3> QED
      BY <2>1, <3>1, BagOfAppend
  <2>2. CASE q # p
    <3>1. played[q] = deck[q] /\ deck[q] \in Seq(Cards)
      BY <1>1, <2>2
    <3>2. BagOf(deck[q])[d] \in Nat
      BY <3>1, BagOfType
    <3> QED
      BY <2>2, <3>1, <3>2
  <2> QED
    BY <2>1, <2>2
<1>4. played \in [Players -> Seq(Cards)]
  <2>1. \A q \in Players : played[q] \in Seq(Cards)
    BY <1>3, CardsAreCards
  <2> QED
    BY <1>1, <2>1
<1> HIDE DEF played
<1>5. deck' \in [Players -> Seq(Cards)]
  <2>1. played[2] \o b \in Seq(Cards)
    BY <1>1, <1>4, ConcatProperties
  <2> QED
    BY <1>2, <1>4, <2>1
<1>6. owned' \in [Players -> CardBags]
  <2>1. BagOf(b) \in CardBags /\ owned[2] \in CardBags
    BY <1>1, SizeOfBagOf
  <2>2. \A d \in Cards : owned[2][d] + BagOf(b)[d] \in Nat
    BY <2>1 DEF CardBags
  <2>3. [d \in Cards |-> owned[2][d] + BagOf(b)[d]] \in CardBags
    BY <2>2 DEF CardBags
  <2> QED
    BY <1>1, <1>2, <2>3
<1>7. returned' \in 0..MaxReturned
  <2>1. Len(b) \in Nat
    OBVIOUS
  <2> QED
    BY <1>1, <1>2, <2>1
<1>8. ASSUME NEW q \in Players, NEW d \in Cards
      PROVE  BagOf(deck'[q])[d] - owned'[q][d] = BagOf(played[q])[d] - owned[q][d]
  <2>1. CASE q = 2
    <3>1. deck'[q] = played[q] \o b /\ owned'[q][d] = owned[q][d] + BagOf(b)[d]
      BY <1>1, <1>2, <1>4, <2>1
    <3>2. /\ BagOf(played[q] \o b)[d] = BagOf(played[q])[d] + BagOf(b)[d]
          /\ BagOf(played[q])[d] \in Nat /\ BagOf(b)[d] \in Nat /\ owned[q][d] \in Nat
      <4>1. played[q] \in Seq(Cards) /\ owned[q] \in CardBags
        BY <1>1, <1>3
      <4>2. BagOf(played[q]) \in [Cards -> Nat] /\ BagOf(b) \in [Cards -> Nat]
        BY <4>1, BagOfType
      <4> QED
        BY <4>1, <4>2, BagOfConcat DEF CardBags
    <3> QED
      BY <3>1, <3>2
  <2>2. CASE q # 2
    BY <1>1, <1>2, <1>4, <2>2
  <2> QED
    BY <2>1, <2>2
<1>9. \A q \in Players, d \in Cards :
        LET one == IF q = p /\ d = c THEN 1 ELSE 0 IN
        BagOf(deck'[q])[d] - owned'[q][d] = (BagOf(deck[q])[d] + one) - owned[q][d]
  <2>1. ASSUME NEW q \in Players, NEW d \in Cards
        PROVE  LET one == IF q = p /\ d = c THEN 1 ELSE 0 IN
               BagOf(deck'[q])[d] - owned'[q][d] = (BagOf(deck[q])[d] + one) - owned[q][d]
    <3>1. BagOf(played[q])[d] = BagOf(deck[q])[d] + IF q = p /\ d = c THEN 1 ELSE 0
      BY <1>3
    <3>2. BagOf(deck'[q])[d] - owned'[q][d] = BagOf(played[q])[d] - owned[q][d]
      BY <1>8
    <3> QED
      BY <3>1, <3>2, Zenon
  <2> QED
    BY <2>1
<1> QED
  BY <1>5, <1>6, <1>7, <1>9

LEMMA CardPlacedStep ==
  ASSUME ZonesInv, NEW p \in Players, NEW c \in Cards, NEW s \in Slots, CardPlaced(p, c, s)
  PROVE  ZonesInv'
<1>1. /\ phase = "ACTIVE" /\ InHand(p, c) /\ hand' = [hand EXCEPT ![p] = RemoveFirst(@, c)]
      /\ UNCHANGED <<phase, loads, drawPile, selected>>
  BY DEF CardPlaced, PlayFromHand
<1>2. /\ board \in [Players -> [Slots -> Cards \cup {NoCard}]]
      /\ Opponent(p) \in Players
  <2>1. board \in [Players -> [Slots -> Cards \cup {NoCard}]]
    BY DEF ZonesInv, TypeOK
  <2>2. Opponent(p) \in Players
    BY DEF Opponent, Players
  <2> QED
    BY <2>1, <2>2
<1>3. PICK from \in SUBSET {t \in Slots : board[Opponent(p)][t] # NoCard} :
        /\ \E o \in Orders(from) :
             ReturnToDecks(p, c, [i \in DOMAIN o |-> board[Opponent(p)][o[i]]])
        /\ \/ from = {} /\ UNCHANGED board
           \/ /\ board[p][s] = NoCard
              /\ from = {} \/ c \in Bouncers
              /\ board' = [board EXCEPT ![p][s] = c,
                   ![Opponent(p)] = [t \in Slots |-> IF t \in from THEN NoCard ELSE @[t]]]
  BY DEF CardPlaced
<1>4. PICK o \in Orders(from) :
        ReturnToDecks(p, c, [i \in DOMAIN o |-> board[Opponent(p)][o[i]]])
  BY <1>3
<1>5. [i \in DOMAIN o |-> board[Opponent(p)][o[i]]] \in Seq(Cards)
  <2>1. IsFiniteSet(from)
    BY FS_Subset
  <2>2. Cardinality(from) \in Nat
    BY <2>1, FS_CardinalityType
  <2>3. o \in [1..Cardinality(from) -> from]
    BY DEF Orders
  <2>4. \A t \in from : board[Opponent(p)][t] \in Cards
    BY <1>2
  <2>5. DOMAIN o = 1..Cardinality(from)
        /\ \A i \in DOMAIN o : board[Opponent(p)][o[i]] \in Cards
    BY <2>3, <2>4
  <2> QED
    BY <2>2, <2>5
<1>6. board' \in [Players -> [Slots -> Cards \cup {NoCard}]]
  <2>1. CASE UNCHANGED board
    BY <1>2, <2>1
  <2>2. CASE board' = [board EXCEPT ![p][s] = c,
               ![Opponent(p)] = [t \in Slots |-> IF t \in from THEN NoCard ELSE @[t]]]
    BY <1>2, <2>2
  <2> QED
    BY <1>3, <2>1, <2>2
<1>7. /\ deck' \in [Players -> Seq(Cards)] /\ owned' \in [Players -> CardBags]
      /\ returned' \in 0..MaxReturned
      /\ \A q \in Players, d \in Cards :
           LET one == IF q = p /\ d = c THEN 1 ELSE 0 IN
           BagOf(deck'[q])[d] - owned'[q][d] = (BagOf(deck[q])[d] + one) - owned[q][d]
  BY <1>4, <1>5, ReturnMoves
<1>8. ASSUME NEW q \in Players, NEW d \in Cards
      PROVE  /\ hand'[q] \in Seq(Cards) /\ Len(hand'[q]) <= Len(hand[q])
             /\ BagOf(hand'[q])[d] = BagOf(hand[q])[d] - IF q = p /\ d = c THEN 1 ELSE 0
  <2>1. hand \in [Players -> Seq(Cards)]
    BY DEF ZonesInv, TypeOK
  <2>2. CASE q = p
    <3>1. hand'[q] = RemoveFirst(hand[q], c) /\ hand[q] \in Seq(Cards) /\ c \in ToSet(hand[q])
      BY <1>1, <2>1, <2>2 DEF InHand
    <3>2. /\ hand'[q] \in Seq(Cards) /\ Len(hand'[q]) = Len(hand[q]) - 1
          /\ BagOf(hand'[q])[d] = BagOf(hand[q])[d] - IF d = c THEN 1 ELSE 0
      BY <3>1, RemoveFirstTakesOne
    <3> QED
      BY <2>2, <3>1, <3>2
  <2>3. CASE q # p
    <3>1. hand'[q] = hand[q] /\ hand[q] \in Seq(Cards)
      BY <1>1, <2>1, <2>3
    <3>2. BagOf(hand[q])[d] \in Nat
      BY <3>1, BagOfType
    <3> QED
      BY <2>3, <3>1, <3>2
  <2> QED
    BY <2>2, <2>3
<1>9. hand' \in [Players -> Seq(Cards)]
  <2>1. \A q \in Players : hand'[q] \in Seq(Cards)
    BY <1>8, CardsAreCards
  <2> QED
    BY <1>1, <2>1 DEF ZonesInv, TypeOK
<1>10. TypeOK'
  BY <1>1, <1>6, <1>7, <1>9 DEF ZonesInv, TypeOK, CardBags
<1>11. ASSUME NEW q \in Players
       PROVE  Sound(deck'[q], drawPile'[q], hand'[q], selected'[q], owned'[q], phase' = "ACTIVE")
  <2>1. Sound(deck[q], drawPile[q], hand[q], selected[q], owned[q], phase = "ACTIVE")
    BY SoundBefore
  <2>2. ASSUME NEW d \in Cards
        PROVE  /\ BagOf(deck'[q])[d] + drawPile[q][d] + BagOf(hand'[q])[d] = owned'[q][d]
               /\ selected[q][d] <= BagOf(hand'[q])[d]
    <3>1. /\ drawPile[q][d] \in Nat /\ BagOf(hand[q])[d] \in Nat /\ BagOf(deck[q])[d] \in Nat
          /\ owned[q][d] \in Nat
      BY ZonesAreTyped DEF CardBags
    <3>2. deck'[q] \in Seq(Cards) /\ owned'[q] \in CardBags
      BY <1>7
    <3>3. /\ owned'[q][d] \in Nat /\ BagOf(deck'[q])[d] \in Nat /\ BagOf(hand'[q])[d] \in Nat
      BY <1>8, <3>2, BagOfType DEF CardBags
    <3>4. BagOf(deck[q])[d] + drawPile[q][d] + BagOf(hand[q])[d] = owned[q][d]
      BY <2>1 DEF Sound
    <3>5. selected[q][d] = 0
      BY <1>1, <2>1 DEF Sound, Empty
    <3> QED
      <4>1. PICK one \in {0, 1} :
              /\ BagOf(deck'[q])[d] - owned'[q][d] = (BagOf(deck[q])[d] + one) - owned[q][d]
              /\ BagOf(hand'[q])[d] = BagOf(hand[q])[d] - one
        <5>1. CASE q = p /\ d = c
          BY <1>7, <1>8, <5>1
        <5>2. CASE ~(q = p /\ d = c)
          BY <1>7, <1>8, <5>2
        <5> QED
          BY <5>1, <5>2
      <4>2. one \in Int
        OBVIOUS
      <4>4. BagOf(deck'[q])[d] + drawPile[q][d] + BagOf(hand'[q])[d] = owned'[q][d]
        <5> DEFINE x == BagOf(deck[q])[d]
                   y == owned[q][d]
                   w == drawPile[q][d]
                   h == BagOf(hand[q])[d]
                   x1 == BagOf(deck'[q])[d]
                   y1 == owned'[q][d]
                   h1 == BagOf(hand'[q])[d]
        <5>1. /\ x \in Int /\ y \in Int /\ w \in Int /\ h \in Int
              /\ x1 \in Int /\ y1 \in Int /\ h1 \in Int
          BY <3>1, <3>3
        <5>2. x1 - y1 = (x + one) - y /\ h1 = h - one /\ x + w + h = y
          BY <3>4, <4>1
        <5> HIDE DEF x, y, w, h, x1, y1, h1
        <5>3. x1 + w + h1 = y1
          BY <4>2, <5>1, <5>2
        <5> QED
          BY <5>3 DEF x1, w, h1, y1
      <4>5. selected[q][d] <= BagOf(hand'[q])[d]
        BY <3>3, <3>5
      <4> QED
        BY <4>4, <4>5
  <2>3. Len(hand'[q]) <= MaxHand
    <3>1. Len(hand'[q]) <= Len(hand[q]) /\ Len(hand'[q]) \in Nat
      BY <1>8, CardsAreCards
    <3>2. Len(hand[q]) <= MaxHand /\ Len(hand[q]) \in Nat
      BY <2>1, ZonesAreTyped DEF Sound
    <3> QED
      BY <3>1, <3>2
  <2> QED
    BY <1>1, <2>1, <2>2, <2>3 DEF Sound
<1> QED
  BY <1>10, <1>11, SoundAfter

----------------------------------------------------------------------------
(* The theorems.                                                           *)

LEMMA ZonesInit == Init => ZonesInv
<1> SUFFICES ASSUME Init PROVE ZonesInv
  OBVIOUS
<1>1. Empty \in [Cards -> Nat] /\ Size(Empty) = 0
  BY SizeOfEmpty DEF CardBags
<1>2. \A c \in Cards : BagOf(<<>>)[c] = 0
  <2>1. \A c : Where(<<>>, c) = {}
    BY DEF Where
  <2>2. <<>> \in Seq(Cards)
    OBVIOUS
  <2> QED
    BY <2>1, <2>2, BagOfType, FS_EmptySet
<1>3. TypeOK
  BY <1>1 DEF Init, TypeOK, Phases
<1>4. CardsConserved
  BY <1>2 DEF Init, CardsConserved, Empty
<1>5. SelectedInHand
  BY <1>2 DEF Init, SelectedInHand, Empty
<1>6. PilesBounded
  BY <1>1 DEF Init, PilesBounded
<1> QED
  BY <1>3, <1>4, <1>5, <1>6 DEF ZonesInv

LEMMA ZonesStep == ZonesInv /\ [Next]_vars => ZonesInv'
<1> SUFFICES ASSUME ZonesInv, [Next]_vars
             PROVE  ZonesInv'
  OBVIOUS
<1>1. CASE LoadDeck
  BY <1>1, LoadDeckStep
<1>2. CASE JoinGame
  BY <1>2, JoinGameStep
<1>3. CASE StartRound
  BY <1>3, StartRoundStep
<1>4. CASE EndRound
  BY <1>4, EndRoundStep
<1>5. CASE Reconnect \/ EndGame
  BY <1>5, BoardStep
<1>6. ASSUME NEW p \in Players, NEW c \in Cards, Card(p, c)
      PROVE  ZonesInv'
  BY <1>6, HandStep, CardPlacedStep DEF Card
<1>7. ASSUME NEW p \in Players, NEW s \in Slots, Board(p, s)
      PROVE  ZonesInv'
  BY <1>7, BoardStep
<1>8. CASE UNCHANGED vars
  <2>1. UNCHANGED <<zones, owned>> /\ phase' = phase
    BY <1>8 DEF vars
  <2>2. TypeOK'
    BY <1>8 DEF vars, zones, ZonesInv, TypeOK
  <2> QED
    BY <2>1, <2>2, StillZonesStep
<1> QED
  BY <1>1, <1>2, <1>3, <1>4, <1>5, <1>6, <1>7, <1>8 DEF Next

\* Whatever the joins, rounds, selections, placements and bounces, no card that
\* was dealt or returned to a player is lost or multiplied, what is selected is
\* in the hand, and the hand and the draw pile stay within their limits
\* (gameplay_state.go and the handlers of the card actions).
THEOREM ZonesInvariant == Spec => []ZonesInv
<1>1. Init => ZonesInv
  BY ZonesInit
<1>2. ZonesInv /\ [Next]_vars => ZonesInv'
  BY ZonesStep
<1> QED
  BY <1>1, <1>2, PTL DEF Spec

\* Within a pre-turn, selecting and deselecting never releases a card of the
\* hand that was not selected in it (handlers of SELECT_CARD and DESELECT_CARD).
THEOREM LockedStay == Spec => LockedCardsStay
<1> DEFINE Stay == \A p \in Players, c \in Cards :
             BagOf(hand'[p])[c] - selected'[p][c] = BagOf(hand[p])[c] - selected[p][c]
<1>1. ASSUME ZonesInv, [Next]_vars, phase = "PRE_TURN", phase' = "PRE_TURN"
      PROVE  Stay
  <2>1. CASE UNCHANGED <<hand, selected>>
    BY <2>1
  <2>2. ASSUME NEW p \in Players, NEW c \in Cards, SelectCard(p, c) \/ DeselectCard(p, c)
        PROVE  Stay
    <3>1. ASSUME NEW q \in Players, NEW d \in Cards
          PROVE  BagOf(hand'[q])[d] - selected'[q][d] = BagOf(hand[q])[d] - selected[q][d]
      <4>1. BagOf(hand[q])[d] \in Nat /\ selected[q][d] \in Nat
        BY <1>1, ZonesAreTyped DEF CardBags
      <4>2. CASE q # p
        <5>1. hand'[q] = hand[q] /\ selected'[q] = selected[q]
          BY <1>1, <2>2, <4>2, SelectMoves, DeselectMoves
        <5> QED
          BY <5>1
      <4>3. CASE q = p
        <5>1. CASE SelectCard(p, c)
          BY <1>1, <4>1, <4>3, <5>1, SelectMoves
        <5>2. CASE DeselectCard(p, c)
          BY <1>1, <4>1, <4>3, <5>2, DeselectMoves
        <5> QED
          BY <2>2, <5>1, <5>2
      <4> QED
        BY <4>2, <4>3
    <3> QED
      BY <3>1
  <2>3. \/ UNCHANGED <<hand, selected>>
        \/ \E p \in Players, c \in Cards : SelectCard(p, c) \/ DeselectCard(p, c)
    BY <1>1 DEF Next, LoadDeck, JoinGame, Reconnect, StartRound, EndRound, EndGame, Card,
                CardPlaced, Board, DebugPlaceUnit, TickBoard, vars, zones
  <2> QED
    BY <2>1, <2>2, <2>3
<1>2. ZonesInv /\ [Next]_vars
        => [phase = "PRE_TURN" /\ phase' = "PRE_TURN" => Stay]_vars
  BY <1>1
<1> QED
  BY <1>2, ZonesInvariant, PTL DEF Spec, LockedCardsStay
=============================================================================
