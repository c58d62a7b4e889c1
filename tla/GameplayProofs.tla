--------------------------- MODULE GameplayProofs ---------------------------
(***************************************************************************)
(* Proofs about what one match's game loop does: the fight, for any cards, *)
(* boards and bounds, and the buffer of snapshots it pushes to, for any    *)
(* size and any actions.                                                   *)
(***************************************************************************)
EXTENDS Combat, SnapshotBuffer, FiniteSetTheorems, SequenceTheorems,
  WellFoundedInduction, TLAPS

(***************************************************************************)
(* Doing things in turn.  InTurn is a recursive function over the steps    *)
(* done: it exists, and what every step preserves holds at the end.        *)
(***************************************************************************)

LEMMA LeastOfNaturals ==
  ASSUME NEW T, T \subseteq Nat, T # {}
  PROVE  \E m \in T : \A k \in T : m <= k
<1> DEFINE R == {ss \in Nat \X Nat : ss[1] < ss[2]}
<1>1. IsWellFoundedOn(R, Nat)
  BY NatLessThanWellFounded DEF OpToRel
<1> HIDE DEF R
<1>2. PICK x \in T : \A y \in T : ~ (<<y, x>> \in R)
  BY <1>1, WFMin
<1>3. \A y \in T : ~(y < x)
  BY <1>2 DEF R
<1> QED
  BY <1>2, <1>3

\* What the first step finds and every step keeps holds at the end.
LEMMA StepByStep ==
  ASSUME NEW n \in Nat, NEW S, 0 \in S, \A i \in 1..n : i - 1 \in S => i \in S
  PROVE  n \in S
<1> DEFINE Bad == {i \in 0..n : i \notin S}
<1> SUFFICES ASSUME Bad # {} PROVE FALSE
  OBVIOUS
<1>1. PICK k \in Bad : \A i \in Bad : k <= i
  <2>1. Bad \subseteq Nat
    OBVIOUS
  <2> QED
    BY <2>1, LeastOfNaturals
<1>2. k \in 1..n
  OBVIOUS
<1>3. k - 1 \in 0..n /\ k - 1 \notin Bad
  BY <1>1, <1>2
<1> QED
  BY <1>1, <1>2, <1>3

LEMMA KeptInTurn ==
  ASSUME NEW X, NEW n \in Nat, NEW after,
         after[0] \subseteq X[0],
         \A i \in 1..n : after[i - 1] \subseteq X[i - 1] => after[i] \subseteq X[i]
  PROVE  after[n] \subseteq X[n]
<1> DEFINE Bad == {i \in 0..n : ~(after[i] \subseteq X[i])}
<1> SUFFICES ASSUME Bad # {} PROVE FALSE
  OBVIOUS
<1>1. PICK m \in Bad : \A k \in Bad : m <= k
  <2>1. Bad \subseteq Nat
    OBVIOUS
  <2> QED
    BY <2>1, LeastOfNaturals
<1>2. m \in 1..n
  OBVIOUS
<1>3. m - 1 \in 0..n /\ m - 1 \notin Bad
  BY <1>1, <1>2
<1> QED
  BY <1>1, <1>2, <1>3

\* What h keeps for i, within X[i]: what can come of the first i of n steps, from f.
Turns(h, X, n, f, step) ==
  /\ h = [i \in 0..n |-> h[i]]
  /\ \A i \in 0..n : h[i] \subseteq X[i]
  /\ h[0] = {f}
  /\ \A i \in 1..n : \A x : x \in h[i] <=> \E g \in h[i - 1] : x \in step[i][g]

LEMMA TurnsExist ==
  ASSUME NEW n \in Nat, NEW X, NEW f \in X[0], NEW step,
         \A i \in 1..n : \A g \in X[i - 1] : step[i][g] \subseteq X[i]
  PROVE  \E h : Turns(h, X, n, f, step)
<1> DEFINE After(h, i) == UNION {step[i][g] : g \in h[i - 1]}
           All == UNION {X[i] : i \in 0..n}
           Good(k) == {h \in [0..k -> SUBSET All] :
                        /\ h[0] = {f}
                        /\ \A i \in 0..k : h[i] \subseteq X[i]
                        /\ \A i \in 1..k : h[i] = After(h, i)}
           Bad == {k \in 0..n : Good(k) = {}}
<1>1. \A k \in 0..n : k \in Bad <=> Good(k) = {}
  OBVIOUS
<1>2. \A k, h : h \in Good(k) <=> /\ h \in [0..k -> SUBSET All]
                                  /\ h[0] = {f}
                                  /\ \A i \in 0..k : h[i] \subseteq X[i]
                                  /\ \A i \in 1..k : h[i] = After(h, i)
  OBVIOUS
<1>3. Bad \subseteq Nat /\ Bad \subseteq 0..n
  OBVIOUS
<1>0. \A i \in 0..n : X[i] \subseteq All
  OBVIOUS
<1> HIDE DEF Good, Bad, After, All
<1>4. SUFFICES ASSUME Bad # {} PROVE FALSE
  <2>1. n \in 0..n
    OBVIOUS
  <2>2. PICK h : h \in Good(n)
    BY <1>1, <1>4, <2>1
  <2>3. /\ h[0] = {f} /\ h = [i \in 0..n |-> h[i]] /\ \A i \in 0..n : h[i] \subseteq X[i]
        /\ \A i \in 1..n : h[i] = After(h, i)
    BY <2>2, <1>2
  <2>4. ASSUME NEW i \in 1..n, NEW x
        PROVE  x \in h[i] <=> \E g \in h[i - 1] : x \in step[i][g]
    <3>1. h[i] = After(h, i)
      BY <2>3
    <3> QED
      BY <3>1 DEF After
  <2> QED
    BY <2>3, <2>4 DEF Turns
<1>5. PICK m \in Bad : \A k \in Bad : m <= k
  BY <1>3, <1>4, LeastOfNaturals
<1>6. m # 0
  <2> DEFINE h == [i \in 0..0 |-> {f}]
  <2>1. 0..0 = {0} /\ 1..0 = {} /\ 0 \in 0..n /\ f \in All
    BY <1>0
  <2>2. h \in [0..0 -> SUBSET All] /\ h[0] = {f}
    BY <2>1
  <2> HIDE DEF h
  <2>4. /\ \A i \in 0..0 : h[i] \subseteq X[i]
        /\ \A i \in 1..0 : h[i] = After(h, i)
    BY <2>1, <2>2
  <2>3. h \in Good(0)
    BY <1>2, <2>2, <2>4
  <2> QED
    BY <2>1, <2>3, <1>1, <1>5
<1>7. m \in 1..n /\ m - 1 \in 0..n
  BY <1>3, <1>6
<1>8. PICK h : h \in Good(m - 1)
  <2>1. m - 1 \notin Bad
    BY <1>5, <1>7
  <2> QED
    BY <2>1, <1>7, <1>1
<1>9. /\ h \in [0..(m - 1) -> SUBSET All] /\ h[0] = {f}
      /\ \A i \in 0..(m - 1) : h[i] \subseteq X[i]
      /\ \A i \in 1..(m - 1) : h[i] = After(h, i)
  BY <1>8, <1>2
<1> DEFINE g == [i \in 0..m |-> IF i = m THEN After(h, m) ELSE h[i]]
<1>10. After(h, m) \subseteq X[m] /\ X[m] \subseteq All
  <2>1. h[m - 1] \subseteq X[m - 1]
    BY <1>7, <1>9
  <2>2. X[m] \subseteq All
    BY <1>0, <1>7
  <2> QED
    BY <2>1, <2>2, <1>7 DEF After
<1>11. g \in [0..m -> SUBSET All] /\ g[m] = After(h, m) /\ \A i \in 0..(m - 1) : g[i] = h[i]
  BY <1>7, <1>9, <1>10
<1> HIDE DEF g
<1>12. g[0] = {f} /\ \A i \in 0..m : g[i] \subseteq X[i]
  BY <1>7, <1>9, <1>10, <1>11
<1>13. ASSUME NEW i \in 1..m PROVE g[i] = After(g, i)
  <2>1. i - 1 \in 0..(m - 1) /\ g[i - 1] = h[i - 1]
    BY <1>7, <1>11
  <2>2. After(g, i) = After(h, i)
    BY <2>1 DEF After
  <2>3. CASE i = m
    BY <2>2, <2>3, <1>11
  <2>4. CASE i # m
    <3>1. i \in 1..(m - 1) /\ i \in 0..(m - 1)
      BY <1>7, <2>4
    <3> QED
      BY <2>2, <3>1, <1>9, <1>11
  <2> QED
    BY <2>3, <2>4 DEF Turns
<1>14. g \in Good(m)
  BY <1>2, <1>11, <1>12, <1>13
<1> QED
  <2>1. Good(m) = {}
    BY <1>1, <1>3, <1>5
  <2> QED
    BY <2>1, <1>14

(***************************************************************************)
(* What most abilities leave as it is.                                     *)
(***************************************************************************)

Charged(u) == IF u.total = 0 THEN u.left = 0 ELSE u.left \in 1..u.total

\* A unit that has been hit, healed, shielded or recharged.
Touched(u, v) ==
  /\ v \in Units
  /\ v.card = u.card
  /\ v.total = u.total
  /\ v.left \in {u.left, u.total}

Boards == [Places -> Units \cup {NoUnit}]

\* Nothing that only touches units, or raises the cap, leads out of F.
Steady(F) ==
  /\ F \subseteq Battlefields
  /\ \A f \in F : \A b \in Boards :
       (\A t \in Places : \/ b[t] = f.board[t]
                          \/ f.board[t] # NoUnit /\ Touched(f.board[t], b[t]))
       => [f EXCEPT !.board = b] \in F
  /\ \A f \in F, n \in Nat : [f EXCEPT !.cap = @ + n] \in F

\* Nor does what happens to the leader of p.
Exposed(F, p) == \A f \in F, n \in Int : [f EXCEPT !.health[p] = @ - n] \in F

LEMMA OtherUnits ==
  ASSUME NEW F, Steady(F), NEW f \in F, NEW T, NEW b,
         b = [t \in Places |-> b[t]],
         \A t \in Places : t \notin Standing(f, T) => b[t] = f.board[t],
         \A t \in Places : t \in Standing(f, T) => Touched(f.board[t], b[t])
  PROVE  [f EXCEPT !.board = b] \in F
<1>1. f.board \in Boards
  BY DEF Steady, Battlefields, Boards
<1>2. \A t \in Places : b[t] \in Units \cup {NoUnit}
  BY <1>1 DEF Boards, Touched
<1>3. b \in Boards
  BY <1>2 DEF Boards
<1>4. \A t \in Places : \/ b[t] = f.board[t]
                        \/ f.board[t] # NoUnit /\ Touched(f.board[t], b[t])
  <2>1. \A t \in Places : t \in Standing(f, T) => f.board[t] # NoUnit
    BY DEF Standing, Unit
  <2> QED
    BY <2>1
<1> QED
  BY <1>3, <1>4 DEF Steady

LEMMA StatsChanged ==
  ASSUME NEW F, Steady(F), NEW f \in F, NEW T,
         NEW atk \in Int, NEW hp \in Int
  PROVE  ChangeStats(f, T, atk, hp) \in F
<1> DEFINE New(u) == [u EXCEPT !.atk = @ + atk, !.hp = @ + hp]
           b == [s \in Places |-> IF s \in Standing(f, T) THEN New(f.board[s]) ELSE f.board[s]]
<1>1. ChangeStats(f, T, atk, hp) = [f EXCEPT !.board = b]
  BY DEF ChangeStats, Change
<1>2. ASSUME NEW u \in Units PROVE Touched(u, New(u))
  <2> DEFINE v == [u EXCEPT !.atk = @ + atk]
             w == [v EXCEPT !.hp = u.hp + hp]
  <2>1. /\ v \in Units /\ v.card = u.card /\ v.left = u.left /\ v.total = u.total
        /\ u.hp \in Int
    BY DEF Units
  <2>2. New(u) = w
    OBVIOUS
  <2> HIDE DEF v
  <2>3. w \in Units /\ w.card = v.card /\ w.left = v.left /\ w.total = v.total
    BY <2>1 DEF Units
  <2> HIDE DEF w
  <2> QED
    BY <2>1, <2>2, <2>3 DEF Touched
<1>3. b = [s \in Places |-> b[s]]
  OBVIOUS
<1>4. ASSUME NEW s \in Places
      PROVE  IF s \in Standing(f, T) THEN f.board[s] \in Units /\ b[s] = New(f.board[s])
             ELSE b[s] = f.board[s]
  BY DEF Steady, Battlefields, Standing, Unit
<1> HIDE DEF b, New
<1> QED
  BY <1>1, <1>2, <1>3, <1>4, OtherUnits

LEMMA HitPointsSet ==
  ASSUME NEW F, Steady(F), NEW f \in F, NEW T, NEW hp \in Int
  PROVE  SetHitPoints(f, T, hp) \in F
<1> DEFINE New(u) == [u EXCEPT !.hp = hp]
           b == [s \in Places |-> IF s \in Standing(f, T) THEN New(f.board[s]) ELSE f.board[s]]
<1>1. SetHitPoints(f, T, hp) = [f EXCEPT !.board = b]
  BY DEF SetHitPoints, Change
<1>2. ASSUME NEW u \in Units PROVE Touched(u, New(u))
  <2>1. /\ New(u) \in Units /\ New(u).card = u.card
        /\ New(u).left = u.left /\ New(u).total = u.total
    BY DEF Units
  <2> QED
    BY <2>1 DEF Touched
<1>3. b = [s \in Places |-> b[s]]
  OBVIOUS
<1>4. ASSUME NEW s \in Places
      PROVE  IF s \in Standing(f, T) THEN f.board[s] \in Units /\ b[s] = New(f.board[s])
             ELSE b[s] = f.board[s]
  BY DEF Steady, Battlefields, Standing, Unit
<1> HIDE DEF b, New
<1> QED
  BY <1>1, <1>2, <1>3, <1>4, OtherUnits

LEMMA Shielded ==
  ASSUME NEW F, Steady(F), NEW f \in F, NEW t, NEW a \in Abilities
  PROVE  Shield(f, a, t) \subseteq F
<1> DEFINE New(u) == [u EXCEPT !.shield = a.reduction]
           b == [s \in Places |-> IF s \in Standing(f, {t}) THEN New(f.board[s]) ELSE f.board[s]]
<1>1. Shield(f, a, t) = {[f EXCEPT !.board = b]}
  BY DEF Shield, Change
<1>2. ASSUME NEW u \in Units PROVE Touched(u, New(u))
  <2>0. a.reduction \in Nat
    BY DEF Abilities
  <2>1. /\ New(u) \in Units /\ New(u).card = u.card
        /\ New(u).left = u.left /\ New(u).total = u.total
    BY <2>0 DEF Units
  <2> QED
    BY <2>1 DEF Touched
<1>3. b = [s \in Places |-> b[s]]
  OBVIOUS
<1>4. ASSUME NEW s \in Places
      PROVE  IF s \in Standing(f, {t}) THEN f.board[s] \in Units /\ b[s] = New(f.board[s])
             ELSE b[s] = f.board[s]
  BY DEF Steady, Battlefields, Standing, Unit
<1> HIDE DEF b, New
<1> QED
  BY <1>1, <1>2, <1>3, <1>4, OtherUnits

LEMMA Reflected ==
  ASSUME NEW F, Steady(F), NEW f \in F, NEW by
  PROVE  Reflect(f, by) \subseteq F
<1> DEFINE New(u) == [u EXCEPT !.hp = @ - u.atk]
           b == [s \in Places |-> IF s \in Standing(f, {by}) THEN New(f.board[s]) ELSE f.board[s]]
<1>1. Reflect(f, by) = {[f EXCEPT !.board = b]}
  BY DEF Reflect, Change
<1>2. ASSUME NEW u \in Units PROVE Touched(u, New(u))
  <2>1. /\ New(u) \in Units /\ New(u).card = u.card
        /\ New(u).left = u.left /\ New(u).total = u.total
    BY DEF Units
  <2> QED
    BY <2>1 DEF Touched
<1>3. b = [s \in Places |-> b[s]]
  OBVIOUS
<1>4. ASSUME NEW s \in Places
      PROVE  IF s \in Standing(f, {by}) THEN f.board[s] \in Units /\ b[s] = New(f.board[s])
             ELSE b[s] = f.board[s]
  BY DEF Steady, Battlefields, Standing, Unit
<1> HIDE DEF b, New
<1> QED
  BY <1>1, <1>2, <1>3, <1>4, OtherUnits

LEMMA Recharged ==
  ASSUME NEW F, Steady(F), NEW f \in F, NEW T
  PROVE  Recharge(f, T) \in F
<1> DEFINE New(u) == [u EXCEPT !.left = u.total]
           b == [s \in Places |-> IF s \in Standing(f, T) THEN New(f.board[s]) ELSE f.board[s]]
<1>1. Recharge(f, T) = [f EXCEPT !.board = b]
  BY DEF Recharge, Change
<1>2. ASSUME NEW u \in Units PROVE Touched(u, New(u))
  <2>1. /\ New(u) \in Units /\ New(u).card = u.card
        /\ New(u).left = u.total /\ New(u).total = u.total
    BY DEF Units
  <2> QED
    BY <2>1 DEF Touched
<1>3. b = [s \in Places |-> b[s]]
  OBVIOUS
<1>4. ASSUME NEW s \in Places
      PROVE  IF s \in Standing(f, T) THEN f.board[s] \in Units /\ b[s] = New(f.board[s])
             ELSE b[s] = f.board[s]
  BY DEF Steady, Battlefields, Standing, Unit
<1> HIDE DEF b, New
<1> QED
  BY <1>1, <1>2, <1>3, <1>4, OtherUnits

LEMMA TouchedCharge ==
  ASSUME NEW u \in Units, NEW v, Touched(u, v), Charged(u)
  PROVE  Charged(v)
<1>1. u.left \in Nat /\ u.total \in Nat
  BY DEF Units
<1> QED
  BY <1>1 DEF Touched, Charged

LEMMA LeaderHurt ==
  ASSUME NEW f \in Battlefields, NEW p \in Players, NEW n \in Int
  PROVE  LET g == [f EXCEPT !.health[p] = @ - n] IN
         /\ g \in Battlefields /\ g.board = f.board /\ g.cap = f.cap
         /\ \A q \in Players : q # p => g.health[q] = f.health[q]
BY DEF Battlefields

LEMMA CapRaised ==
  ASSUME NEW f \in Battlefields, NEW n \in Nat
  PROVE  LET g == [f EXCEPT !.cap = @ + n] IN
         /\ g \in Battlefields /\ g.board = f.board /\ g.health = f.health
         /\ g.cap = f.cap + n /\ f.cap \in Nat /\ f.cap <= g.cap
BY DEF Battlefields

LEMMA BoardChanged ==
  ASSUME NEW f \in Battlefields, NEW b \in Boards
  PROVE  LET g == [f EXCEPT !.board = b] IN
         g \in Battlefields /\ g.board = b /\ g.health = f.health /\ g.cap = f.cap
BY DEF Battlefields, Boards

LEMMA BattlefieldsAreSteady == Steady(Battlefields) /\ \A p \in Players : Exposed(Battlefields, p)
<1>1. \A f \in Battlefields : \A b \in Boards : [f EXCEPT !.board = b] \in Battlefields
  BY BoardChanged
<1>2. \A f \in Battlefields, n \in Nat : [f EXCEPT !.cap = @ + n] \in Battlefields
  BY CapRaised
<1>3. \A f \in Battlefields, p \in Players, n \in Int : [f EXCEPT !.health[p] = @ - n] \in Battlefields
  BY LeaderHurt
<1> QED
  BY <1>1, <1>2, <1>3 DEF Steady, Exposed

(***************************************************************************)
(* Battlefields between two ticks, with at least the cap c.                *)
(***************************************************************************)

Fields(c) ==
  {f \in Battlefields :
     c <= f.cap /\ \A t \in Places : f.board[t] # NoUnit => Charged(f.board[t])}

LEMMA FieldsAreSteady ==
  ASSUME NEW c \in Nat
  PROVE  Steady(Fields(c)) /\ \A p \in Players : Exposed(Fields(c), p)
<1>1. ASSUME NEW f \in Fields(c), NEW b \in Boards,
             \A t \in Places : b[t] = f.board[t] \/ (f.board[t] # NoUnit /\ Touched(f.board[t], b[t]))
      PROVE  [f EXCEPT !.board = b] \in Fields(c)
  <2> DEFINE g == [f EXCEPT !.board = b]
  <2>1. f \in Battlefields /\ c <= f.cap
    BY DEF Fields
  <2>2. g \in Battlefields /\ g.board = b /\ g.cap = f.cap
    BY <2>1, BoardChanged
  <2>3. \A t \in Places : f.board[t] # NoUnit => f.board[t] \in Units
    BY <2>1 DEF Battlefields
  <2>4. ASSUME NEW t \in Places, b[t] # NoUnit PROVE Charged(b[t])
    BY <1>1, <2>3, <2>4, TouchedCharge DEF Fields
  <2> HIDE DEF g
  <2>5. g \in Fields(c)
    BY <2>1, <2>2, <2>4 DEF Fields
  <2> QED
    BY <2>5 DEF g
<1>2. ASSUME NEW f \in Fields(c), NEW n \in Nat PROVE [f EXCEPT !.cap = @ + n] \in Fields(c)
  <2> DEFINE g == [f EXCEPT !.cap = @ + n]
  <2>1. f \in Battlefields /\ c <= f.cap
    BY DEF Fields
  <2>2. g \in Battlefields /\ g.board = f.board /\ g.cap \in Nat /\ f.cap \in Nat /\ f.cap <= g.cap
    <3>1. g.cap \in Nat
      BY <2>1, CapRaised
    <3> QED
      BY <2>1, <3>1, CapRaised
  <2> HIDE DEF g
  <2>3. g \in Fields(c)
    BY <2>1, <2>2 DEF Fields
  <2> QED
    BY <2>3 DEF g
<1>3. ASSUME NEW f \in Fields(c), NEW p \in Players, NEW n \in Int
      PROVE  [f EXCEPT !.health[p] = @ - n] \in Fields(c)
  <2> DEFINE g == [f EXCEPT !.health[p] = @ - n]
  <2>1. f \in Battlefields /\ c <= f.cap
    BY DEF Fields
  <2>2. g \in Battlefields /\ g.board = f.board /\ g.cap = f.cap
    BY <2>1, LeaderHurt
  <2> HIDE DEF g
  <2>3. g \in Fields(c)
    BY <2>1, <2>2 DEF Fields
  <2> QED
    BY <2>3 DEF g
<1>4. Fields(c) \subseteq Battlefields
  BY DEF Fields
<1>5. Steady(Fields(c))
  BY <1>1, <1>2, <1>4 DEF Steady
<1>6. \A p \in Players : Exposed(Fields(c), p)
  BY <1>3 DEF Exposed
<1> QED
  BY <1>5, <1>6

\* Any board of charged units will do.
LEMMA OtherBoard ==
  ASSUME NEW c \in Nat, NEW f \in Fields(c), NEW b \in Boards,
         \A t \in Places : b[t] = f.board[t] \/ b[t] = NoUnit \/ Charged(b[t])
  PROVE  [f EXCEPT !.board = b] \in Fields(c)
<1> DEFINE g == [f EXCEPT !.board = b]
<1>1. f \in Battlefields /\ c <= f.cap
  BY DEF Fields
<1>2. g \in Battlefields /\ g.board = b /\ g.cap = f.cap
  BY <1>1, BoardChanged
<1>3. \A t \in Places : b[t] # NoUnit => Charged(b[t])
  BY DEF Fields
<1> HIDE DEF g
<1>4. g \in Fields(c)
  BY <1>1, <1>2, <1>3 DEF Fields
<1> QED
  BY <1>4 DEF g

\* A charge that has been halved, or taken away, is a full one.
LEMMA SpeedDoubled ==
  ASSUME NEW c \in Nat, NEW f \in Fields(c), NEW t, NEW a \in Abilities
  PROVE  DoubleAttackSpeed(f, a, t) \subseteq Fields(c)
<1> DEFINE half(n) == IF n < 2 THEN 1 ELSE n \div 2
           total(u) == IF a.invert THEN 0 ELSE half(u.total)
           New(u) == [u EXCEPT !.total = total(u), !.left = total(u)]
           b == [s \in Places |-> IF s \in Standing(f, {t}) THEN New(f.board[s]) ELSE f.board[s]]
<1>1. DoubleAttackSpeed(f, a, t) = {[f EXCEPT !.board = b]}
  BY DEF DoubleAttackSpeed, Change
<1>2. ASSUME NEW u \in Units PROVE New(u) \in Units /\ Charged(New(u))
  <2>1. total(u) \in Nat
    BY DEF Units
  <2> HIDE DEF total
  <2> DEFINE v == [u EXCEPT !.total = total(u)]
             w == [v EXCEPT !.left = total(u)]
  <2>2. v \in Units /\ v.total = total(u)
    BY <2>1 DEF Units
  <2>3. New(u) = w
    OBVIOUS
  <2> HIDE DEF v
  <2>4. w \in Units /\ w.left = total(u) /\ w.total = v.total
    BY <2>1, <2>2 DEF Units
  <2> HIDE DEF w
  <2> QED
    BY <2>1, <2>2, <2>3, <2>4 DEF Charged
<1>3. b = [s \in Places |-> b[s]]
  OBVIOUS
<1>4. ASSUME NEW s \in Places
      PROVE  IF s \in Standing(f, {t}) THEN f.board[s] \in Units /\ b[s] = New(f.board[s])
             ELSE b[s] = f.board[s] /\ f.board[s] \in Units \cup {NoUnit}
  BY DEF Fields, Battlefields, Standing, Unit
<1> HIDE DEF b, New
<1>5. \A s \in Places : b[s] \in Units \cup {NoUnit}
  BY <1>2, <1>4
<1>6. b \in Boards
  BY <1>3, <1>5 DEF Boards
<1> QED
  BY <1>1, <1>2, <1>4, <1>6, OtherBoard

LEMMA NewUnitCharges ==
  ASSUME NEW d \in Cards
  PROVE  NewUnit(d) \in Units /\ Charged(NewUnit(d))
<1>1. NewUnit(d) \in Units
  BY CardsHaveStats, ChargeIsNat DEF NewUnit, Units
<1>2. NewUnit(d).left = ChargeTicks /\ NewUnit(d).total = ChargeTicks
  BY DEF NewUnit
<1> QED
  BY <1>1, <1>2, ChargeIsNat DEF Charged

LEMMA Replaced ==
  ASSUME NEW c \in Nat, NEW f \in Fields(c), NEW T, NEW d \in Cards
  PROVE  Replace(f, T, d) \in Fields(c)
<1> DEFINE b == [t \in Places |-> IF t \in Standing(f, T) THEN NewUnit(d) ELSE f.board[t]]
<1>1. Replace(f, T, d) = [f EXCEPT !.board = b]
  BY DEF Replace, Change
<1>2. b \in Boards
  BY NewUnitCharges DEF Fields, Battlefields, Boards
<1>3. \A t \in Places : b[t] = f.board[t] \/ b[t] = NewUnit(d)
  OBVIOUS
<1> HIDE DEF b
<1> QED
  BY <1>1, <1>2, <1>3, NewUnitCharges, OtherBoard

LEMMA Removed ==
  ASSUME NEW c \in Nat, NEW f \in Fields(c), NEW T
  PROVE  Remove(f, T) \in Fields(c)
<1> DEFINE b == [t \in Places |-> IF t \in Standing(f, T) THEN NoUnit ELSE f.board[t]]
<1>1. Remove(f, T) = [f EXCEPT !.board = b]
  BY DEF Remove, Change
<1>2. b \in Boards
  BY DEF Fields, Battlefields, Boards
<1>3. \A t \in Places : b[t] = f.board[t] \/ b[t] = NoUnit
  OBVIOUS
<1> HIDE DEF b
<1> QED
  BY <1>1, <1>2, <1>3, OtherBoard

LEMMA Placed ==
  ASSUME NEW c \in Nat, NEW f \in Fields(c), NEW t \in Places, NEW d \in Cards
  PROVE  Put(f, t, NewUnit(d)) \in Fields(c)
<1> DEFINE b == [s \in Places |-> IF s = t THEN NewUnit(d) ELSE f.board[s]]
<1>1. Put(f, t, NewUnit(d)) = [f EXCEPT !.board = b]
  BY DEF Put
<1>2. b \in Boards
  BY NewUnitCharges DEF Fields, Battlefields, Boards
<1>3. \A s \in Places : b[s] = f.board[s] \/ b[s] = NewUnit(d)
  OBVIOUS
<1> HIDE DEF b
<1> QED
  BY <1>1, <1>2, <1>3, NewUnitCharges, OtherBoard

(***************************************************************************)
(* Targets and effects.                                                    *)
(***************************************************************************)

LEMMA PlacesFinite == IsFiniteSet(Places)
<1>1. IsFiniteSet(Cols)
  BY NColsIsNat, FS_Interval DEF Cols
<1>2. IsFiniteSet({FrontRow, BackRow}) /\ IsFiniteSet(Players)
  <2>1. 0..1 = {FrontRow, BackRow} /\ 1..2 = Players
    BY DEF FrontRow, BackRow, Players
  <2> QED
    BY <2>1, FS_Interval, 0 \in Int, 1 \in Int, 2 \in Int
<1>3. IsFiniteSet(Positions)
  BY <1>1, <1>2, FS_Product DEF Positions
<1> QED
  BY <1>2, <1>3, FS_Product DEF Places

LEMMA PlaceParts ==
  ASSUME NEW t \in Places
  PROVE  /\ t[1] \in Players /\ Opponent(t[1]) \in Players
         /\ t[2] \in Positions /\ t[2][2] \in Cols
BY DEF Places, Players, Opponent, Positions

LEMMA SidesArePlaces ==
  ASSUME NEW p \in Players
  PROVE  /\ Side(p) \subseteq Places
         /\ \A col \in Cols : Column(p, col) \subseteq Places
BY DEF Side, Column, Places, Positions

LEMMA TargetsArePlaces ==
  ASSUME NEW f, NEW mode, NEW t \in Places, NEW T \in Targets(f, mode, t)
  PROVE  T \in SUBSET Places
<1> DEFINE p == t[1]
           q == Opponent(t[1])
<1>1. /\ Side(p) \subseteq Places /\ Side(q) \subseteq Places
      /\ Column(q, t[2][2]) \subseteq Places
  BY PlaceParts, SidesArePlaces
<1>2. \A S : Standing(f, S) \subseteq S
  BY DEF Standing
<1>3. EnemyInFront(f, t) \subseteq Places
  BY <1>1, <1>2 DEF EnemyInFront
<1>4. \A S, x : x \in OneOf(S) => x \subseteq S
  BY DEF OneOf
<1> QED
  BY <1>1, <1>2, <1>3, <1>4 DEF Targets

LEMMA AbilityTypes ==
  ASSUME NEW a \in Abilities
  PROVE  /\ {a.atk, a.hp, a.damage, a.buff} \subseteq Int
         /\ {a.count, a.amount, a.reduction, a.chance} \subseteq Nat
         /\ a.card \in Cards /\ a.effect \in EffectNames /\ a.perColour \in BOOLEAN
BY DEF Abilities

LEMMA StatsChangeKeeps ==
  ASSUME NEW F, Steady(F), NEW f \in F, NEW t \in Places, NEW a \in Abilities
  PROVE  StatsChange(f, a, t) \subseteq F
<1> DEFINE n == IF a.perColour THEN DeckColours ELSE 1
<1>1. n \in Int
  BY ColoursAreNat
<1>2. a.atk * n \in Int /\ a.hp * n \in Int
  <2>1. a.atk \in Int /\ a.hp \in Int
    BY AbilityTypes
  <2> HIDE DEF n
  <2> QED
    BY <2>1, <1>1
<1>3. \A T : ChangeStats(f, T, a.atk * n, a.hp * n) \in F
  BY <1>2, StatsChanged
<1> QED
  BY <1>3 DEF StatsChange

LEMMA DestroyKeeps ==
  ASSUME NEW F, Steady(F), NEW f \in F, NEW t \in Places, NEW a \in Abilities
  PROVE  Destroy(f, a, t) \subseteq F
<1> SUFFICES ASSUME NEW T \in Targets(f, a.target, t)
             PROVE  ChangeStats(SetHitPoints(f, T, 0), {t}, a.buff * Cardinality(T),
                                a.buff * Cardinality(T)) \in F
  BY DEF Destroy
<1>1. IsFiniteSet(T)
  BY PlacesFinite, TargetsArePlaces, FS_Subset
<1>2. Cardinality(T) \in Nat /\ a.buff \in Int
  BY <1>1, FS_CardinalityType, AbilityTypes
<1>3. a.buff * Cardinality(T) \in Int
  BY <1>2
<1>4. SetHitPoints(f, T, 0) \in F
  BY HitPointsSet
<1> QED
  BY <1>3, <1>4, StatsChanged

\* The effects whose abilities are not only for the moment a card is placed.
LEMMA EffectSteady ==
  ASSUME NEW F, Steady(F), NEW f \in F, NEW t \in Places, NEW by, NEW a \in Abilities,
         a.effect \notin {"bounce", "transform", "summon_units", "double_attack_speed"},
         ~(a.effect = "deal_damage" /\ a.target = "enemy_leader"),
         a.effect = "damage_leader" => Exposed(F, t[1])
  PROVE  Effect(f, a, t, by) \subseteq F
<1>1. /\ {a.atk, a.hp, a.damage, -a.damage, a.buff} \subseteq Int
      /\ a.amount \in Nat /\ a.effect \in EffectNames
  BY AbilityTypes
<1>2. StatsChange(f, a, t) \subseteq F
  BY StatsChangeKeeps
<1>3. a.effect = "damage_leader" => HurtLeader(f, t[1], a.damage) \subseteq F
  BY <1>1 DEF HurtLeader, Exposed
<1>4. \A T : ChangeStats(f, T, 0, -a.damage) \in F
  BY <1>1, StatsChanged
<1>5. SelfDamage(f, a, t) \subseteq F /\ (a.effect = "deal_damage" => DealDamage(f, a, t) \subseteq F)
  BY <1>4 DEF DealDamage, SelfDamage
<1>6. Destroy(f, a, t) \subseteq F
  BY DestroyKeeps
<1>7. DestroyRandom(f, t) \subseteq F /\ SetHP(f, a, t) \subseteq F
  BY <1>1, HitPointsSet DEF DestroyRandom, SetHP
<1>8. ResetAttack(f, a, t) \subseteq F
  BY Recharged DEF ResetAttack
<1>9. Shield(f, a, t) \subseteq F /\ Reflect(f, by) \subseteq F
  BY Shielded, Reflected
<1>10. ElixirOverflow(f, a) \subseteq F
  BY <1>1 DEF ElixirOverflow, Steady
<1>11. {f} \subseteq F
  OBVIOUS
<1>12. a.effect \in EffectNames \ {"bounce", "transform", "summon_units", "double_attack_speed"}
  BY <1>1
<1> QED
  BY <1>12, <1>2, <1>3, <1>5, <1>6, <1>7, <1>8, <1>9, <1>10, <1>11 DEF Effect, EffectNames

LEMMA SummonUnitsKeeps ==
  ASSUME NEW c \in Nat, NEW f \in Fields(c), NEW t \in Places, NEW a \in Abilities
  PROVE  SummonUnits(f, a, t) \subseteq Fields(c)
<1> DEFINE free(g) == {r \in Side(t[1]) : Unit(g, r) = NoUnit}
<1> DEFINE s == [i \in 1..a.count |-> i]
           n == Len(s)
           X == [i \in 0..n |-> Fields(c)]
           summon(g, i) == IF free(g) = {} THEN {g} ELSE {Put(g, r, NewUnit(a.card)) : r \in free(g)}
           step == [i \in 1..n |-> [g \in X[i - 1] |-> summon(g, s[i])]]
           Then(h, i) == UNION {summon(g, s[i]) : g \in h[i - 1]}
           Eq(h) == h = [i \in 0..n |-> IF i = 0 THEN {f} ELSE Then(h, i)]
           after == CHOOSE h : Eq(h)
<1>1. SummonUnits(f, a, t) = after[n]
  BY DEF SummonUnits, InTurn
<1>2. n \in Nat /\ X[0] = Fields(c) /\ f \in X[0] /\ X[n] = Fields(c)
      /\ \A i \in 1..n : X[i] = Fields(c) /\ X[i - 1] = Fields(c)
  BY AbilityTypes
<1>3. ASSUME NEW i \in 1..n, NEW g \in X[i - 1] PROVE summon(g, s[i]) \subseteq X[i]
  <2>1. free(g) \subseteq Places /\ g \in Fields(c) /\ X[i] = Fields(c)
    BY <1>2, PlaceParts, SidesArePlaces
  <2>2. \A r \in free(g) : Put(g, r, NewUnit(a.card)) \in Fields(c)
    BY <2>1, AbilityTypes, Placed
  <2> QED
    BY <2>1, <2>2
<1> HIDE DEF summon, s, n, X
<1>4. \A i \in 1..n : \A g \in X[i - 1] : step[i][g] = summon(g, s[i])
  OBVIOUS
<1>5. \A i \in 1..n : \A g \in X[i - 1] : step[i][g] \subseteq X[i]
  BY <1>3, <1>4
<1> HIDE DEF step
<1>6. PICK h : Turns(h, X, n, f, step)
  BY <1>2, <1>5, TurnsExist
<1>7. \A i \in 1..n : i \in 0..n /\ i - 1 \in 0..n /\ i # 0
  BY <1>2
<1>8. ASSUME NEW i \in 1..n PROVE h[i] = Then(h, i)
  <2>1. \A g \in h[i - 1] : step[i][g] = summon(g, s[i])
    BY <1>4, <1>6, <1>7 DEF Turns
  <2>2. ASSUME NEW x PROVE x \in h[i] <=> \E g \in h[i - 1] : x \in summon(g, s[i])
    <3>1. x \in h[i] <=> \E g \in h[i - 1] : x \in step[i][g]
      BY <1>6 DEF Turns
    <3> QED
      BY <2>1, <3>1
  <2> QED
    BY <2>2
<1>10. ASSUME NEW k, NEW i \in 1..n, k[i - 1] \subseteq X[i - 1] PROVE Then(k, i) \subseteq X[i]
  BY <1>3, <1>10
<1> HIDE DEF Then
<1>12. Eq(h)
  BY <1>2, <1>6, <1>7, <1>8 DEF Turns
<1>13. Eq(after)
  BY <1>12
<1> HIDE DEF after
<1>14. after[0] \subseteq X[0]
  <2>1. 0 \in 0..n
    BY <1>2
  <2> QED
    BY <2>1, <1>2, <1>13
<1>15. ASSUME NEW i \in 1..n, after[i - 1] \subseteq X[i - 1] PROVE after[i] \subseteq X[i]
  <2>1. after[i] = Then(after, i)
    BY <1>7, <1>13
  <2> QED
    BY <2>1, <1>10, <1>15
<1>16. after[n] \subseteq X[n]
  BY <1>2, <1>14, <1>15, KeptInTurn
<1> QED
  BY <1>1, <1>2, <1>16
(***************************************************************************)
(* Abilities, one after another.                                           *)
(***************************************************************************)

LEMMA AbilitiesListed ==
  ASSUME NEW d \in Cards
  PROVE  /\ Len(Definition[d].abilities) \in Nat
         /\ \A i \in 1..Len(Definition[d].abilities) : Definition[d].abilities[i] \in AbilitiesOf(d)
         /\ AbilitiesOf(d) \subseteq Abilities
BY AbilitiesAreKnown DEF AbilitiesOf

LEMMA SummonsInTurn ==
  ASSUME NEW F, NEW f \in F, NEW d \in Cards, NEW t,
         \A g \in F : \A a \in AbilitiesOf(d) :
           a.trigger = "summon" => Execute(NoSummons, g, a, t, t) \subseteq F
  PROVE  Summons(d, f, t) \subseteq F
<1> DEFINE s == Definition[d].abilities
           n == Len(s)
           X == [i \in 0..n |-> F]
           fire(g, a) == IF a.trigger = "summon" THEN Execute(NoSummons, g, a, t, t) ELSE {g}
           step == [i \in 1..n |-> [g \in X[i - 1] |-> fire(g, s[i])]]
           Then(h, i) == UNION {fire(g, s[i]) : g \in h[i - 1]}
           Eq(h) == h = [i \in 0..n |-> IF i = 0 THEN {f} ELSE Then(h, i)]
           after == CHOOSE h : Eq(h)
<1>1. Summons(d, f, t) = after[n]
  BY DEF Summons, Fire, InTurn
<1>2. n \in Nat /\ X[0] = F /\ f \in X[0] /\ X[n] = F
      /\ \A i \in 1..n : X[i] = F /\ X[i - 1] = F
  BY AbilitiesListed
<1>3. ASSUME NEW i \in 1..n, NEW g \in X[i - 1] PROVE fire(g, s[i]) \subseteq X[i]
  <2>1. s[i] \in AbilitiesOf(d) /\ g \in F /\ X[i] = F
    BY <1>2, AbilitiesListed
  <2> QED
    BY <2>1
<1> HIDE DEF fire, s, n, X
<1>4. \A i \in 1..n : \A g \in X[i - 1] : step[i][g] = fire(g, s[i])
  OBVIOUS
<1>5. \A i \in 1..n : \A g \in X[i - 1] : step[i][g] \subseteq X[i]
  BY <1>3, <1>4
<1> HIDE DEF step
<1>6. PICK h : Turns(h, X, n, f, step)
  BY <1>2, <1>5, TurnsExist
<1>7. \A i \in 1..n : i \in 0..n /\ i - 1 \in 0..n /\ i # 0
  BY <1>2
<1>8. ASSUME NEW i \in 1..n PROVE h[i] = Then(h, i)
  <2>1. \A g \in h[i - 1] : step[i][g] = fire(g, s[i])
    BY <1>4, <1>6, <1>7 DEF Turns
  <2>2. ASSUME NEW x PROVE x \in h[i] <=> \E g \in h[i - 1] : x \in fire(g, s[i])
    <3>1. x \in h[i] <=> \E g \in h[i - 1] : x \in step[i][g]
      BY <1>6 DEF Turns
    <3> QED
      BY <2>1, <3>1
  <2> QED
    BY <2>2
<1>10. ASSUME NEW k, NEW i \in 1..n, k[i - 1] \subseteq X[i - 1] PROVE Then(k, i) \subseteq X[i]
  BY <1>3, <1>10
<1> HIDE DEF Then
<1>12. Eq(h)
  BY <1>2, <1>6, <1>7, <1>8 DEF Turns
<1>13. Eq(after)
  BY <1>12
<1> HIDE DEF after
<1>14. after[0] \subseteq X[0]
  <2>1. 0 \in 0..n
    BY <1>2
  <2> QED
    BY <2>1, <1>2, <1>13
<1>15. ASSUME NEW i \in 1..n, after[i - 1] \subseteq X[i - 1] PROVE after[i] \subseteq X[i]
  <2>1. after[i] = Then(after, i)
    BY <1>7, <1>13
  <2> QED
    BY <2>1, <1>10, <1>15
<1>16. after[n] \subseteq X[n]
  BY <1>2, <1>14, <1>15, KeptInTurn
<1> QED
  BY <1>1, <1>2, <1>16

LEMMA FireInTurn ==
  ASSUME NEW F, NEW f \in F, NEW d \in Cards, NEW t, NEW by, NEW trigger,
         \A g \in F : \A a \in AbilitiesOf(d) :
           a.trigger = trigger => Execute(Summons, g, a, t, by) \subseteq F
  PROVE  FireTrigger(trigger, d, f, t, by) \subseteq F
<1> DEFINE s == Definition[d].abilities
           n == Len(s)
           X == [i \in 0..n |-> F]
           fire(g, a) == IF a.trigger = trigger THEN Execute(Summons, g, a, t, by) ELSE {g}
           step == [i \in 1..n |-> [g \in X[i - 1] |-> fire(g, s[i])]]
           Then(h, i) == UNION {fire(g, s[i]) : g \in h[i - 1]}
           Eq(h) == h = [i \in 0..n |-> IF i = 0 THEN {f} ELSE Then(h, i)]
           after == CHOOSE h : Eq(h)
<1>1. FireTrigger(trigger, d, f, t, by) = after[n]
  BY DEF FireTrigger, Fire, InTurn
<1>2. n \in Nat /\ X[0] = F /\ f \in X[0] /\ X[n] = F
      /\ \A i \in 1..n : X[i] = F /\ X[i - 1] = F
  BY AbilitiesListed
<1>3. ASSUME NEW i \in 1..n, NEW g \in X[i - 1] PROVE fire(g, s[i]) \subseteq X[i]
  <2>1. s[i] \in AbilitiesOf(d) /\ g \in F /\ X[i] = F
    BY <1>2, AbilitiesListed
  <2> QED
    BY <2>1
<1> HIDE DEF fire, s, n, X
<1>4. \A i \in 1..n : \A g \in X[i - 1] : step[i][g] = fire(g, s[i])
  OBVIOUS
<1>5. \A i \in 1..n : \A g \in X[i - 1] : step[i][g] \subseteq X[i]
  BY <1>3, <1>4
<1> HIDE DEF step
<1>6. PICK h : Turns(h, X, n, f, step)
  BY <1>2, <1>5, TurnsExist
<1>7. \A i \in 1..n : i \in 0..n /\ i - 1 \in 0..n /\ i # 0
  BY <1>2
<1>8. ASSUME NEW i \in 1..n PROVE h[i] = Then(h, i)
  <2>1. \A g \in h[i - 1] : step[i][g] = fire(g, s[i])
    BY <1>4, <1>6, <1>7 DEF Turns
  <2>2. ASSUME NEW x PROVE x \in h[i] <=> \E g \in h[i - 1] : x \in fire(g, s[i])
    <3>1. x \in h[i] <=> \E g \in h[i - 1] : x \in step[i][g]
      BY <1>6 DEF Turns
    <3> QED
      BY <2>1, <3>1
  <2> QED
    BY <2>2
<1>10. ASSUME NEW k, NEW i \in 1..n, k[i - 1] \subseteq X[i - 1] PROVE Then(k, i) \subseteq X[i]
  BY <1>3, <1>10
<1> HIDE DEF Then
<1>12. Eq(h)
  BY <1>2, <1>6, <1>7, <1>8 DEF Turns
<1>13. Eq(after)
  BY <1>12
<1> HIDE DEF after
<1>14. after[0] \subseteq X[0]
  <2>1. 0 \in 0..n
    BY <1>2
  <2> QED
    BY <2>1, <1>2, <1>13
<1>15. ASSUME NEW i \in 1..n, after[i - 1] \subseteq X[i - 1] PROVE after[i] \subseteq X[i]
  <2>1. after[i] = Then(after, i)
    BY <1>7, <1>13
  <2> QED
    BY <2>1, <1>10, <1>15
<1>16. after[n] \subseteq X[n]
  BY <1>2, <1>14, <1>15, KeptInTurn
<1> QED
  BY <1>1, <1>2, <1>16

\* Whatever is possible when a card is placed, the battlefield stays in order.
LEMMA EffectKeeps ==
  ASSUME NEW c \in Nat, NEW f \in Fields(c), NEW t \in Places, NEW by, NEW a \in Abilities,
         a.effect # "transform"
  PROVE  Effect(f, a, t, by) \subseteq Fields(c)
<1>1. a.damage \in Int /\ t[1] \in Players /\ Opponent(t[1]) \in Players
  BY AbilityTypes, PlaceParts
<1>2. Steady(Fields(c)) /\ Exposed(Fields(c), t[1]) /\ Exposed(Fields(c), Opponent(t[1]))
  BY <1>1, FieldsAreSteady
<1>3. CASE a.effect = "bounce"
  <2>1. Bounce(f, a, t) \subseteq Fields(c)
    BY Removed DEF Bounce
  <2> QED
    BY <1>3, <2>1 DEF Effect
<1>4. CASE a.effect = "summon_units"
  BY <1>4, SummonUnitsKeeps DEF Effect
<1>5. CASE a.effect = "double_attack_speed"
  BY <1>5, SpeedDoubled DEF Effect
<1>6. CASE a.effect = "deal_damage" /\ a.target = "enemy_leader"
  <2>1. HurtLeader(f, Opponent(t[1]), a.damage) \subseteq Fields(c)
    BY <1>1, <1>2 DEF HurtLeader, Exposed
  <2> QED
    BY <1>6, <2>1 DEF Effect, DealDamage
<1>7. CASE /\ a.effect \notin {"bounce", "transform", "summon_units", "double_attack_speed"}
           /\ ~(a.effect = "deal_damage" /\ a.target = "enemy_leader")
  BY <1>2, <1>7, EffectSteady
<1> QED
  BY <1>3, <1>4, <1>5, <1>6, <1>7

LEMMA ExecuteOnce ==
  ASSUME NEW c \in Nat, NEW f \in Fields(c), NEW t \in Places, NEW by, NEW a \in Abilities
  PROVE  Execute(NoSummons, f, a, t, by) \subseteq Fields(c)
<1>1. CASE a.effect = "transform"
  <2>1. a.card \in Cards
    BY AbilityTypes
  <2>2. \A r \in Transform(f, a, t) : r.field \in Fields(c)
    BY <2>1, Replaced DEF Transform
  <2> QED
    BY <1>1, <2>2 DEF Execute, NoSummons
<1>2. CASE a.effect # "transform"
  BY <1>2, EffectKeeps DEF Execute
<1> QED
  BY <1>1, <1>2

LEMMA SummonsKeep ==
  ASSUME NEW c \in Nat, NEW f \in Fields(c), NEW d \in Cards, NEW t \in Places
  PROVE  Summons(d, f, t) \subseteq Fields(c)
BY AbilitiesListed, ExecuteOnce, SummonsInTurn

LEMMA ExecuteKeeps ==
  ASSUME NEW c \in Nat, NEW f \in Fields(c), NEW t \in Places, NEW by, NEW a \in Abilities
  PROVE  Execute(Summons, f, a, t, by) \subseteq Fields(c)
<1>1. CASE a.effect = "transform"
  <2>1. a.card \in Cards
    BY AbilityTypes
  <2>2. \A r \in Transform(f, a, t) : r.field \in Fields(c) /\ r.new \subseteq Places
    <3>1. ASSUME NEW T \in Targets(f, a.target, t) PROVE Standing(f, T) \subseteq Places
      BY TargetsArePlaces DEF Standing
    <3> QED
      BY <2>1, <3>1, Replaced DEF Transform
  <2>3. \A r \in Transform(f, a, t) : \A s \in r.new : Summons(a.card, r.field, s) \subseteq Fields(c)
    BY <2>1, <2>2, SummonsKeep
  <2> QED
    BY <1>1, <2>2, <2>3 DEF Execute
<1>2. CASE a.effect # "transform"
  BY <1>2, EffectKeeps DEF Execute
<1> QED
  BY <1>1, <1>2

LEMMA FireKeeps ==
  ASSUME NEW c \in Nat, NEW f \in Fields(c), NEW d \in Cards, NEW t \in Places, NEW by, NEW trigger
  PROVE  FireTrigger(trigger, d, f, t, by) \subseteq Fields(c)
BY AbilitiesListed, ExecuteKeeps, FireInTurn

Harms(d) == \E a \in AbilitiesOf(d) : a.effect = "damage_leader"

\* In a fight, abilities only touch units, raise the cap and hurt leaders.
LEMMA FireSteady ==
  ASSUME NEW F, Steady(F), NEW f \in F, NEW d \in Cards, NEW t \in Places, NEW by,
         NEW trigger, trigger # "summon", Harms(d) => Exposed(F, t[1])
  PROVE  FireTrigger(trigger, d, f, t, by) \subseteq F
<1>1. ASSUME NEW g \in F, NEW a \in AbilitiesOf(d), a.trigger = trigger
      PROVE  Execute(Summons, g, a, t, by) \subseteq F
  <2>1. /\ a.effect \notin {"bounce", "transform", "summon_units", "double_attack_speed"}
        /\ ~(a.effect = "deal_damage" /\ a.target = "enemy_leader")
    BY <1>1, OnlyWhenPlaced
  <2>2. a.effect = "damage_leader" => Exposed(F, t[1])
    BY DEF Harms
  <2>3. Effect(g, a, t, by) \subseteq F
    BY <2>1, <2>2, AbilitiesListed, EffectSteady
  <2> QED
    BY <2>1, <2>3 DEF Execute
<1> QED
  BY <1>1, FireInTurn

\* The death of a unit that does not avenge itself changes no board.
LEMMA FireQuiet ==
  ASSUME NEW f \in Battlefields, NEW d \in Cards, NEW t \in Places, NEW by,
         \A a \in AbilitiesOf(d) : a.trigger = "on_death" => a.effect = "damage_leader"
  PROVE  \A g \in FireTrigger("on_death", d, f, t, by) : g \in Battlefields /\ g.board = f.board
<1> DEFINE F == {g \in Battlefields : g.board = f.board}
<1>1. ASSUME NEW g \in F, NEW a \in AbilitiesOf(d), a.trigger = "on_death"
      PROVE  Execute(Summons, g, a, t, by) \subseteq F
  <2>1. a.effect = "damage_leader" /\ a.damage \in Int /\ t[1] \in Players
    BY <1>1, AbilitiesListed, AbilityTypes, PlaceParts
  <2>2. [g EXCEPT !.health[t[1]] = @ - a.damage] \in F
    BY <2>1, LeaderHurt
  <2>3. Effect(g, a, t, by) \subseteq F
    BY <2>1, <2>2 DEF Effect, HurtLeader
  <2> QED
    BY <2>1, <2>3 DEF Execute
<1>2. f \in F
  OBVIOUS
<1> HIDE DEF F
<1>3. FireTrigger("on_death", d, f, t, by) \subseteq F
  BY <1>1, <1>2, FireInTurn
<1> QED
  BY <1>3 DEF F

(***************************************************************************)
(* Attacks.                                                                *)
(***************************************************************************)

LEMMA UnitAt ==
  ASSUME NEW f \in Battlefields, NEW t \in Standing(f, Places)
  PROVE  /\ t \in Places /\ Unit(f, t) \in Units /\ f.board[t] \in Units /\ f.board[t] # NoUnit
         /\ Unit(f, t).card \in Cards /\ Unit(f, t).atk \in Int /\ Unit(f, t).hp \in Int
         /\ Unit(f, t).shield \in Nat /\ Unit(f, t).left \in Nat /\ Unit(f, t).total \in Nat
<1>1. t \in Places /\ Unit(f, t) \in Units /\ f.board[t] \in Units /\ f.board[t] # NoUnit
  BY DEF Battlefields, Standing, Unit
<1> QED
  BY <1>1 DEF Units

LEMMA AimsStand ==
  ASSUME NEW f, NEW t \in Places, NEW aim \in Aims(f, t)
  PROVE  aim \subseteq Standing(f, Places)
<1>1. /\ Side(t[1]) \subseteq Places /\ Side(Opponent(t[1])) \subseteq Places
      /\ Column(Opponent(t[1]), t[2][2]) \subseteq Places
  BY PlaceParts, SidesArePlaces
<1>2. \A S \in SUBSET Places : Standing(f, S) \subseteq Standing(f, Places)
  BY DEF Standing
<1>3. EnemyInFront(f, t) \subseteq Standing(f, Places)
  BY <1>1, <1>2 DEF EnemyInFront
<1>4. <<Opponent(t[1]), <<BackRow, t[2][2]>>>> \in Places
  BY PlaceParts DEF Places, Positions
<1>5. Standing(f, {<<Opponent(t[1]), <<BackRow, t[2][2]>>>>}) \subseteq Standing(f, Places)
  BY <1>2, <1>4
<1> QED
  BY <1>1, <1>2, <1>3, <1>5 DEF Aims

\* A unit that does not aim at random hits a unit as long as there is one in its column.
LEMMA AimsAtColumn ==
  ASSUME NEW f \in Battlefields, NEW t \in Standing(f, Places),
         Standing(f, Column(Opponent(t[1]), t[2][2])) # {},
         \A a \in AbilitiesOf(Unit(f, t).card) : a.effect # "random_target"
  PROVE  {} \notin Aims(f, t)
<1> DEFINE column == Standing(f, Column(Opponent(t[1]), t[2][2]))
           abilities == Definition[Unit(f, t).card].abilities
           modify == {i \in DOMAIN abilities : abilities[i].effect \in {"random_target", "skip_front_row"}}
           first == abilities[CHOOSE i \in modify : \A j \in modify : i <= j]
<1>1. EnemyInFront(f, t) # {}
  <2>1. \A s \in column : s[2][1] \in {0, 1}
    BY DEF Standing, Column, FrontRow, BackRow
  <2>2. \E s \in column : \A r \in column : s[2][1] <= r[2][1]
    BY <2>1
  <2> QED
    BY <2>2 DEF EnemyInFront
<1>2. CASE modify = {}
  BY <1>1, <1>2 DEF Aims
<1>3. CASE modify # {}
  <2>1. Unit(f, t).card \in Cards
    BY UnitAt
  <2>2. modify \subseteq Nat
    BY <2>1, AbilitiesAreKnown
  <2>3. \E i \in modify : \A j \in modify : i <= j
    BY <1>3, <2>2, LeastOfNaturals
  <2>4. PICK i \in modify : first = abilities[i]
    BY <2>3
  <2>5. first.effect = "skip_front_row"
    BY <2>4 DEF AbilitiesOf
  <2>6. Aims(f, t) = {IF Standing(f, {<<Opponent(t[1]), <<BackRow, t[2][2]>>>>}) # {}
                      THEN Standing(f, {<<Opponent(t[1]), <<BackRow, t[2][2]>>>>})
                      ELSE EnemyInFront(f, t)}
    BY <1>3, <2>5 DEF Aims
  <2> QED
    BY <1>1, <2>6
<1> QED
  BY <1>2, <1>3

\* Units whose abilities hurt their own leader belong to leaders that F lets be hurt.
Sparing(F) ==
  \A h \in F : \A s \in Standing(h, Places) : Harms(Unit(h, s).card) => Exposed(F, s[1])

LEMMA StrikeUnitKeeps ==
  ASSUME NEW F, Steady(F), Sparing(F), NEW f \in F,
         NEW t \in Standing(f, Places), NEW s \in Standing(f, Places)
  PROVE  StrikeUnit(f, t, s) \subseteq F
<1> DEFINE d == Damage(Unit(f, t).atk, Unit(f, s))
           g == ChangeStats(f, {s}, 0, -d)
<1>0. f \in Battlefields
  BY DEF Steady
<1>1. d \in Int /\ -d \in Int
  BY <1>0, UnitAt DEF Damage
<1>2. g \in F
  BY <1>1, StatsChanged
<1>3. Unit(g, s).card = Unit(f, s).card
  <2>1. s \in Standing(f, {s}) /\ s \in Places /\ f.board[s] \in Units
    BY <1>0, UnitAt DEF Standing
  <2>2. g.board[s] = [f.board[s] EXCEPT !.atk = @ + 0, !.hp = @ + (-d)]
    BY <1>0, <2>1 DEF ChangeStats, Change, Battlefields
  <2> QED
    BY <2>1, <2>2 DEF Unit, Units
<1>4. Unit(f, s).card \in Cards /\ s \in Places
  BY <1>0, UnitAt
<1> HIDE DEF g
<1>5. FireTrigger("on_damaged", Unit(g, s).card, g, s, t) \subseteq F
  BY <1>2, <1>3, <1>4, FireSteady DEF Sparing
<1> QED
  BY <1>2, <1>5 DEF StrikeUnit, g

LEMMA StrikeLeaderKeeps ==
  ASSUME NEW F, Steady(F), NEW f \in F, NEW t \in Standing(f, Places), Exposed(F, Opponent(t[1]))
  PROVE  StrikeLeader(f, t) \in F
<1> DEFINE g == ChangeStats(f, {t}, 0, -LeaderAttack)
<1>1. Unit(f, t).atk \in Int
  BY UnitAt DEF Steady
<1>2. g \in F
  BY StatsAreNats, StatsChanged
<1> HIDE DEF g
<1>3. [g EXCEPT !.health[Opponent(t[1])] = @ - Unit(f, t).atk] \in F
  BY <1>1, <1>2 DEF Exposed
<1> QED
  BY <1>3 DEF StrikeLeader, g

\* An attack by t, which stays on its board until it has struck.
LEMMA ResolveAttackKeeps ==
  ASSUME NEW F, Steady(F), Sparing(F), NEW f \in F, NEW t \in Places,
         \A h \in F : t \in Standing(h, Places),
         Exposed(F, Opponent(t[1])) \/ \A h \in F : {} \notin Aims(h, t)
  PROVE  \A r \in ResolveAttack(f, t) : \E h \in F : r = Recharge(h, {t})
<1> DEFINE fired == FireTrigger("on_attack", Unit(f, t).card, f, t, t)
<1>1. Unit(f, t).card \in Cards
  BY UnitAt DEF Steady
<1>2. fired \subseteq F
  BY <1>1, FireSteady DEF Sparing
<1>3. ASSUME NEW g \in F PROVE Strike(g, t) \subseteq F
  <2>1. \A aim \in Aims(g, t) : aim \subseteq Standing(g, Places)
    BY AimsStand
  <2>2. ASSUME {} \in Aims(g, t) PROVE StrikeLeader(g, t) \in F
    BY <2>2, StrikeLeaderKeeps
  <2>3. ASSUME NEW s \in Standing(g, Places) PROVE StrikeUnit(g, t, s) \subseteq F
    BY StrikeUnitKeeps
  <2> DEFINE Struck(aim) == IF aim = {} THEN {StrikeLeader(g, t)}
                            ELSE UNION {StrikeUnit(g, t, s) : s \in aim}
  <2>4. ASSUME NEW aim \in Aims(g, t) PROVE Struck(aim) \subseteq F
    BY <2>1, <2>2, <2>3
  <2>5. Strike(g, t) = UNION {Struck(aim) : aim \in Aims(g, t)}
    BY DEF Strike
  <2> HIDE DEF Struck
  <2> QED
    BY <2>4, <2>5
<1> HIDE DEF fired
<1> QED
  BY <1>2, <1>3 DEF ResolveAttack, fired

(***************************************************************************)
(* The units of a board act one after another.                             *)
(***************************************************************************)

\* The place that has its turn as number i of a row.
PlaceAt(r, i) == <<1 + ((i - 1) % 2), <<r, (i - 1) \div 2>>>>

LEMMA OrderLaidOut ==
  LET m == 2 * NCols IN
  /\ Order \in Seq(Places) /\ Len(Order) = m + m
  /\ \A i \in 1..m : Order[i] = PlaceAt(FrontRow, i)
  /\ \A i \in (m + 1)..(m + m) : Order[i] = PlaceAt(BackRow, i - m)
<1> DEFINE m == 2 * NCols
<1>1. m \in Nat
  BY NColsIsNat
<1>2. ASSUME NEW i \in 1..m
      PROVE  /\ 1 + ((i - 1) % 2) \in Players /\ (i - 1) \div 2 \in Cols
             /\ i = 2 * ((i - 1) \div 2) + (1 + ((i - 1) % 2))
  BY NColsIsNat DEF Players, Cols
<1> HIDE DEF m
<1>4. ASSUME NEW r \in {FrontRow, BackRow}
      PROVE  /\ Row(r) \in Seq(Places) /\ Len(Row(r)) = m
             /\ \A i \in 1..m : Row(r)[i] = PlaceAt(r, i)
  <2>1. \A i \in 1..m : PlaceAt(r, i) \in Places
    BY <1>2 DEF Places, Positions, PlaceAt
  <2>2. Row(r) = [i \in 1..m |-> PlaceAt(r, i)]
    BY DEF Row, m, PlaceAt
  <2> QED
    BY <1>1, <2>1, <2>2
<1>5. /\ Order \in Seq(Places) /\ Len(Order) = m + m
      /\ \A i \in 1..m : Order[i] = PlaceAt(FrontRow, i)
      /\ \A i \in (m + 1)..(m + m) : Order[i] = PlaceAt(BackRow, i - m)
  <2>1. Order = Row(FrontRow) \o Row(BackRow)
    BY DEF Order
  <2>2. /\ Row(FrontRow) \in Seq(Places) /\ Len(Row(FrontRow)) = m
        /\ Row(BackRow) \in Seq(Places) /\ Len(Row(BackRow)) = m
        /\ \A i \in 1..m : Row(FrontRow)[i] = PlaceAt(FrontRow, i) /\ Row(BackRow)[i] = PlaceAt(BackRow, i)
    BY <1>4
  <2>3. /\ Order \in Seq(Places) /\ Len(Order) = m + m
        /\ \A i \in 1..(m + m) :
             Order[i] = IF i <= m THEN Row(FrontRow)[i] ELSE Row(BackRow)[i - m]
    <3> DEFINE front == Row(FrontRow)
               back == Row(BackRow)
    <3>1. /\ front \in Seq(Places) /\ back \in Seq(Places) /\ Len(front) = m /\ Len(back) = m
          /\ Order = front \o back
      BY <2>1, <2>2
    <3> HIDE DEF front, back
    <3>3. /\ front \o back \in Seq(Places)
          /\ Len(front \o back) = Len(front) + Len(back)
          /\ \A i \in 1..Len(front) + Len(back) :
               (front \o back)[i] = IF i <= Len(front) THEN front[i] ELSE back[i - Len(front)]
      BY <3>1, ConcatProperties
    <3>2. /\ Order \in Seq(Places) /\ Len(Order) = m + m
          /\ \A i \in 1..(m + m) : Order[i] = IF i <= m THEN front[i] ELSE back[i - m]
      BY <3>1, <3>3
    <3> QED
      BY <3>2 DEF front, back
  <2>4. ASSUME NEW i \in 1..m PROVE Order[i] = PlaceAt(FrontRow, i)
    <3>1. i \in 1..(m + m) /\ i <= m
      BY <1>1
    <3> QED
      BY <2>2, <2>3, <3>1
  <2>5. ASSUME NEW i \in (m + 1)..(m + m) PROVE Order[i] = PlaceAt(BackRow, i - m)
    <3>1. i \in 1..(m + m) /\ ~(i <= m) /\ i - m \in 1..m
      BY <1>1
    <3> QED
      BY <2>2, <2>3, <3>1
  <2> QED
    BY <2>3, <2>4, <2>5
<1> QED
  BY <1>5 DEF m

\* The order visits every place once.
LEMMA OrderOfPlaces ==
  /\ Len(Order) \in Nat
  /\ \A i \in 1..Len(Order) : Order[i] \in Places
  /\ \A t \in Places : \E i \in 1..Len(Order) : Order[i] = t
  /\ \A i, j \in 1..Len(Order) : Order[i] = Order[j] => i = j
<1> DEFINE m == 2 * NCols
<1>1. m \in Nat
  BY NColsIsNat
<1>2. ASSUME NEW i \in 1..m
      PROVE  /\ 1 + ((i - 1) % 2) \in Players /\ (i - 1) \div 2 \in Cols
             /\ i = 2 * ((i - 1) \div 2) + (1 + ((i - 1) % 2))
  BY NColsIsNat DEF Players, Cols
<1>3. ASSUME NEW p \in Players, NEW c \in Cols
      PROVE  /\ 2 * c + p \in 1..m
             /\ 1 + (((2 * c + p) - 1) % 2) = p /\ ((2 * c + p) - 1) \div 2 = c
  BY NColsIsNat DEF Players, Cols
<1>5. /\ Order \in Seq(Places) /\ Len(Order) = m + m
      /\ \A i \in 1..m : Order[i] = PlaceAt(FrontRow, i)
      /\ \A i \in (m + 1)..(m + m) : Order[i] = PlaceAt(BackRow, i - m)
  BY OrderLaidOut
<1> HIDE DEF m
<1>6. ASSUME NEW t \in Places PROVE \E i \in 1..Len(Order) : Order[i] = t
  <2>1. PICK p \in Players, r \in {FrontRow, BackRow}, c \in Cols : t = <<p, <<r, c>>>>
    BY DEF Places, Positions
  <2> DEFINE i == 2 * c + p
  <2>2. i \in 1..m /\ PlaceAt(r, i) = t
    <3>1. i \in 1..m /\ 1 + ((i - 1) % 2) = p /\ (i - 1) \div 2 = c
      <4>1. /\ 2 * c + p \in 1..m
            /\ 1 + (((2 * c + p) - 1) % 2) = p /\ ((2 * c + p) - 1) \div 2 = c
        BY <2>1, <1>3
      <4> QED
        BY <4>1
    <3> HIDE DEF i
    <3> QED
      BY <2>1, <3>1 DEF PlaceAt
  <2> HIDE DEF i
  <2>3. CASE r = FrontRow
    BY <1>1, <1>5, <2>2, <2>3
  <2>4. CASE r = BackRow
    <3>1. i + m \in (m + 1)..(m + m) /\ (i + m) - m = i /\ i + m \in 1..Len(Order)
      BY <1>1, <1>5, <2>2
    <3> QED
      BY <1>5, <2>2, <2>4, <3>1
  <2> QED
    BY <2>3, <2>4
<1>7. ASSUME NEW i \in 1..Len(Order), NEW j \in 1..Len(Order), Order[i] = Order[j]
      PROVE  i = j
  <2> DEFINE row(k) == IF k <= m THEN FrontRow ELSE BackRow
             col(k) == IF k <= m THEN k ELSE k - m
  <2>1. ASSUME NEW k \in 1..Len(Order) PROVE col(k) \in 1..m /\ Order[k] = PlaceAt(row(k), col(k))
    BY <1>1, <1>5
  <2>2. row(i) = row(j) /\ (col(i) - 1) % 2 = (col(j) - 1) % 2
        /\ (col(i) - 1) \div 2 = (col(j) - 1) \div 2
    <3>1. /\ PlaceAt(row(i), col(i)) = PlaceAt(row(j), col(j))
          /\ col(i) \in Int /\ col(j) \in Int
      <4>1. col(i) \in 1..m /\ col(j) \in 1..m
        BY <2>1
      <4>2. Order[i] = PlaceAt(row(i), col(i)) /\ Order[j] = PlaceAt(row(j), col(j))
        BY <2>1
      <4>3. col(i) \in Int /\ col(j) \in Int
        <5> HIDE DEF col
        <5> QED
          BY <1>1, <4>1
      <4>4. PlaceAt(row(i), col(i)) = PlaceAt(row(j), col(j))
        <5> HIDE DEF row, col
        <5> QED
          BY <1>7, <4>2
      <4> QED
        BY <4>3, <4>4
    <3> HIDE DEF row, col
    <3>2. /\ row(i) = row(j) /\ 1 + ((col(i) - 1) % 2) = 1 + ((col(j) - 1) % 2)
          /\ (col(i) - 1) \div 2 = (col(j) - 1) \div 2
      BY <3>1 DEF PlaceAt
    <3> QED
      BY <3>1, <3>2
  <2>3. col(i) = col(j)
    <3>1. col(i) \in 1..m /\ col(j) \in 1..m
      BY <2>1
    <3> HIDE DEF col, row
    <3> QED
      BY <1>2, <2>2, <3>1
  <2> QED
    BY <1>1, <1>5, <2>2, <2>3 DEF FrontRow, BackRow
<1>8. Len(Order) \in Nat /\ \A i \in 1..Len(Order) : Order[i] \in Places
  BY <1>1, <1>5
<1> QED
  BY <1>6, <1>7, <1>8

\* What the battlefield f can become while units act: the same cards stand, and the
\* leaders of G are as healthy as before.  Units outside X may charge on, and those of
\* W are not about to strike.
Later(f, G, X, W) ==
  {g \in Battlefields :
     /\ f.cap <= g.cap
     /\ \A p \in G : f.health[p] <= g.health[p]
     /\ \A t \in Places :
          IF f.board[t] = NoUnit THEN g.board[t] = NoUnit
          ELSE /\ g.board[t] # NoUnit
               /\ g.board[t].card = f.board[t].card
               /\ t \notin X => Charged(g.board[t])
               /\ t \in W => g.board[t].left # 1 /\ g.board[t].total # 1}

\* The leaders of G are guarded: nobody is about to strike past their units, and no
\* unit of theirs hurts them.
Guards(f, G) ==
  /\ \A t \in Standing(f, Places) : t[1] \in G => ~Harms(Unit(f, t).card)
  /\ \A t \in Standing(f, Places) :
       Opponent(t[1]) \in G /\ Unit(f, t).left = 1 =>
         /\ Standing(f, Column(Opponent(t[1]), t[2][2])) # {}
         /\ \A a \in AbilitiesOf(Unit(f, t).card) : a.effect # "random_target"

\* Another board of the same cards.
LEMMA LaterBoard ==
  ASSUME NEW f \in Battlefields, NEW G, NEW X, NEW W, NEW Y, NEW V,
         NEW g \in Later(f, G, X, W), NEW b \in Boards,
         \A t \in Places :
           IF f.board[t] = NoUnit THEN b[t] = NoUnit
           ELSE /\ b[t] # NoUnit
                /\ b[t].card = f.board[t].card
                /\ t \notin Y => Charged(b[t])
                /\ t \in V => b[t].left # 1 /\ b[t].total # 1
  PROVE  [g EXCEPT !.board = b] \in Later(f, G, Y, V)
<1> DEFINE h == [g EXCEPT !.board = b]
<1>1. g \in Battlefields /\ f.cap <= g.cap /\ \A p \in G : f.health[p] <= g.health[p]
  BY DEF Later
<1>2. h \in Battlefields /\ h.board = b /\ h.health = g.health /\ h.cap = g.cap
  BY <1>1, BoardChanged
<1> HIDE DEF h
<1>3. h \in Later(f, G, Y, V)
  BY <1>1, <1>2 DEF Later
<1> QED
  BY <1>3 DEF h

LEMMA LaterIsSteady ==
  ASSUME NEW f \in Battlefields, NEW G \in SUBSET Players, NEW X, NEW W
  PROVE  /\ Steady(Later(f, G, X, W))
         /\ \A p \in Players \ G : Exposed(Later(f, G, X, W), p)
<1> DEFINE F == Later(f, G, X, W)
<1>1. ASSUME NEW g \in F, NEW b \in Boards,
             \A t \in Places : b[t] = g.board[t] \/ (g.board[t] # NoUnit /\ Touched(g.board[t], b[t]))
      PROVE  [g EXCEPT !.board = b] \in F
  <2>1. ASSUME NEW t \in Places
        PROVE  IF f.board[t] = NoUnit THEN b[t] = NoUnit
               ELSE /\ b[t] # NoUnit
                    /\ b[t].card = f.board[t].card
                    /\ t \notin X => Charged(b[t])
                    /\ t \in W => b[t].left # 1 /\ b[t].total # 1
    <3>1. CASE b[t] = g.board[t]
      BY <3>1 DEF Later
    <3>2. CASE g.board[t] # NoUnit /\ Touched(g.board[t], b[t])
      <4>1. g.board[t] \in Units
        BY <3>2 DEF Later, Battlefields
      <4>2. Charged(g.board[t]) => Charged(b[t])
        BY <3>2, <4>1, TouchedCharge
      <4>3. b[t] # NoUnit
        BY <3>2, NoUnitIsNone DEF Touched
      <4>4. /\ f.board[t] # NoUnit /\ g.board[t].card = f.board[t].card
            /\ t \notin X => Charged(g.board[t])
            /\ t \in W => g.board[t].left # 1 /\ g.board[t].total # 1
        BY <3>2 DEF Later
      <4> QED
        BY <3>2, <4>2, <4>3, <4>4 DEF Touched
    <3> QED
      BY <1>1, <3>1, <3>2
  <2> QED
    BY <2>1, LaterBoard
<1>2. ASSUME NEW g \in F, NEW n \in Nat PROVE [g EXCEPT !.cap = @ + n] \in F
  <2> DEFINE h == [g EXCEPT !.cap = @ + n]
  <2>1. g \in Battlefields /\ f.cap <= g.cap /\ f.cap \in Nat
    BY DEF Later, Battlefields
  <2>2. /\ h \in Battlefields /\ h.board = g.board /\ h.health = g.health
        /\ h.cap \in Nat /\ g.cap \in Nat /\ g.cap <= h.cap
    <3>1. h.cap \in Nat
      BY <2>1, CapRaised
    <3> QED
      BY <2>1, <3>1, CapRaised
  <2> HIDE DEF h
  <2>3. h \in F
    BY <2>1, <2>2 DEF Later
  <2> QED
    BY <2>3 DEF h
<1>3. ASSUME NEW g \in F, NEW p \in Players \ G, NEW n \in Int
      PROVE  [g EXCEPT !.health[p] = @ - n] \in F
  <2> DEFINE h == [g EXCEPT !.health[p] = @ - n]
  <2>1. g \in Battlefields /\ p \in Players
    BY DEF Later
  <2>2. /\ h \in Battlefields /\ h.board = g.board /\ h.cap = g.cap
        /\ \A q \in Players : q # p => h.health[q] = g.health[q]
    BY <2>1, LeaderHurt
  <2> HIDE DEF h
  <2>3. h \in F
    BY <2>2 DEF Later
  <2> QED
    BY <2>3 DEF h
<1>4. F \subseteq Battlefields
  BY DEF Later
<1> HIDE DEF F
<1>5. Steady(F) /\ \A p \in Players \ G : Exposed(F, p)
  BY <1>1, <1>2, <1>3, <1>4 DEF Steady, Exposed
<1> QED
  BY <1>5 DEF F

\* Knowing less.
LEMMA LaterWeakens ==
  ASSUME NEW f, NEW G, NEW X, NEW W, NEW Y, NEW V, X \subseteq Y, V \subseteq W
  PROVE  Later(f, G, X, W) \subseteq Later(f, G, Y, V)
<1>1. ASSUME NEW g \in Later(f, G, X, W) PROVE g \in Later(f, G, Y, V)
  BY DEF Later
<1> QED
  BY <1>1

LEMMA LaterUnit ==
  ASSUME NEW f \in Battlefields, NEW G, NEW X, NEW W, NEW g \in Later(f, G, X, W), NEW s \in Places
  PROVE  /\ s \in Standing(f, Places) <=> s \in Standing(g, Places)
         /\ s \in Standing(f, Places) => Unit(g, s).card = Unit(f, s).card
         /\ \A T \in SUBSET Places : Standing(f, T) = Standing(g, T)
<1>1. \A t \in Places : /\ f.board[t] = NoUnit <=> g.board[t] = NoUnit
                        /\ f.board[t] # NoUnit => g.board[t].card = f.board[t].card
  BY DEF Later
<1> QED
  BY <1>1 DEF Standing, Unit

\* The turn of the unit at t, if there is one.
LEMMA TickUnitKeeps ==
  ASSUME NEW f \in Battlefields, NEW G \in SUBSET Players, Guards(f, G), NEW W, NEW V,
         NEW t \in Places, V \subseteq W, t \notin V,
         f.board[t] # NoUnit /\ t \notin W => f.board[t].left = 1,
         NEW g \in Later(f, G, {}, W)
  PROVE  TickUnit(g, t) \subseteq Later(f, G, {}, V)
<1> DEFINE u == Unit(g, t)
           v == [u EXCEPT !.left = @ - 1]
           b == [s \in Places |-> IF s = t THEN v ELSE g.board[s]]
           charged == Put(g, t, v)
           F == Later(f, G, {t}, V)
<1>0. g \in Battlefields /\ g \in Later(f, G, {}, V)
  BY LaterWeakens DEF Later
<1>1. CASE u = NoUnit \/ u.total = 0
  BY <1>0, <1>1 DEF TickUnit
<1>2. CASE ~(u = NoUnit \/ u.total = 0)
  <2>1. /\ t \in Standing(g, Places) /\ u \in Units /\ u.left \in Nat /\ u.total \in Nat
        /\ g.board[t] = u /\ f.board[t] # NoUnit /\ u.card = f.board[t].card
        /\ Charged(u) /\ (t \in W => u.left # 1)
    <3>1. t \in Standing(g, Places) /\ g.board[t] = u
      BY <1>2 DEF Standing, Unit
    <3> HIDE DEF u
    <3>2. u \in Units /\ u.left \in Nat /\ u.total \in Nat
      BY <1>0, <3>1, UnitAt DEF u
    <3>3. f.board[t] # NoUnit /\ u.card = f.board[t].card /\ Charged(u) /\ (t \in W => u.left # 1)
      BY <1>2, <3>1 DEF Later
    <3> QED
      BY <3>1, <3>2, <3>3
  <2>2. u.left \in 1..u.total /\ u.total # 0
    BY <1>2, <2>1 DEF Charged
  <2>3. /\ v \in Units /\ v.card = u.card /\ v.total = u.total /\ v.left = u.left - 1
        /\ v # NoUnit
    <3> HIDE DEF u
    <3>1. v \in Units /\ v.card = u.card /\ v.total = u.total /\ v.left = u.left - 1
      BY <2>1, <2>2 DEF Units
    <3> QED
      BY <3>1, NoUnitIsNone
  <2> HIDE DEF v
  <2>4. charged = [g EXCEPT !.board = b]
    BY DEF Put
  <2>5. b \in Boards /\ b[t] = v /\ \A s \in Places : s # t => b[s] = g.board[s]
    <3>1. g.board \in Boards
      BY <1>0 DEF Battlefields, Boards
    <3> QED
      BY <2>3, <3>1 DEF Boards
  <2> HIDE DEF b, u, charged
  <2>6. \A s \in Places : s # t =>
          IF f.board[s] = NoUnit THEN b[s] = NoUnit
          ELSE /\ b[s] # NoUnit
               /\ b[s].card = f.board[s].card
               /\ Charged(b[s])
               /\ s \in V => b[s].left # 1 /\ b[s].total # 1
    BY <2>5 DEF Later
  <2>7. CASE u.left > 1
    <3>1. Charged(v)
      BY <2>1, <2>2, <2>3, <2>7 DEF Charged
    <3>2. \A s \in Places :
            IF f.board[s] = NoUnit THEN b[s] = NoUnit
            ELSE /\ b[s] # NoUnit
                 /\ b[s].card = f.board[s].card
                 /\ s \notin {} => Charged(b[s])
                 /\ s \in V => b[s].left # 1 /\ b[s].total # 1
      BY <2>1, <2>3, <2>5, <2>6, <3>1
    <3>3. charged \in Later(f, G, {}, V)
      BY <2>4, <2>5, <3>2, LaterBoard
    <3>4. TickUnit(g, t) = {charged}
      BY <1>2, <2>7 DEF TickUnit, u, v, charged
    <3> QED
      BY <3>3, <3>4
  <2>8. CASE ~(u.left > 1)
    <3>1. u.left = 1 /\ t \notin W /\ f.board[t].left = 1
      BY <2>1, <2>2, <2>8
    <3>2. charged \in F
      <4>1. \A s \in Places :
              IF f.board[s] = NoUnit THEN b[s] = NoUnit
              ELSE /\ b[s] # NoUnit
                   /\ b[s].card = f.board[s].card
                   /\ s \notin {t} => Charged(b[s])
                   /\ s \in V => b[s].left # 1 /\ b[s].total # 1
        BY <2>1, <2>3, <2>5, <2>6
      <4> QED
        BY <2>4, <2>5, <4>1, LaterBoard
    <3>3. Steady(F) /\ \A p \in Players \ G : Exposed(F, p)
      BY LaterIsSteady
    <3>4. ASSUME NEW h \in F, NEW s \in Standing(h, Places), Harms(Unit(h, s).card)
          PROVE  Exposed(F, s[1])
      <4>1. s \in Places
        BY DEF Standing
      <4>2. s \in Standing(f, Places) /\ Unit(h, s).card = Unit(f, s).card
        BY <4>1, LaterUnit
      <4>3. s[1] \in Players \ G
        BY <3>4, <4>1, <4>2, PlaceParts DEF Guards
      <4> QED
        BY <3>3, <4>3
    <3>5. Sparing(F)
      BY <3>4 DEF Sparing
    <3>6. \A h \in F : t \in Standing(h, Places)
      BY <2>1, LaterUnit DEF Standing, Unit
    <3>7. ASSUME Opponent(t[1]) \in G, NEW h \in F
          PROVE  {} \notin Aims(h, t)
      <4>1. t \in Standing(f, Places) /\ Unit(f, t).left = 1
        BY <2>1, <3>1 DEF Standing, Unit
      <4>2. /\ Standing(f, Column(Opponent(t[1]), t[2][2])) # {}
            /\ \A a \in AbilitiesOf(Unit(f, t).card) : a.effect # "random_target"
        BY <3>7, <4>1 DEF Guards
      <4>3. Column(Opponent(t[1]), t[2][2]) \in SUBSET Places
        BY PlaceParts, SidesArePlaces
      <4>4. /\ Standing(h, Column(Opponent(t[1]), t[2][2])) # {}
            /\ Unit(h, t).card = Unit(f, t).card
        BY <4>1, <4>2, <4>3, LaterUnit
      <4>5. h \in Battlefields /\ t \in Standing(h, Places)
        BY <3>6 DEF Later
      <4> QED
        BY <4>2, <4>4, <4>5, AimsAtColumn
    <3>8. Exposed(F, Opponent(t[1])) \/ \A h \in F : {} \notin Aims(h, t)
      BY <3>3, <3>7, PlaceParts
    <3> DEFINE struck == ResolveAttack(charged, t)
    <3>9. \A r \in struck : \E h \in F : r = Recharge(h, {t})
      <4> HIDE DEF F
      <4> QED
        BY <3>2, <3>3, <3>5, <3>6, <3>8, ResolveAttackKeeps
    <3>10. ASSUME NEW h \in F PROVE Recharge(h, {t}) \in Later(f, G, {}, V)
      <4> DEFINE w == [Unit(h, t) EXCEPT !.left = Unit(h, t).total]
                 k == [s \in Places |-> IF s \in Standing(h, {t}) THEN [h.board[s] EXCEPT !.left = h.board[s].total]
                                        ELSE h.board[s]]
      <4>1. Recharge(h, {t}) = [h EXCEPT !.board = k]
        BY DEF Recharge, Change
      <4>2. h \in Battlefields /\ t \in Standing(h, Places)
        BY <3>6 DEF Later
      <4>3. Unit(h, t) \in Units /\ Unit(h, t).total \in Nat
        BY <4>2, UnitAt
      <4>4. /\ w \in Units /\ w.card = Unit(h, t).card /\ w.left = Unit(h, t).total
            /\ w.total = Unit(h, t).total
        BY <4>3 DEF Units
      <4>5. Charged(w) /\ w # NoUnit
        BY <4>3, <4>4, NoUnitIsNone DEF Charged
      <4>6. k[t] = w /\ \A s \in Places : s # t => k[s] = h.board[s]
        BY <4>2 DEF Standing, Unit
      <4>7. k = [s \in Places |-> k[s]]
        OBVIOUS
      <4> HIDE DEF w, k
      <4>8. k \in Boards
        <5>1. \A s \in Places : k[s] \in Units \cup {NoUnit}
          BY <4>2, <4>4, <4>6 DEF Battlefields
        <5> QED
          BY <4>7, <5>1 DEF Boards
      <4>9. \A s \in Places : s # t =>
              IF f.board[s] = NoUnit THEN k[s] = NoUnit
              ELSE /\ k[s] # NoUnit
                   /\ k[s].card = f.board[s].card
                   /\ Charged(k[s])
                   /\ s \in V => k[s].left # 1 /\ k[s].total # 1
        BY <4>6 DEF Later
      <4>10. Unit(h, t).card = f.board[t].card
        BY <4>2, LaterUnit DEF Unit
      <4>11. \A s \in Places :
               IF f.board[s] = NoUnit THEN k[s] = NoUnit
               ELSE /\ k[s] # NoUnit
                    /\ k[s].card = f.board[s].card
                    /\ s \notin {} => Charged(k[s])
                    /\ s \in V => k[s].left # 1 /\ k[s].total # 1
        BY <2>1, <4>4, <4>5, <4>6, <4>9, <4>10
      <4> QED
        BY <4>1, <4>8, <4>11, LaterBoard
    <3>11. TickUnit(g, t) = struck
      BY <1>2, <2>8 DEF TickUnit, u, v, charged
    <3> HIDE DEF F, struck
    <3> QED
      BY <3>9, <3>10, <3>11
  <2> QED
    BY <2>7, <2>8
<1> QED
  BY <1>1, <1>2

\* What h keeps for n: what can come of the first n turns.
TickChain(h, f) ==
  /\ InTurn(TickUnit, f, Order) = h[Len(Order)]
  /\ h[0] = {f}
  /\ \A i \in 1..Len(Order) : \A x : x \in h[i] <=> \E g \in h[i - 1] : x \in TickUnit(g, Order[i])

\* The board after every unit had its turn: who was not about to strike has waited.
LEMMA UnitsTurn ==
  ASSUME NEW f \in Battlefields, NEW G \in SUBSET Players, Guards(f, G),
         \A t \in Places : f.board[t] # NoUnit => Charged(f.board[t])
  PROVE  \E h : TickChain(h, f) /\ h[Len(Order)] \subseteq Later(f, G, {}, {})
<1> DEFINE Waiting(i) == {t \in Places : /\ f.board[t] # NoUnit
                                         /\ f.board[t].left # 1
                                         /\ \A j \in 1..i : Order[j] # t}
<1> DEFINE s == Order
           n == Len(s)
           X == [i \in 0..n |-> Later(f, G, {}, Waiting(i))]
           tick(g, t) == TickUnit(g, t)
           step == [i \in 1..n |-> [g \in X[i - 1] |-> tick(g, s[i])]]
           Then(h, i) == UNION {tick(g, s[i]) : g \in h[i - 1]}
           Eq(h) == h = [i \in 0..n |-> IF i = 0 THEN {f} ELSE Then(h, i)]
           after == CHOOSE h : Eq(h)
<1>1. InTurn(TickUnit, f, Order) = after[n]
  BY DEF InTurn
<1>2. n \in Nat /\ f \in X[0] /\ X[n] \subseteq Later(f, G, {}, {})
  <2>1. n \in Nat /\ \A i \in 0..n : X[i] = Later(f, G, {}, Waiting(i))
    BY OrderOfPlaces
  <2>2. ASSUME NEW t \in Waiting(0) PROVE f.board[t].left # 1 /\ f.board[t].total # 1
    <3>1. f.board[t] \in Units /\ Charged(f.board[t]) /\ f.board[t].left # 1
      BY DEF Battlefields
    <3>2. f.board[t].left \in Nat /\ f.board[t].total \in Nat
      BY <3>1 DEF Units
    <3> QED
      BY <3>1, <3>2 DEF Charged
  <2> HIDE DEF Waiting
  <2>3. f.cap \in Nat /\ \A p \in Players : f.health[p] \in Int
    BY DEF Battlefields
  <2>4. f \in Later(f, G, {}, Waiting(0))
    BY <2>2, <2>3 DEF Later
  <2>5. Later(f, G, {}, Waiting(n)) \subseteq Later(f, G, {}, {})
    BY LaterWeakens
  <2> QED
    BY <2>1, <2>4, <2>5
<1>3. ASSUME NEW i \in 1..n, NEW g \in X[i - 1] PROVE tick(g, s[i]) \subseteq X[i]
  <2>1. /\ i \in 0..n /\ i - 1 \in 0..n /\ Order[i] \in Places
        /\ \A j \in 1..(i - 1) : j \in 1..n /\ j # i /\ j \in 1..i
        /\ i \in 1..i
    BY <1>2, OrderOfPlaces
  <2>2. /\ X[i] = Later(f, G, {}, Waiting(i)) /\ g \in Later(f, G, {}, Waiting(i - 1))
        /\ s[i] = Order[i]
    BY <2>1
  <2>3. Waiting(i) \subseteq Waiting(i - 1) /\ Order[i] \notin Waiting(i)
    BY <2>1
  <2>4. f.board[Order[i]] # NoUnit /\ Order[i] \notin Waiting(i - 1) => f.board[Order[i]].left = 1
    BY <2>1, OrderOfPlaces
  <2> HIDE DEF Waiting, s, n, X
  <2>5. TickUnit(g, Order[i]) \subseteq Later(f, G, {}, Waiting(i))
    BY <2>1, <2>2, <2>3, <2>4, TickUnitKeeps
  <2> QED
    BY <2>2, <2>5
<1> HIDE DEF tick, s, n, X
<1>4. \A i \in 1..n : \A g \in X[i - 1] : step[i][g] = tick(g, s[i])
  OBVIOUS
<1>5. \A i \in 1..n : \A g \in X[i - 1] : step[i][g] \subseteq X[i]
  BY <1>3, <1>4
<1> HIDE DEF step
<1>6. PICK h : Turns(h, X, n, f, step)
  BY <1>2, <1>5, TurnsExist
<1>7. \A i \in 1..n : i \in 0..n /\ i - 1 \in 0..n /\ i # 0
  BY <1>2
<1>8. ASSUME NEW i \in 1..n PROVE h[i] = Then(h, i)
  <2>1. \A g \in h[i - 1] : step[i][g] = tick(g, s[i])
    BY <1>4, <1>6, <1>7 DEF Turns
  <2>2. ASSUME NEW x PROVE x \in h[i] <=> \E g \in h[i - 1] : x \in tick(g, s[i])
    <3>1. x \in h[i] <=> \E g \in h[i - 1] : x \in step[i][g]
      BY <1>6 DEF Turns
    <3> QED
      BY <2>1, <3>1
  <2> QED
    BY <2>2
<1>10. ASSUME NEW k, NEW i \in 1..n, k[i - 1] \subseteq X[i - 1] PROVE Then(k, i) \subseteq X[i]
  BY <1>3, <1>10
<1> HIDE DEF Then
<1>12. Eq(h)
  BY <1>2, <1>6, <1>7, <1>8 DEF Turns
<1>13. Eq(after)
  BY <1>12
<1>17. after[0] = {f}
  <2>1. 0 \in 0..n
    BY <1>2
  <2> QED
    BY <2>1, <1>13
<1>18. ASSUME NEW i \in 1..n, NEW x
      PROVE  x \in after[i] <=> \E g \in after[i - 1] : x \in tick(g, s[i])
  <2>1. after[i] = Then(after, i)
    BY <1>7, <1>13
  <2> HIDE DEF after
  <2> QED
    BY <2>1 DEF Then
<1> HIDE DEF after
<1>14. after[0] \subseteq X[0]
  <2>1. 0 \in 0..n
    BY <1>2
  <2> QED
    BY <2>1, <1>2, <1>13
<1>15. ASSUME NEW i \in 1..n, after[i - 1] \subseteq X[i - 1] PROVE after[i] \subseteq X[i]
  <2>1. after[i] = Then(after, i)
    BY <1>7, <1>13
  <2> QED
    BY <2>1, <1>10, <1>15
<1>16. after[n] \subseteq X[n]
  BY <1>2, <1>14, <1>15, KeptInTurn

<1>19. TickChain(after, f) /\ after[Len(Order)] \subseteq Later(f, G, {}, {})
  <2>1. after[n] \subseteq Later(f, G, {}, {})
    BY <1>2, <1>16
  <2> QED
    BY <1>1, <1>17, <1>18, <2>1 DEF TickChain, s, n, tick
<1> QED
  BY <1>19

LEMMA UnitsTick ==
  ASSUME NEW f \in Battlefields, NEW G \in SUBSET Players, Guards(f, G),
         \A t \in Places : f.board[t] # NoUnit => Charged(f.board[t])
  PROVE  InTurn(TickUnit, f, Order) \subseteq Later(f, G, {}, {})
<1>1. PICK h : TickChain(h, f) /\ h[Len(Order)] \subseteq Later(f, G, {}, {})
  BY UnitsTurn
<1> QED
  BY <1>1 DEF TickChain

(***************************************************************************)
(* Deaths.                                                                 *)
(***************************************************************************)

\* What the battlefield f can become while units die: those of D are gone, no unit
\* has come, and the leaders of G are as healthy as before.
Thinner(f, G, D) ==
  {g \in Battlefields :
     /\ f.cap <= g.cap
     /\ \A p \in G : f.health[p] <= g.health[p]
     /\ \A t \in Places : g.board[t] # NoUnit =>
          /\ f.board[t] # NoUnit /\ t \notin D
          /\ g.board[t].card = f.board[t].card
          /\ Charged(g.board[t])}

\* No unit of the players of G hurts its leader.
Spares(f, G) == \A t \in Standing(f, Places) : t[1] \in G => ~Harms(Unit(f, t).card)

ChargesAreFull(f) == \A t \in Places : f.board[t] # NoUnit => Charged(f.board[t])

LEMMA ThinnerBoard ==
  ASSUME NEW f \in Battlefields, NEW G, NEW D, NEW E, NEW g \in Thinner(f, G, D), NEW b \in Boards,
         \A t \in Places : b[t] # NoUnit =>
           /\ f.board[t] # NoUnit /\ t \notin E
           /\ b[t].card = f.board[t].card
           /\ Charged(b[t])
  PROVE  [g EXCEPT !.board = b] \in Thinner(f, G, E)
<1> DEFINE h == [g EXCEPT !.board = b]
<1>1. g \in Battlefields /\ f.cap <= g.cap /\ \A p \in G : f.health[p] <= g.health[p]
  BY DEF Thinner
<1>2. h \in Battlefields /\ h.board = b /\ h.health = g.health /\ h.cap = g.cap
  BY <1>1, BoardChanged
<1> HIDE DEF h
<1>3. h \in Thinner(f, G, E)
  BY <1>1, <1>2 DEF Thinner
<1> QED
  BY <1>3 DEF h

LEMMA ThinnerIsSteady ==
  ASSUME NEW f \in Battlefields, NEW G \in SUBSET Players, NEW D
  PROVE  /\ Steady(Thinner(f, G, D))
         /\ \A p \in Players \ G : Exposed(Thinner(f, G, D), p)
<1> DEFINE F == Thinner(f, G, D)
<1>1. ASSUME NEW g \in F, NEW b \in Boards,
             \A t \in Places : b[t] = g.board[t] \/ (g.board[t] # NoUnit /\ Touched(g.board[t], b[t]))
      PROVE  [g EXCEPT !.board = b] \in F
  <2>1. ASSUME NEW t \in Places, b[t] # NoUnit
        PROVE  /\ f.board[t] # NoUnit /\ t \notin D
               /\ b[t].card = f.board[t].card
               /\ Charged(b[t])
    <3>1. CASE b[t] = g.board[t]
      BY <2>1, <3>1 DEF Thinner
    <3>2. CASE g.board[t] # NoUnit /\ Touched(g.board[t], b[t])
      <4>1. g.board[t] \in Units
        BY <3>2 DEF Thinner, Battlefields
      <4>2. /\ f.board[t] # NoUnit /\ t \notin D
            /\ g.board[t].card = f.board[t].card /\ Charged(g.board[t])
        BY <3>2 DEF Thinner
      <4> QED
        BY <3>2, <4>1, <4>2, TouchedCharge DEF Touched
    <3> QED
      BY <1>1, <3>1, <3>2
  <2> QED
    BY <2>1, ThinnerBoard
<1>2. ASSUME NEW g \in F, NEW n \in Nat PROVE [g EXCEPT !.cap = @ + n] \in F
  <2> DEFINE h == [g EXCEPT !.cap = @ + n]
  <2>1. g \in Battlefields /\ f.cap <= g.cap /\ f.cap \in Nat
    BY DEF Thinner, Battlefields
  <2>2. /\ h \in Battlefields /\ h.board = g.board /\ h.health = g.health
        /\ h.cap \in Nat /\ g.cap \in Nat /\ g.cap <= h.cap
    <3>1. h.cap \in Nat
      BY <2>1, CapRaised
    <3> QED
      BY <2>1, <3>1, CapRaised
  <2> HIDE DEF h
  <2>3. h \in F
    BY <2>1, <2>2 DEF Thinner
  <2> QED
    BY <2>3 DEF h
<1>3. ASSUME NEW g \in F, NEW p \in Players \ G, NEW n \in Int
      PROVE  [g EXCEPT !.health[p] = @ - n] \in F
  <2> DEFINE h == [g EXCEPT !.health[p] = @ - n]
  <2>1. g \in Battlefields /\ p \in Players
    BY DEF Thinner
  <2>2. /\ h \in Battlefields /\ h.board = g.board /\ h.cap = g.cap
        /\ \A q \in Players : q # p => h.health[q] = g.health[q]
    BY <2>1, LeaderHurt
  <2> HIDE DEF h
  <2>3. h \in F
    BY <2>2 DEF Thinner
  <2> QED
    BY <2>3 DEF h
<1>4. F \subseteq Battlefields
  BY DEF Thinner
<1> HIDE DEF F
<1>5. Steady(F) /\ \A p \in Players \ G : Exposed(F, p)
  BY <1>1, <1>2, <1>3, <1>4 DEF Steady, Exposed
<1> QED
  BY <1>5 DEF F

\* The board without a unit.
LEMMA UnitRemoved ==
  ASSUME NEW g \in Battlefields, NEW t \in Places
  PROVE  \E b \in Boards : /\ Remove(g, {t}) = [g EXCEPT !.board = b]
                           /\ b[t] = NoUnit
                           /\ \A s \in Places : s # t => b[s] = g.board[s]
<1> DEFINE b == [s \in Places |-> IF s \in Standing(g, {t}) THEN NoUnit ELSE g.board[s]]
<1>1. Remove(g, {t}) = [g EXCEPT !.board = b]
  BY DEF Remove, Change
<1>2. b \in Boards
  BY DEF Battlefields, Boards
<1>3. b[t] = NoUnit /\ \A s \in Places : s # t => b[s] = g.board[s]
  BY DEF Standing, Unit
<1> HIDE DEF b
<1> QED
  BY <1>1, <1>2, <1>3

\* What the turn of t in a wave does to g; the wave began with f.
Dying(f, g, t) ==
  IF t \in Dead(f) THEN {Remove(h, {t}) : h \in FireTrigger("on_death", Unit(f, t).card, g, t, t)}
  ELSE {g}

\* What h keeps for n: what can come of the first n turns of a wave.
WaveChain(h, f) ==
  /\ Wave(f) = h[Len(Order)]
  /\ h[0] = {f}
  /\ \A i \in 1..Len(Order) : \A x : x \in h[i] <=> \E g \in h[i - 1] : x \in Dying(f, g, Order[i])

LEMMA DyingKeeps ==
  ASSUME NEW f \in Battlefields, NEW g \in Battlefields, NEW t \in Places
  PROVE  Dying(f, g, t) \subseteq Battlefields
<1>1. CASE t \notin Dead(f)
  BY <1>1 DEF Dying
<1>2. CASE t \in Dead(f)
  <2>1. Unit(f, t).card \in Cards
    BY <1>2, UnitAt DEF Dead
  <2>2. FireTrigger("on_death", Unit(f, t).card, g, t, t) \subseteq Battlefields
    BY <2>1, BattlefieldsAreSteady, PlaceParts, FireSteady
  <2>3. ASSUME NEW h \in Battlefields PROVE Remove(h, {t}) \in Battlefields
    <3>1. PICK b \in Boards : Remove(h, {t}) = [h EXCEPT !.board = b]
      BY UnitRemoved
    <3> QED
      BY <3>1, BoardChanged
  <2> QED
    BY <1>2, <2>2, <2>3 DEF Dying
<1> QED
  BY <1>1, <1>2

LEMMA WaveTurns ==
  ASSUME NEW f \in Battlefields
  PROVE  \E h : WaveChain(h, f)
<1> DEFINE s == Order
           n == Len(s)
           X == [i \in 0..n |-> Battlefields]
           die(g, t) == IF t \in Dead(f)
                         THEN {Remove(h, {t}) : h \in FireTrigger("on_death", Unit(f, t).card, g, t, t)}
                         ELSE {g}
           step == [i \in 1..n |-> [g \in X[i - 1] |-> die(g, s[i])]]
           Then(h, i) == UNION {die(g, s[i]) : g \in h[i - 1]}
           Eq(h) == h = [i \in 0..n |-> IF i = 0 THEN {f} ELSE Then(h, i)]
           after == CHOOSE h : Eq(h)
<1>1. Wave(f) = after[n]
  BY DEF Wave, InTurn
<1>2. n \in Nat /\ X[0] = Battlefields /\ f \in X[0]
      /\ \A i \in 1..n : X[i] = Battlefields /\ X[i - 1] = Battlefields
  BY OrderOfPlaces
<1>3. ASSUME NEW i \in 1..n, NEW g \in X[i - 1] PROVE die(g, s[i]) \subseteq X[i]
  <2>1. s[i] \in Places /\ g \in Battlefields /\ X[i] = Battlefields
    BY <1>2, OrderOfPlaces
  <2>2. die(g, s[i]) = Dying(f, g, s[i])
    BY DEF Dying
  <2> HIDE DEF s, n, X, die
  <2> QED
    BY <2>1, <2>2, DyingKeeps
<1> HIDE DEF die, s, n, X
<1>4. \A i \in 1..n : \A g \in X[i - 1] : step[i][g] = die(g, s[i])
  OBVIOUS
<1>5. \A i \in 1..n : \A g \in X[i - 1] : step[i][g] \subseteq X[i]
  BY <1>3, <1>4
<1> HIDE DEF step
<1>6. PICK h : Turns(h, X, n, f, step)
  BY <1>2, <1>5, TurnsExist
<1>7. \A i \in 1..n : i \in 0..n /\ i - 1 \in 0..n /\ i # 0
  BY <1>2
<1>8. ASSUME NEW i \in 1..n PROVE h[i] = Then(h, i)
  <2>1. \A g \in h[i - 1] : step[i][g] = die(g, s[i])
    BY <1>4, <1>6, <1>7 DEF Turns
  <2>2. ASSUME NEW x PROVE x \in h[i] <=> \E g \in h[i - 1] : x \in die(g, s[i])
    <3>1. x \in h[i] <=> \E g \in h[i - 1] : x \in step[i][g]
      BY <1>6 DEF Turns
    <3> QED
      BY <2>1, <3>1
  <2> QED
    BY <2>2
<1> HIDE DEF Then
<1>12. Eq(h)
  BY <1>2, <1>6, <1>7, <1>8 DEF Turns
<1>13. Eq(after)
  BY <1>12
<1>14. after[0] = {f}
  <2>1. 0 \in 0..n
    BY <1>2
  <2> QED
    BY <2>1, <1>13
<1>15. ASSUME NEW i \in 1..n, NEW x
      PROVE  x \in after[i] <=> \E g \in after[i - 1] : x \in die(g, s[i])
  <2>1. after[i] = Then(after, i)
    BY <1>7, <1>13
  <2> HIDE DEF after
  <2> QED
    BY <2>1 DEF Then
<1> HIDE DEF after
<1>16. WaveChain(after, f)
  <2>1. \A g, t : die(g, t) = Dying(f, g, t)
    BY DEF die, Dying
  <2> QED
    BY <1>1, <1>14, <1>15, <2>1 DEF WaveChain, s, n
<1> QED
  BY <1>16

\* After a wave, those who were dead at its beginning are gone.
LEMMA WaveThins ==
  ASSUME NEW f \in Battlefields, NEW G \in SUBSET Players, Spares(f, G), ChargesAreFull(f)
  PROVE  Wave(f) \subseteq Thinner(f, G, Dead(f))
<1> DEFINE Fallen(i) == {t \in Dead(f) : \E j \in 1..i : Order[j] = t}
           n == Len(Order)
<1>1. PICK h : WaveChain(h, f)
  BY WaveTurns
<1>2. n \in Nat /\ Fallen(0) = {} /\ Fallen(n) = Dead(f)
  BY OrderOfPlaces DEF Dead, Standing
<1>3. ASSUME NEW i \in 1..n, h[i - 1] \subseteq Thinner(f, G, Fallen(i - 1))
      PROVE  h[i] \subseteq Thinner(f, G, Fallen(i))
  <2> DEFINE t == Order[i]
             F == Thinner(f, G, Fallen(i - 1))
  <2> SUFFICES ASSUME NEW x \in h[i] PROVE x \in Thinner(f, G, Fallen(i))
    OBVIOUS
  <2>1. PICK g \in h[i - 1] : x \in Dying(f, g, t)
    BY <1>1 DEF WaveChain
  <2>2. t \in Places /\ g \in F
    BY <1>3, OrderOfPlaces
  <2>3. \A e \in Fallen(i) : e \in Fallen(i - 1) \/ e = t
    BY <1>2
  <2>6. t \notin Dead(f) => Fallen(i) \subseteq Fallen(i - 1)
    BY <2>3
  <2> HIDE DEF Fallen
  <2>4. CASE t \notin Dead(f)
    <3>1. x = g
      BY <2>1, <2>4 DEF Dying
    <3> QED
      BY <2>2, <2>4, <2>6, <3>1 DEF Thinner
  <2>5. CASE t \in Dead(f)
    <3> DEFINE d == Unit(f, t).card
    <3>1. t \in Standing(f, Places) /\ d \in Cards
      BY <2>5, UnitAt DEF Dead
    <3>2. Steady(F) /\ (Harms(d) => Exposed(F, t[1]))
      BY <2>2, <3>1, ThinnerIsSteady, PlaceParts DEF Spares
    <3>5. PICK r \in FireTrigger("on_death", d, g, t, t) : x = Remove(r, {t})
      BY <2>1, <2>5 DEF Dying
    <3> HIDE DEF d, F
    <3>3. r \in F
      BY <2>2, <3>1, <3>2, <3>5, FireSteady
    <3>6. r \in Battlefields /\ r \in Thinner(f, G, Fallen(i - 1))
      BY <3>3 DEF F, Thinner
    <3>7. PICK b \in Boards : /\ Remove(r, {t}) = [r EXCEPT !.board = b]
                              /\ b[t] = NoUnit
                              /\ \A e \in Places : e # t => b[e] = r.board[e]
      BY <2>2, <3>6, UnitRemoved
    <3>8. ASSUME NEW e \in Places, b[e] # NoUnit
          PROVE  /\ f.board[e] # NoUnit /\ e \notin Fallen(i)
                 /\ b[e].card = f.board[e].card
                 /\ Charged(b[e])
      <4>1. e # t /\ b[e] = r.board[e]
        BY <3>7, <3>8
      <4> QED
        BY <2>3, <3>6, <3>8, <4>1 DEF Thinner
    <3> QED
      BY <3>5, <3>6, <3>7, <3>8, ThinnerBoard
  <2> QED
    BY <2>4, <2>5
<1>4. h[0] \subseteq Thinner(f, G, Fallen(0))
  <2>1. f.cap \in Nat /\ \A p \in Players : f.health[p] \in Int
    BY DEF Battlefields
  <2> HIDE DEF Fallen
  <2>2. f \in Thinner(f, G, Fallen(0))
    BY <1>2, <2>1 DEF Thinner, ChargesAreFull
  <2> QED
    BY <1>1, <2>2 DEF WaveChain
<1> DEFINE S == {i \in 0..n : h[i] \subseteq Thinner(f, G, Fallen(i))}
<1>5. 0 \in S /\ \A i \in 1..n : i - 1 \in S => i \in S
  <2> HIDE DEF Fallen
  <2> QED
    BY <1>2, <1>3, <1>4
<1> HIDE DEF S, Fallen
<1>6. n \in S
  BY <1>2, <1>5, StepByStep
<1> QED
  BY <1>1, <1>2, <1>6 DEF S, WaveChain

\* The battlefields that differ from f in who stands on D, apart from leaders and caps.
Without(f, D) ==
  {g \in Battlefields :
     \A t \in Places : g.board[t] = IF t \in D THEN NoUnit ELSE f.board[t]}

\* A turn in which nobody avenges himself changes the boards at t only.
LEMMA DyingQuietly ==
  ASSUME NEW f \in Battlefields, NEW g \in Battlefields, NEW t \in Places,
         t \in Dead(f) => ~Avenges(Unit(f, t)), NEW x \in Dying(f, g, t)
  PROVE  /\ x \in Battlefields
         /\ \A s \in Places : x.board[s] = IF s = t /\ t \in Dead(f) THEN NoUnit ELSE g.board[s]
<1>1. CASE t \notin Dead(f)
  BY <1>1 DEF Dying
<1>2. CASE t \in Dead(f)
  <2> DEFINE d == Unit(f, t).card
  <2>1. d \in Cards
    BY <1>2, UnitAt DEF Dead
  <2>2. \A a \in AbilitiesOf(d) : a.trigger = "on_death" => a.effect = "damage_leader"
    BY <1>2 DEF Avenges
  <2>3. PICK r \in FireTrigger("on_death", d, g, t, t) : x = Remove(r, {t})
    BY <1>2 DEF Dying
  <2> HIDE DEF d
  <2>4. r \in Battlefields /\ r.board = g.board
    BY <2>1, <2>2, <2>3, FireQuiet
  <2>5. PICK b \in Boards : /\ Remove(r, {t}) = [r EXCEPT !.board = b]
                            /\ b[t] = NoUnit
                            /\ \A s \in Places : s # t => b[s] = r.board[s]
    BY <2>4, UnitRemoved
  <2>6. x \in Battlefields /\ x.board = b
    <3>1. x = [r EXCEPT !.board = b] /\ r \in Battlefields /\ b \in Boards
      BY <2>3, <2>4, <2>5
    <3> QED
      BY <3>1 DEF Battlefields, Boards
  <2> QED
    BY <1>2, <2>4, <2>5, <2>6
<1> QED
  BY <1>1, <1>2

\* When no dying unit avenges itself, the others stay as they are.
LEMMA QuietWave ==
  ASSUME NEW f \in Battlefields, \A t \in Dead(f) : ~Avenges(Unit(f, t)), NEW g \in Wave(f)
  PROVE  g \in Without(f, Dead(f)) /\ Dead(g) = {}
<1> DEFINE Fallen(i) == {t \in Dead(f) : \E j \in 1..i : Order[j] = t}
           n == Len(Order)
<1>1. PICK h : WaveChain(h, f)
  BY WaveTurns
<1>2. n \in Nat /\ Fallen(0) = {} /\ Fallen(n) = Dead(f)
  BY OrderOfPlaces DEF Dead, Standing
<1>3. ASSUME NEW i \in 1..n, h[i - 1] \subseteq Without(f, Fallen(i - 1)), NEW x \in h[i]
      PROVE  x \in Without(f, Fallen(i))
  <2> DEFINE t == Order[i]
  <2>1. PICK r \in h[i - 1] : x \in Dying(f, r, t)
    BY <1>1 DEF WaveChain
  <2>2. t \in Places /\ r \in Without(f, Fallen(i - 1))
    BY <1>3, OrderOfPlaces
  <2>3. \A e : e \in Fallen(i) <=> e \in Fallen(i - 1) \/ (e = t /\ t \in Dead(f))
    BY <1>2
  <2> HIDE DEF Fallen, t
  <2>4. r \in Battlefields /\ \A e \in Places : r.board[e] = IF e \in Fallen(i - 1) THEN NoUnit ELSE f.board[e]
    BY <2>2 DEF Without
  <2>5. /\ x \in Battlefields
        /\ \A e \in Places : x.board[e] = IF e = t /\ t \in Dead(f) THEN NoUnit ELSE r.board[e]
    BY <2>1, <2>2, <2>4, DyingQuietly
  <2>6. ASSUME NEW e \in Places PROVE x.board[e] = IF e \in Fallen(i) THEN NoUnit ELSE f.board[e]
    BY <2>3, <2>4, <2>5
  <2> QED
    BY <2>5, <2>6 DEF Without
<1>4. h[0] \subseteq Without(f, Fallen(0))
  <2> HIDE DEF Fallen
  <2> QED
    BY <1>1, <1>2 DEF WaveChain, Without
<1> DEFINE S == {i \in 0..n : h[i] \subseteq Without(f, Fallen(i))}
<1>5. 0 \in S /\ \A i \in 1..n : i - 1 \in S => i \in S
  <2> HIDE DEF Fallen
  <2> QED
    BY <1>2, <1>3, <1>4
<1> HIDE DEF S, Fallen
<1>6. n \in S
  BY <1>2, <1>5, StepByStep
<1>7. g \in Without(f, Dead(f))
  BY <1>1, <1>2, <1>6 DEF S, WaveChain
<1> QED
  BY <1>7 DEF Dead, Standing, Unit, Without

\* The units whose death can bring others to zero.
Avengers(f) == {t \in Standing(f, Places) : Avenges(Unit(f, t))}

LEMMA AvengersCounted ==
  ASSUME NEW f
  PROVE  IsFiniteSet(Avengers(f)) /\ Cardinality(Avengers(f)) \in Nat
<1>1. Avengers(f) \subseteq Places
  BY DEF Avengers, Standing
<1> QED
  BY <1>1, PlacesFinite, FS_Subset, FS_CardinalityType

LEMMA ThinnerIsFull ==
  ASSUME NEW f \in Battlefields, NEW G, NEW D, Spares(f, G), NEW g \in Thinner(f, G, D)
  PROVE  /\ g \in Battlefields /\ ChargesAreFull(g) /\ Spares(g, G)
         /\ Avengers(g) \subseteq Avengers(f) \ D
<1>1. \A t \in Standing(g, Places) : /\ t \in Standing(f, Places) \ D
                                     /\ Unit(g, t).card = Unit(f, t).card
  BY DEF Thinner, Standing, Unit
<1>2. g \in Battlefields /\ ChargesAreFull(g)
  BY DEF Thinner, ChargesAreFull
<1>3. Spares(g, G)
  BY <1>1 DEF Spares
<1>4. \A t \in Avengers(g) : t \in Avengers(f) \ D
  BY <1>1 DEF Avengers, Avenges
<1> QED
  BY <1>2, <1>3, <1>4

LEMMA ThinnerChains ==
  ASSUME NEW f \in Battlefields, NEW G \in SUBSET Players, NEW D, NEW E,
         NEW g \in Thinner(f, G, D), NEW h \in Thinner(g, G, E)
  PROVE  h \in Thinner(f, G, D \cup E)
<1>1. /\ f.cap \in Nat /\ g.cap \in Nat /\ h.cap \in Nat
      /\ \A p \in G : f.health[p] \in Int /\ g.health[p] \in Int /\ h.health[p] \in Int
  BY DEF Thinner, Battlefields
<1>2. f.cap <= h.cap /\ \A p \in G : f.health[p] <= h.health[p]
  BY <1>1 DEF Thinner
<1>3. ASSUME NEW t \in Places, h.board[t] # NoUnit
      PROVE  /\ f.board[t] # NoUnit /\ t \notin D \cup E
             /\ h.board[t].card = f.board[t].card
             /\ Charged(h.board[t])
  BY <1>3 DEF Thinner
<1>4. h \in Battlefields
  BY DEF Thinner
<1> QED
  BY <1>2, <1>3, <1>4 DEF Thinner

\* A wave after which somebody is dead has cost a unit that avenged itself.
LEMMA WavesCost ==
  ASSUME NEW f \in Battlefields, NEW G \in SUBSET Players, Spares(f, G), ChargesAreFull(f),
         NEW g \in Wave(f)
  PROVE  /\ g \in Thinner(f, G, {})
         /\ Dead(g) = {} \/ Cardinality(Avengers(g)) + 1 <= Cardinality(Avengers(f))
<1>1. g \in Thinner(f, G, Dead(f))
  BY WaveThins
<1>2. g \in Thinner(f, G, {})
  BY <1>1 DEF Thinner
<1>3. CASE \A t \in Dead(f) : ~Avenges(Unit(f, t))
  BY <1>2, <1>3, QuietWave
<1>4. CASE \E t \in Dead(f) : Avenges(Unit(f, t))
  <2>1. PICK t \in Dead(f) : Avenges(Unit(f, t))
    BY <1>4
  <2>2. t \in Avengers(f) /\ Avengers(g) \subseteq Avengers(f) \ {t}
    BY <1>1, <2>1, ThinnerIsFull DEF Avengers, Dead
  <2>3. IsFiniteSet(Avengers(f)) /\ Cardinality(Avengers(f)) \in Nat
        /\ Cardinality(Avengers(g)) \in Nat
    BY AvengersCounted
  <2>4. /\ IsFiniteSet(Avengers(f) \ {t})
        /\ Cardinality(Avengers(f) \ {t}) = Cardinality(Avengers(f)) - 1
    BY <2>2, <2>3, FS_RemoveElement
  <2>5. Cardinality(Avengers(g)) <= Cardinality(Avengers(f) \ {t})
    BY <2>2, <2>4, FS_Subset
  <2> QED
    BY <1>2, <2>3, <2>4, <2>5
<1> QED
  BY <1>3, <1>4

LEMMA DeathsEnd ==
  ASSUME NEW f \in Battlefields, NEW G \in SUBSET Players, Spares(f, G), ChargesAreFull(f),
         Dead(f) # {}
  PROVE  \A g \in ProcessDeaths(f) :
           /\ g \in Thinner(f, G, {})
           /\ Cardinality(Avengers(f)) < MaxWaves => Dead(g) = {}
<1> DEFINE Cost(i) == {g \in Thinner(f, G, {}) :
                         Dead(g) = {} \/ Cardinality(Avengers(g)) + i <= Cardinality(Avengers(f))}
<1> DEFINE s == [i \in 1..MaxWaves |-> i]
           n == Len(s)
           X == [i \in 0..n |-> Cost(i)]
           wave(g, i) == Wave(g)
           step == [i \in 1..n |-> [g \in X[i - 1] |-> wave(g, s[i])]]
           Then(h, i) == UNION {wave(g, s[i]) : g \in h[i - 1]}
           Eq(h) == h = [i \in 0..n |-> IF i = 0 THEN {f} ELSE Then(h, i)]
           after == CHOOSE h : Eq(h)
<1>1. ProcessDeaths(f) = after[n]
  BY DEF ProcessDeaths, InTurn
<1>2. n \in Nat /\ f \in X[0]
      /\ \A g \in X[n] : /\ g \in Thinner(f, G, {})
                         /\ Cardinality(Avengers(f)) < MaxWaves => Dead(g) = {}
  <2>1. MaxWaves \in Nat
    BY StatsAreNats
  <2>2. n = MaxWaves /\ n \in Nat /\ \A i \in 0..n : X[i] = Cost(i)
    BY <2>1
  <2>3. f \in Cost(0)
    <3>1. f.cap \in Nat /\ \A p \in Players : f.health[p] \in Int
      BY DEF Battlefields
    <3>2. f \in Thinner(f, G, {})
      BY <3>1 DEF Thinner, ChargesAreFull
    <3> QED
      BY <3>2, AvengersCounted
  <2>4. ASSUME NEW g \in Cost(n), Cardinality(Avengers(f)) < MaxWaves PROVE Dead(g) = {}
    <3>1. Cardinality(Avengers(g)) \in Nat /\ Cardinality(Avengers(f)) \in Nat
      BY AvengersCounted
    <3> QED
      BY <2>1, <2>2, <2>4, <3>1
  <2>5. \A g \in Cost(n) : g \in Thinner(f, G, {})
    OBVIOUS
  <2> HIDE DEF Cost, n, X
  <2> QED
    BY <2>2, <2>3, <2>4, <2>5
<1>3. ASSUME NEW i \in 1..n, NEW g \in X[i - 1] PROVE wave(g, s[i]) \subseteq X[i]
  <2>1. i \in 0..n /\ i - 1 \in 0..n /\ i \in Nat
    <3>1. n \in Nat
      BY <1>2
    <3> HIDE DEF n, X, s
    <3> QED
      BY <3>1
  <2>2. X[i] = Cost(i) /\ g \in Cost(i - 1)
    BY <2>1
  <2>3. ASSUME NEW h \in Wave(g) PROVE h \in Cost(i)
    <3>1. g \in Thinner(f, G, {})
      BY <2>2
    <3>2. g \in Battlefields /\ ChargesAreFull(g) /\ Spares(g, G)
      BY <3>1, ThinnerIsFull
    <3>3. h \in Thinner(g, G, {})
          /\ (Dead(h) = {} \/ Cardinality(Avengers(h)) + 1 <= Cardinality(Avengers(g)))
      BY <2>3, <3>2, WavesCost
    <3>4. h \in Thinner(f, G, {})
      BY <3>1, <3>3, ThinnerChains
    <3>5. Dead(g) = {} => Dead(h) = {}
      BY <2>3, <3>2, QuietWave
    <3>6. Dead(g) = {} \/ Cardinality(Avengers(g)) + (i - 1) <= Cardinality(Avengers(f))
      BY <2>2
    <3>7. /\ Cardinality(Avengers(g)) \in Nat /\ Cardinality(Avengers(f)) \in Nat
          /\ Cardinality(Avengers(h)) \in Nat
      BY AvengersCounted
    <3>8. Dead(h) = {} \/ Cardinality(Avengers(h)) + i <= Cardinality(Avengers(f))
      BY <2>1, <3>3, <3>5, <3>6, <3>7
    <3> QED
      BY <3>4, <3>8
  <2> HIDE DEF Cost
  <2> QED
    BY <2>2, <2>3
<1> HIDE DEF wave, s, n, X
<1>4. \A i \in 1..n : \A g \in X[i - 1] : step[i][g] = wave(g, s[i])
  OBVIOUS
<1>5. \A i \in 1..n : \A g \in X[i - 1] : step[i][g] \subseteq X[i]
  BY <1>3, <1>4
<1> HIDE DEF step
<1>6. PICK h : Turns(h, X, n, f, step)
  BY <1>2, <1>5, TurnsExist
<1>7. \A i \in 1..n : i \in 0..n /\ i - 1 \in 0..n /\ i # 0
  BY <1>2
<1>8. ASSUME NEW i \in 1..n PROVE h[i] = Then(h, i)
  <2>1. \A g \in h[i - 1] : step[i][g] = wave(g, s[i])
    BY <1>4, <1>6, <1>7 DEF Turns
  <2>2. ASSUME NEW x PROVE x \in h[i] <=> \E g \in h[i - 1] : x \in wave(g, s[i])
    <3>1. x \in h[i] <=> \E g \in h[i - 1] : x \in step[i][g]
      BY <1>6 DEF Turns
    <3> QED
      BY <2>1, <3>1
  <2> QED
    BY <2>2
<1>10. ASSUME NEW k, NEW i \in 1..n, k[i - 1] \subseteq X[i - 1] PROVE Then(k, i) \subseteq X[i]
  BY <1>3, <1>10
<1> HIDE DEF Then
<1>12. Eq(h)
  BY <1>2, <1>6, <1>7, <1>8 DEF Turns
<1>13. Eq(after)
  BY <1>12
<1> HIDE DEF after
<1>14. after[0] \subseteq X[0]
  <2>1. 0 \in 0..n
    BY <1>2
  <2> QED
    BY <2>1, <1>2, <1>13
<1>15. ASSUME NEW i \in 1..n, after[i - 1] \subseteq X[i - 1] PROVE after[i] \subseteq X[i]
  <2>1. after[i] = Then(after, i)
    BY <1>7, <1>13
  <2> QED
    BY <2>1, <1>10, <1>15
<1>16. after[n] \subseteq X[n]
  BY <1>2, <1>14, <1>15, KeptInTurn
<1> QED
  BY <1>1, <1>2, <1>16

(***************************************************************************)
(* The tick.                                                               *)
(***************************************************************************)

LEMMA TickKeeps ==
  ASSUME NEW f \in Battlefields, NEW G \in SUBSET Players, Guards(f, G), ChargesAreFull(f),
         NEW h \in TickBoard(f)
  PROVE  /\ h \in Fields(f.cap)
         /\ \A p \in G : f.health[p] <= h.health[p]
         /\ Cardinality(Avengers(f)) < MaxWaves => Dead(h) = {}
<1>1. PICK g \in InTurn(TickUnit, f, Order) : h \in ProcessDeaths(g)
  BY DEF TickBoard
<1>2. g \in Later(f, G, {}, {})
  BY UnitsTick DEF ChargesAreFull
<1>3. \A t \in Standing(g, Places) : t \in Standing(f, Places) /\ Unit(g, t).card = Unit(f, t).card
  BY <1>2, LaterUnit DEF Standing
<1>4. \A t \in Standing(f, Places) : t \in Standing(g, Places)
  BY <1>2, LaterUnit DEF Standing
<1>5. g \in Battlefields /\ f.cap <= g.cap /\ \A p \in G : f.health[p] <= g.health[p]
  BY <1>2 DEF Later
<1>6. ChargesAreFull(g)
  BY <1>2 DEF Later, ChargesAreFull
<1>7. Spares(g, G)
  BY <1>3 DEF Spares, Guards
<1>8. Avengers(g) = Avengers(f)
  BY <1>3, <1>4 DEF Avengers, Avenges
<1>9. h \in Thinner(g, G, {}) /\ (Cardinality(Avengers(f)) < MaxWaves => Dead(h) = {})
  <2>1. CASE Dead(g) = {}
    <3>1. h = g
      BY <1>1, <2>1 DEF ProcessDeaths
    <3>2. g.cap \in Nat /\ \A p \in Players : g.health[p] \in Int
      BY <1>5 DEF Battlefields
    <3>3. g \in Thinner(g, G, {})
      BY <1>5, <1>6, <3>2 DEF Thinner, ChargesAreFull
    <3> QED
      BY <2>1, <3>1, <3>3
  <2>2. CASE Dead(g) # {}
    BY <1>1, <1>5, <1>6, <1>7, <1>8, <2>2, DeathsEnd
  <2> QED
    BY <2>1, <2>2
<1>10. /\ f.cap \in Nat /\ g.cap \in Nat /\ h.cap \in Nat
       /\ \A p \in G : f.health[p] \in Int /\ g.health[p] \in Int /\ h.health[p] \in Int
  BY <1>5, <1>9 DEF Thinner, Battlefields
<1>11. /\ f.cap <= h.cap /\ \A p \in G : f.health[p] <= h.health[p]
       /\ h \in Battlefields /\ \A t \in Places : h.board[t] # NoUnit => Charged(h.board[t])
  BY <1>5, <1>9, <1>10 DEF Thinner
<1> QED
  BY <1>9, <1>11 DEF Fields

(***************************************************************************)
(* The other side: what player 1 has at a position, player 2 has there.    *)
(***************************************************************************)

Across(t) == <<Opponent(t[1]), t[2]>>
Moved(T) == {Across(t) : t \in T}

LEMMA AcrossAndBack ==
  ASSUME NEW t \in Places
  PROVE  /\ Across(t) \in Places /\ Across(Across(t)) = t
         /\ Across(t)[1] = Opponent(t[1]) /\ Across(t)[2] = t[2]
         /\ Opponent(Opponent(t[1])) = t[1]
BY DEF Across, Places, Players, Opponent

LEMMA AcrossIsOneToOne ==
  ASSUME NEW s \in Places, NEW t \in Places
  PROVE  Across(s) = Across(t) <=> s = t
BY AcrossAndBack

LEMMA MovedPlaces ==
  ASSUME NEW T \in SUBSET Places
  PROVE  /\ Moved(T) \in SUBSET Places
         /\ \A s \in Places : Across(s) \in Moved(T) <=> s \in T
         /\ \A s \in Places : s \in Moved(T) <=> Across(s) \in T
<1>1. \A t \in T : Across(t) \in Places /\ Across(Across(t)) = t
  BY AcrossAndBack
<1>2. ASSUME NEW s \in Places, Across(s) \in Moved(T) PROVE s \in T
  <2>1. PICK t \in T : Across(s) = Across(t)
    BY <1>2 DEF Moved
  <2> QED
    BY <2>1, AcrossIsOneToOne
<1>3. \A s \in Places : Across(s) \in Places /\ Across(Across(s)) = s
  BY AcrossAndBack
<1>4. \A s \in Places : s \in T => Across(s) \in Moved(T)
  BY DEF Moved
<1>5. ASSUME NEW s \in Places PROVE s \in Moved(T) <=> Across(s) \in T
  BY <1>2, <1>3, <1>4
<1>6. Moved(T) \in SUBSET Places
  BY <1>1 DEF Moved
<1> QED
  BY <1>2, <1>4, <1>5, <1>6

LEMMA MovedTo ==
  ASSUME NEW S \in SUBSET Places, NEW T \in SUBSET Places,
         \A s \in Places : s \in S <=> Across(s) \in T
  PROVE  Moved(S) = T
<1>1. Moved(S) \subseteq Places /\ \A s \in Places : s \in Moved(S) <=> Across(s) \in S
  BY MovedPlaces
<1>2. \A s \in Places : s \in Moved(S) <=> s \in T
  BY <1>1, AcrossAndBack
<1> QED
  BY <1>1, <1>2

LEMMA MovedCount ==
  ASSUME NEW T \in SUBSET Places
  PROVE  Cardinality(Moved(T)) = Cardinality(T)
<1> DEFINE g == [t \in T |-> Across(t)]
<1>1. g \in [T -> Moved(T)] /\ \A t \in T : g[t] = Across(t)
  BY DEF Moved
<1>2. \A s, t \in T : g[s] = g[t] => s = t
  BY <1>1, AcrossIsOneToOne
<1>3. \A r \in Moved(T) : \E t \in T : g[t] = r
  BY <1>1 DEF Moved
<1> HIDE DEF g
<1>4. g \in Bijection(T, Moved(T))
  BY <1>1, <1>2, <1>3 DEF Bijection, Injection, Surjection, IsInjective
<1>5. IsFiniteSet(T)
  BY PlacesFinite, FS_Subset
<1> QED
  BY <1>4, <1>5, FS_Bijection DEF ExistsBijection

(***************************************************************************)
(* Battlefields that look the same from the two sides.                     *)
(***************************************************************************)

\* Cards whose abilities do not depend on who comes first at a position.
PlainCards ==
  {c \in Cards : \A a \in AbilitiesOf(c) :
     /\ a.effect = "reset_attack" => a.trigger = "summon"
     /\ a.trigger = "on_death" => a.effect = "damage_leader"}

\* The same unit, but the charge of v has n ticks more to go; that of u has at least m.
SameUnit(u, v, n, m) ==
  IF u = NoUnit THEN v = NoUnit
  ELSE /\ u \in Units /\ v \in Units
       /\ u.card \in PlainCards /\ v.card = u.card
       /\ v.atk = u.atk /\ v.hp = u.hp /\ v.shield = u.shield /\ v.total = u.total
       /\ u.total = 0 => v.left = u.left
       /\ u.total # 0 => v.left = u.left + n /\ m <= u.left

\* What player 1 has in f, player 2 has in g.
Twin(f, g, d, m) ==
  /\ f \in Battlefields /\ g \in Battlefields
  /\ g.cap = f.cap
  /\ \A p \in Players : g.health[Opponent(p)] = f.health[p]
  /\ \A t \in Places : SameUnit(f.board[t], g.board[Across(t)], d[t], m[t])

LEMMA TwinUnit ==
  ASSUME NEW f, NEW g, NEW d, NEW m, Twin(f, g, d, m), NEW t \in Places
  PROVE  /\ SameUnit(f.board[t], g.board[Across(t)], d[t], m[t])
         /\ SameUnit(Unit(f, t), Unit(g, Across(t)), d[t], m[t])
         /\ Unit(g, Across(t)) = NoUnit <=> Unit(f, t) = NoUnit
         /\ Unit(g, Across(t)).card = Unit(f, t).card
         /\ Unit(g, Across(t)).atk = Unit(f, t).atk
         /\ Unit(g, Across(t)).hp = Unit(f, t).hp
         /\ Unit(g, Across(t)).shield = Unit(f, t).shield
<1>1. SameUnit(f.board[t], g.board[Across(t)], d[t], m[t])
  BY DEF Twin
<1> QED
  BY <1>1, NoUnitIsNone DEF SameUnit, Unit

LEMMA TwinStanding ==
  ASSUME NEW f, NEW g, NEW d, NEW m, Twin(f, g, d, m), NEW T \in SUBSET Places
  PROVE  /\ Standing(f, T) \in SUBSET Places /\ Standing(g, Moved(T)) \in SUBSET Places
         /\ Moved(Standing(f, T)) = Standing(g, Moved(T))
         /\ \A t \in Places : Across(t) \in Standing(g, Moved(T)) <=> t \in Standing(f, T)
<1>1. Moved(T) \in SUBSET Places /\ \A s \in Places : Across(s) \in Moved(T) <=> s \in T
  BY MovedPlaces
<1>2. Standing(f, T) \in SUBSET Places /\ Standing(g, Moved(T)) \in SUBSET Places
  BY <1>1 DEF Standing
<1>3. \A t \in Places : Across(t) \in Standing(g, Moved(T)) <=> t \in Standing(f, T)
  BY <1>1, TwinUnit DEF Standing
<1>4. Moved(Standing(f, T)) = Standing(g, Moved(T))
  BY <1>2, <1>3, MovedTo
<1> QED
  BY <1>2, <1>3, <1>4

(***************************************************************************)
(* Targets, seen from the other side.                                      *)
(***************************************************************************)

LEMMA SidesMove ==
  ASSUME NEW p \in Players
  PROVE  /\ Opponent(p) \in Players /\ Opponent(Opponent(p)) = p
         /\ Moved(Side(p)) = Side(Opponent(p))
         /\ \A col \in Cols : Moved(Column(p, col)) = Column(Opponent(p), col)
         /\ Moved(Places) = Places
<1>1. Opponent(p) \in Players /\ Opponent(Opponent(p)) = p
  BY DEF Players, Opponent
<1>2. \A q \in Players : /\ Side(q) \in SUBSET Places
                         /\ \A col \in Cols : Column(q, col) \in SUBSET Places
  BY SidesArePlaces
<1>3. \A s \in Places, q \in Players : /\ s \in Side(q) <=> s[1] = q
                                       /\ \A col \in Cols : s \in Column(q, col) <=> s[1] = q /\ s[2][2] = col
  BY DEF Side, Column, Places, Positions
<1>4. \A s \in Places : /\ Across(s) \in Places /\ Across(s)[2] = s[2]
                        /\ Across(s)[1] = Opponent(p) <=> s[1] = p
  BY AcrossAndBack, <1>1
<1>5. Moved(Side(p)) = Side(Opponent(p))
  <2>1. \A s \in Places : s \in Side(p) <=> Across(s) \in Side(Opponent(p))
    BY <1>1, <1>3, <1>4
  <2> QED
    BY <1>1, <1>2, <2>1, MovedTo
<1>6. ASSUME NEW col \in Cols PROVE Moved(Column(p, col)) = Column(Opponent(p), col)
  <2>1. \A s \in Places : s \in Column(p, col) <=> Across(s) \in Column(Opponent(p), col)
    BY <1>1, <1>3, <1>4
  <2> QED
    BY <1>1, <1>2, <2>1, MovedTo
<1>7. Moved(Places) = Places
  BY <1>4, MovedTo
<1> QED
  BY <1>1, <1>5, <1>6, <1>7

LEMMA MovedSmall ==
  /\ Moved({}) = {}
  /\ \A t : Moved({t}) = {Across(t)}
BY DEF Moved

LEMMA InFrontAcross ==
  ASSUME NEW f, NEW g, NEW d, NEW m, Twin(f, g, d, m), NEW t \in Places
  PROVE  Moved(EnemyInFront(f, t)) = EnemyInFront(g, Across(t))
<1> DEFINE C == Column(Opponent(t[1]), t[2][2])
           S == Standing(f, C)
           D == Column(Opponent(Across(t)[1]), Across(t)[2][2])
           R == Standing(g, D)
<1>1. C \in SUBSET Places /\ Moved(C) = D
  BY PlaceParts, SidesArePlaces, SidesMove, AcrossAndBack
<1> HIDE DEF C, D
<1>2. /\ S \in SUBSET Places /\ R \in SUBSET Places
      /\ \A s \in Places : Across(s) \in R <=> s \in S
  BY <1>1, TwinStanding
<1>3. EnemyInFront(f, t) = {s \in S : \A r \in S : s[2][1] <= r[2][1]}
  BY DEF EnemyInFront, C
<1>4. EnemyInFront(g, Across(t)) = {s \in R : \A r \in R : s[2][1] <= r[2][1]}
  BY DEF EnemyInFront, D
<1> HIDE DEF S, R
<1>5. \A s \in Places : Across(s) \in Places /\ Across(Across(s)) = s /\ Across(s)[2] = s[2]
  BY AcrossAndBack
<1>6. ASSUME NEW s \in Places PROVE s \in EnemyInFront(f, t) <=> Across(s) \in EnemyInFront(g, Across(t))
  <2>1. (\A r \in S : s[2][1] <= r[2][1]) <=> \A r \in R : s[2][1] <= r[2][1]
    BY <1>2, <1>5
  <2> QED
    BY <1>2, <1>3, <1>4, <1>5, <2>1
<1>7. EnemyInFront(f, t) \in SUBSET Places /\ EnemyInFront(g, Across(t)) \in SUBSET Places
  BY <1>2, <1>3, <1>4
<1> QED
  BY <1>6, <1>7, MovedTo

LEMMA OneOfAcross ==
  ASSUME NEW T \in SUBSET Places, NEW x \in OneOf(T)
  PROVE  Moved(x) \in OneOf(Moved(T))
<1>1. CASE T = {}
  BY <1>1, MovedSmall DEF OneOf
<1>2. CASE T # {}
  <2>1. PICK t \in T : x = {t}
    BY <1>2 DEF OneOf
  <2>2. Across(t) \in Moved(T) /\ Moved(x) = {Across(t)}
    BY <2>1, MovedSmall DEF Moved
  <2> QED
    BY <2>2 DEF OneOf
<1> QED
  BY <1>1, <1>2

LEMMA TwinTargets ==
  ASSUME NEW f, NEW g, NEW d, NEW m, Twin(f, g, d, m), NEW t \in Places, NEW mode,
         NEW T \in Targets(f, mode, t)
  PROVE  Moved(T) \in Targets(g, mode, Across(t))
<1> DEFINE own(r) == Side(r[1])
           enemies(r) == Side(Opponent(r[1]))
           beside(r) == {s \in own(r) : s[2][1] = r[2][1] /\ s[2][2] \in {r[2][2] - 1, r[2][2] + 1}}
           along(r) == {s \in own(r) : s[2][1] # r[2][1] /\ s[2][2] = r[2][2]}
           column(r) == Column(Opponent(r[1]), r[2][2])
           back(r) == {s \in enemies(r) : s[2][1] = BackRow}
           front(r) == {s \in enemies(r) : s[2][1] = FrontRow}
           alike(h, r) == {s \in Standing(h, Places) \ {r} :
                              Definition[Unit(h, s).card].colour = Definition[Unit(h, r).card].colour}
<1>1. \A s \in Places : Across(s) \in Places /\ Across(s)[2] = s[2]
  BY AcrossAndBack
<1>2. /\ own(t) \in SUBSET Places /\ Moved(own(t)) = own(Across(t)) /\ own(Across(t)) \in SUBSET Places
      /\ enemies(t) \in SUBSET Places /\ Moved(enemies(t)) = enemies(Across(t))
      /\ enemies(Across(t)) \in SUBSET Places
      /\ column(t) \in SUBSET Places /\ Moved(column(t)) = column(Across(t))
      /\ Moved(Places) = Places
  BY PlaceParts, SidesArePlaces, SidesMove, AcrossAndBack
<1>3. \A s \in Places : /\ s \in own(t) <=> Across(s) \in own(Across(t))
                        /\ s \in enemies(t) <=> Across(s) \in enemies(Across(t))
  BY <1>2, MovedPlaces
<1> HIDE DEF own, enemies, column
<1>4. beside(t) \in SUBSET Places /\ Moved(beside(t)) = beside(Across(t))
  <2>1. beside(t) \in SUBSET Places /\ beside(Across(t)) \in SUBSET Places
    BY <1>2
  <2>2. \A s \in Places : s \in beside(t) <=> Across(s) \in beside(Across(t))
    BY <1>1, <1>3
  <2> HIDE DEF beside
  <2> QED
    BY <2>1, <2>2, MovedTo
<1>5. along(t) \in SUBSET Places /\ Moved(along(t)) = along(Across(t))
  <2>1. along(t) \in SUBSET Places /\ along(Across(t)) \in SUBSET Places
    BY <1>2
  <2>2. \A s \in Places : s \in along(t) <=> Across(s) \in along(Across(t))
    BY <1>1, <1>3
  <2> HIDE DEF along
  <2> QED
    BY <2>1, <2>2, MovedTo
<1>6. back(t) \in SUBSET Places /\ Moved(back(t)) = back(Across(t))
  <2>1. back(t) \in SUBSET Places /\ back(Across(t)) \in SUBSET Places
    BY <1>2
  <2>2. \A s \in Places : s \in back(t) <=> Across(s) \in back(Across(t))
    BY <1>1, <1>3
  <2> HIDE DEF back
  <2> QED
    BY <2>1, <2>2, MovedTo
<1>7. front(t) \in SUBSET Places /\ Moved(front(t)) = front(Across(t))
  <2>1. front(t) \in SUBSET Places /\ front(Across(t)) \in SUBSET Places
    BY <1>2
  <2>2. \A s \in Places : s \in front(t) <=> Across(s) \in front(Across(t))
    BY <1>1, <1>3
  <2> HIDE DEF front
  <2> QED
    BY <2>1, <2>2, MovedTo
<1>8. Moved(alike(f, t)) = alike(g, Across(t))
  <2>1. alike(f, t) \in SUBSET Places /\ alike(g, Across(t)) \in SUBSET Places
    BY DEF Standing
  <2>2. ASSUME NEW s \in Places PROVE s \in alike(f, t) <=> Across(s) \in alike(g, Across(t))
    <3>1. s \in Standing(f, Places) <=> Across(s) \in Standing(g, Places)
      BY <1>2, TwinStanding
    <3>2. s = t <=> Across(s) = Across(t)
      BY AcrossIsOneToOne
    <3>3. Unit(g, Across(s)).card = Unit(f, s).card /\ Unit(g, Across(t)).card = Unit(f, t).card
      BY TwinUnit
    <3> QED
      BY <3>1, <3>2, <3>3
  <2> HIDE DEF alike
  <2> QED
    BY <2>1, <2>2, MovedTo
<1> HIDE DEF beside, along, back, front, alike
<1>9. \A S \in SUBSET Places : Moved(Standing(f, S)) = Standing(g, Moved(S))
  BY TwinStanding
<1>10. /\ Standing(f, enemies(t)) \in SUBSET Places /\ Standing(f, Places) \in SUBSET Places
       /\ Moved(Standing(f, enemies(t))) = Standing(g, enemies(Across(t)))
       /\ Moved(Standing(f, Places)) = Standing(g, Places)
  BY <1>2, <1>9 DEF Standing
<1>11. CASE mode \in {"self", "enemy_in_front", "same_colour"}
  <2>1. Moved({t}) = {Across(t)} /\ Moved(EnemyInFront(f, t)) = EnemyInFront(g, Across(t))
    BY MovedSmall, InFrontAcross
  <2> QED
    BY <1>8, <1>11, <2>1 DEF Targets, alike
<1>12. CASE mode \in {"adjacent", "vertical", "all_allies", "all_enemies", "all_units", "opponent_column",
                      "opponent_back_row", "enemy_front_row"}
  <2> DEFINE sets(r) == CASE mode = "adjacent" -> beside(r)
                          [] mode = "vertical" -> along(r)
                          [] mode = "all_allies" -> own(r)
                          [] mode = "all_enemies" -> enemies(r)
                          [] mode = "all_units" -> Places
                          [] mode = "opponent_column" -> column(r)
                          [] mode = "opponent_back_row" -> back(r)
                          [] mode = "enemy_front_row" -> front(r)
  <2>1. Targets(f, mode, t) = {Standing(f, sets(t))}
    BY <1>12 DEF Targets, beside, along, own, enemies, column, back, front
  <2>2. Targets(g, mode, Across(t)) = {Standing(g, sets(Across(t)))}
    BY <1>12 DEF Targets, beside, along, own, enemies, column, back, front
  <2>3. sets(t) \in SUBSET Places /\ Moved(sets(t)) = sets(Across(t))
    BY <1>2, <1>4, <1>5, <1>6, <1>7, <1>12
  <2> HIDE DEF sets
  <2> QED
    BY <1>9, <2>1, <2>2, <2>3
<1>13. CASE mode = "random_enemy"
  <2>1. Targets(f, mode, t) = OneOf(Standing(f, enemies(t)))
    BY <1>13 DEF Targets, enemies
  <2>2. Targets(g, mode, Across(t)) = OneOf(Standing(g, enemies(Across(t))))
    BY <1>13 DEF Targets, enemies
  <2> QED
    BY <1>10, <2>1, <2>2, OneOfAcross
<1>14. CASE mode = "random_all"
  <2>1. Targets(f, mode, t) = OneOf(Standing(f, Places))
    BY <1>14 DEF Targets
  <2>2. Targets(g, mode, Across(t)) = OneOf(Standing(g, Places))
    BY <1>14 DEF Targets
  <2> QED
    BY <1>10, <2>1, <2>2, OneOfAcross
<1>15. CASE mode \notin {"self", "enemy_in_front", "same_colour", "adjacent", "vertical", "all_allies",
                         "all_enemies", "all_units", "opponent_column", "opponent_back_row",
                         "enemy_front_row", "random_enemy", "random_all"}
  BY <1>15, MovedSmall DEF Targets
<1> QED
  BY <1>11, <1>12, <1>13, <1>14, <1>15

(***************************************************************************)
(* Effects, seen from the other side.                                      *)
(***************************************************************************)

LEMMA TwinBoards ==
  ASSUME NEW f, NEW g, NEW d, NEW m, Twin(f, g, d, m), NEW e, NEW n, NEW b, NEW c,
         b = [t \in Places |-> b[t]], c = [t \in Places |-> c[t]],
         \A t \in Places : SameUnit(b[t], c[Across(t)], e[t], n[t])
  PROVE  Twin([f EXCEPT !.board = b], [g EXCEPT !.board = c], e, n)
<1> DEFINE x == [f EXCEPT !.board = b]
           y == [g EXCEPT !.board = c]
<1>1. \A t \in Places : b[t] \in Units \cup {NoUnit} /\ c[Across(t)] \in Units \cup {NoUnit}
  BY DEF SameUnit
<1>2. \A t \in Places : b[t] \in Units \cup {NoUnit} /\ c[t] \in Units \cup {NoUnit}
  BY <1>1, AcrossAndBack
<1>3. b \in Boards /\ c \in Boards
  BY <1>2 DEF Boards
<1>4. f \in Battlefields /\ g \in Battlefields /\ g.cap = f.cap
      /\ \A p \in Players : g.health[Opponent(p)] = f.health[p]
  BY DEF Twin
<1>5. x \in Battlefields /\ x.board = b /\ x.health = f.health /\ x.cap = f.cap
  BY <1>3, <1>4, BoardChanged
<1>6. y \in Battlefields /\ y.board = c /\ y.health = g.health /\ y.cap = g.cap
  BY <1>3, <1>4, BoardChanged
<1> HIDE DEF x, y
<1>7. Twin(x, y, e, n)
  BY <1>4, <1>5, <1>6 DEF Twin
<1> QED
  BY <1>7 DEF x, y

LEMMA TwinChanged ==
  ASSUME NEW f, NEW g, NEW d, NEW m, Twin(f, g, d, m), NEW T \in SUBSET Places, NEW b, NEW c,
         b = [t \in Places |-> b[t]], c = [t \in Places |-> c[t]],
         \A t \in Places : t \notin Standing(f, T) => b[t] = f.board[t],
         \A t \in Places : t \notin Standing(g, Moved(T)) => c[t] = g.board[t],
         \A t \in Places : /\ t \in Standing(f, T)
                           /\ Across(t) \in Standing(g, Moved(T))
                           /\ SameUnit(f.board[t], g.board[Across(t)], d[t], m[t])
                           /\ f.board[t] \in Units
                           => SameUnit(b[t], c[Across(t)], d[t], m[t])
  PROVE  Twin([f EXCEPT !.board = b], [g EXCEPT !.board = c], d, m)
<1>1. ASSUME NEW t \in Places PROVE SameUnit(b[t], c[Across(t)], d[t], m[t])
  <2>1. /\ SameUnit(f.board[t], g.board[Across(t)], d[t], m[t])
        /\ Across(t) \in Places
        /\ Across(t) \in Standing(g, Moved(T)) <=> t \in Standing(f, T)
    BY TwinUnit, TwinStanding, AcrossAndBack
  <2>2. t \in Standing(f, T) => f.board[t] \in Units
    BY <2>1 DEF Standing, Unit, SameUnit
  <2> QED
    BY <2>1, <2>2
<1> QED
  BY <1>1, TwinBoards

LEMMA TwinStats ==
  ASSUME NEW f, NEW g, NEW d, NEW m, Twin(f, g, d, m), NEW T \in SUBSET Places, NEW atk \in Int, NEW hp \in Int
  PROVE  Twin(ChangeStats(f, T, atk, hp), ChangeStats(g, Moved(T), atk, hp), d, m)
<1> DEFINE New(u) == [u EXCEPT !.atk = @ + atk, !.hp = @ + hp]
           b == [s \in Places |-> IF s \in Standing(f, T) THEN New(f.board[s]) ELSE f.board[s]]
           c == [s \in Places |-> IF s \in Standing(g, Moved(T)) THEN New(g.board[s]) ELSE g.board[s]]
<1>1. ChangeStats(f, T, atk, hp) = [f EXCEPT !.board = b]
  BY DEF ChangeStats, Change
<1>2. ChangeStats(g, Moved(T), atk, hp) = [g EXCEPT !.board = c]
  BY DEF ChangeStats, Change
<1>3. ASSUME NEW u \in Units, NEW v, NEW n, NEW k, SameUnit(u, v, n, k)
      PROVE  SameUnit(New(u), New(v), n, k)
  <2>1. u # NoUnit
    BY NoUnitIsNone
  <2>2. v \in Units /\ u.card \in PlainCards /\ v.card = u.card
        /\ v.atk = u.atk /\ v.hp = u.hp /\ v.shield = u.shield /\ v.total = u.total
        /\ (u.total = 0 => v.left = u.left)
        /\ (u.total # 0 => v.left = u.left + n /\ k <= u.left)
    BY <1>3, <2>1 DEF SameUnit
  <2>3. ASSUME NEW r \in Units
        PROVE  /\ New(r) \in Units /\ New(r).card = r.card
               /\ New(r).left = r.left /\ New(r).total = r.total /\ New(r).shield = r.shield
               /\ New(r).atk = r.atk + atk /\ New(r).hp = r.hp + hp
    <3> DEFINE w == [r EXCEPT !.atk = @ + atk]
               z == [w EXCEPT !.hp = r.hp + hp]
    <3>1. /\ w \in Units /\ w.card = r.card /\ w.left = r.left /\ w.total = r.total
          /\ w.shield = r.shield /\ w.atk = r.atk + atk /\ w.hp = r.hp /\ r.hp \in Int
      BY DEF Units
    <3>2. New(r) = z
      OBVIOUS
    <3> HIDE DEF w
    <3>3. /\ z \in Units /\ z.card = w.card /\ z.left = w.left /\ z.total = w.total
          /\ z.shield = w.shield /\ z.atk = w.atk /\ z.hp = r.hp + hp
      BY <3>1 DEF Units
    <3> HIDE DEF z, New
    <3> QED
      BY <3>1, <3>2, <3>3
  <2>4. New(u) \in Units /\ New(u).card = u.card
        /\ New(u).left = u.left /\ New(u).total = u.total /\ New(u).shield = u.shield
        /\ New(u).atk = u.atk + atk /\ New(u).hp = u.hp + hp
    BY <2>3
  <2>5. New(v) \in Units /\ New(v).card = v.card
        /\ New(v).left = v.left /\ New(v).total = v.total /\ New(v).shield = v.shield
        /\ New(v).atk = v.atk + atk /\ New(v).hp = v.hp + hp
    BY <2>2, <2>3
  <2> HIDE DEF New
  <2>6. New(u) # NoUnit
    BY <2>4, NoUnitIsNone
  <2> QED
    BY <2>2, <2>4, <2>5, <2>6 DEF SameUnit
<1>4. b = [s \in Places |-> b[s]] /\ c = [s \in Places |-> c[s]]
  OBVIOUS
<1>5. /\ \A s \in Places : b[s] = IF s \in Standing(f, T) THEN New(f.board[s]) ELSE f.board[s]
      /\ \A s \in Places : c[s] = IF s \in Standing(g, Moved(T)) THEN New(g.board[s]) ELSE g.board[s]
  OBVIOUS
<1>6. T \in SUBSET Places /\ \A s \in Places : Across(s) \in Places
  BY AcrossAndBack
<1> HIDE DEF b, c, New
<1>7. \A s \in Places : /\ s \in Standing(f, T)
                         /\ Across(s) \in Standing(g, Moved(T))
                         /\ SameUnit(f.board[s], g.board[Across(s)], d[s], m[s])
                         /\ f.board[s] \in Units
                         => SameUnit(b[s], c[Across(s)], d[s], m[s])
  <2> SUFFICES ASSUME NEW s \in Places, s \in Standing(f, T), Across(s) \in Standing(g, Moved(T)),
                      SameUnit(f.board[s], g.board[Across(s)], d[s], m[s]), f.board[s] \in Units
               PROVE  SameUnit(b[s], c[Across(s)], d[s], m[s])
    OBVIOUS
  <2>1. b[s] = New(f.board[s]) /\ c[Across(s)] = New(g.board[Across(s)])
    BY <1>5, <1>6
  <2>2. SameUnit(New(f.board[s]), New(g.board[Across(s)]), d[s], m[s])
    BY <1>3
  <2> QED
    BY <2>1, <2>2
<1>8. Twin([f EXCEPT !.board = b], [g EXCEPT !.board = c], d, m)
  BY <1>4, <1>5, <1>6, <1>7, TwinChanged
<1> QED
  BY <1>1, <1>2, <1>8

LEMMA TwinHitPoints ==
  ASSUME NEW f, NEW g, NEW d, NEW m, Twin(f, g, d, m), NEW T \in SUBSET Places, NEW hp \in Int
  PROVE  Twin(SetHitPoints(f, T, hp), SetHitPoints(g, Moved(T), hp), d, m)
<1> DEFINE New(u) == [u EXCEPT !.hp = hp]
           b == [s \in Places |-> IF s \in Standing(f, T) THEN New(f.board[s]) ELSE f.board[s]]
           c == [s \in Places |-> IF s \in Standing(g, Moved(T)) THEN New(g.board[s]) ELSE g.board[s]]
<1>1. SetHitPoints(f, T, hp) = [f EXCEPT !.board = b]
  BY DEF SetHitPoints, Change
<1>2. SetHitPoints(g, Moved(T), hp) = [g EXCEPT !.board = c]
  BY DEF SetHitPoints, Change
<1>3. ASSUME NEW u \in Units, NEW v, NEW n, NEW k, SameUnit(u, v, n, k)
      PROVE  SameUnit(New(u), New(v), n, k)
  <2>1. u # NoUnit
    BY NoUnitIsNone
  <2>2. v \in Units /\ u.card \in PlainCards /\ v.card = u.card
        /\ v.atk = u.atk /\ v.hp = u.hp /\ v.shield = u.shield /\ v.total = u.total
        /\ (u.total = 0 => v.left = u.left)
        /\ (u.total # 0 => v.left = u.left + n /\ k <= u.left)
    BY <1>3, <2>1 DEF SameUnit
  <2>3. ASSUME NEW r \in Units
        PROVE  /\ New(r) \in Units /\ New(r).card = r.card /\ New(r).atk = r.atk
               /\ New(r).left = r.left /\ New(r).total = r.total
               /\ New(r).shield = r.shield /\ New(r).hp = hp
    BY DEF Units
  <2>4. New(u) \in Units /\ New(u).card = u.card /\ New(u).atk = u.atk
        /\ New(u).left = u.left /\ New(u).total = u.total /\ New(u).shield = u.shield /\ New(u).hp = hp
    BY <2>3
  <2>5. New(v) \in Units /\ New(v).card = v.card /\ New(v).atk = v.atk
        /\ New(v).left = v.left /\ New(v).total = v.total /\ New(v).shield = v.shield /\ New(v).hp = hp
    BY <2>2, <2>3
  <2> HIDE DEF New
  <2>6. New(u) # NoUnit
    BY <2>4, NoUnitIsNone
  <2> QED
    BY <2>2, <2>4, <2>5, <2>6 DEF SameUnit
<1>4. b = [s \in Places |-> b[s]] /\ c = [s \in Places |-> c[s]]
  OBVIOUS
<1>5. /\ \A s \in Places : b[s] = IF s \in Standing(f, T) THEN New(f.board[s]) ELSE f.board[s]
      /\ \A s \in Places : c[s] = IF s \in Standing(g, Moved(T)) THEN New(g.board[s]) ELSE g.board[s]
  OBVIOUS
<1>6. T \in SUBSET Places /\ \A s \in Places : Across(s) \in Places
  BY AcrossAndBack
<1> HIDE DEF b, c, New
<1>7. \A s \in Places : /\ s \in Standing(f, T)
                         /\ Across(s) \in Standing(g, Moved(T))
                         /\ SameUnit(f.board[s], g.board[Across(s)], d[s], m[s])
                         /\ f.board[s] \in Units
                         => SameUnit(b[s], c[Across(s)], d[s], m[s])
  <2> SUFFICES ASSUME NEW s \in Places, s \in Standing(f, T), Across(s) \in Standing(g, Moved(T)),
                      SameUnit(f.board[s], g.board[Across(s)], d[s], m[s]), f.board[s] \in Units
               PROVE  SameUnit(b[s], c[Across(s)], d[s], m[s])
    OBVIOUS
  <2>1. b[s] = New(f.board[s]) /\ c[Across(s)] = New(g.board[Across(s)])
    BY <1>5, <1>6
  <2>2. SameUnit(New(f.board[s]), New(g.board[Across(s)]), d[s], m[s])
    BY <1>3
  <2> QED
    BY <2>1, <2>2
<1>8. Twin([f EXCEPT !.board = b], [g EXCEPT !.board = c], d, m)
  BY <1>4, <1>5, <1>6, <1>7, TwinChanged
<1> QED
  BY <1>1, <1>2, <1>8

LEMMA TwinShielded ==
  ASSUME NEW f, NEW g, NEW d, NEW m, Twin(f, g, d, m), NEW t \in Places, NEW a \in Abilities
  PROVE  \A x \in Shield(f, a, t) : \E y \in Shield(g, a, Across(t)) : Twin(x, y, d, m)
<1> DEFINE New(u) == [u EXCEPT !.shield = a.reduction]
           b == [s \in Places |-> IF s \in Standing(f, {t}) THEN New(f.board[s]) ELSE f.board[s]]
           c == [s \in Places |-> IF s \in Standing(g, {Across(t)}) THEN New(g.board[s]) ELSE g.board[s]]
<1>1. Shield(f, a, t) = {[f EXCEPT !.board = b]}
  BY DEF Shield, Change
<1>2. Shield(g, a, Across(t)) = {[g EXCEPT !.board = c]}
  BY DEF Shield, Change
<1>3. ASSUME NEW u \in Units, NEW v, NEW n, NEW k, SameUnit(u, v, n, k)
      PROVE  SameUnit(New(u), New(v), n, k)
  <2>1. u # NoUnit
    BY NoUnitIsNone
  <2>2. v \in Units /\ u.card \in PlainCards /\ v.card = u.card
        /\ v.atk = u.atk /\ v.hp = u.hp /\ v.shield = u.shield /\ v.total = u.total
        /\ (u.total = 0 => v.left = u.left)
        /\ (u.total # 0 => v.left = u.left + n /\ k <= u.left)
    BY <1>3, <2>1 DEF SameUnit
  <2>3. ASSUME NEW r \in Units
        PROVE  /\ New(r) \in Units /\ New(r).card = r.card /\ New(r).atk = r.atk
               /\ New(r).left = r.left /\ New(r).total = r.total
               /\ New(r).hp = r.hp /\ New(r).shield = a.reduction
    BY AbilityTypes DEF Units
  <2>4. New(u) \in Units /\ New(u).card = u.card /\ New(u).atk = u.atk
        /\ New(u).left = u.left /\ New(u).total = u.total /\ New(u).hp = u.hp /\ New(u).shield = a.reduction
    BY <2>3
  <2>5. New(v) \in Units /\ New(v).card = v.card /\ New(v).atk = v.atk
        /\ New(v).left = v.left /\ New(v).total = v.total /\ New(v).hp = v.hp /\ New(v).shield = a.reduction
    BY <2>2, <2>3
  <2> HIDE DEF New
  <2>6. New(u) # NoUnit
    BY <2>4, NoUnitIsNone
  <2> QED
    BY <2>2, <2>4, <2>5, <2>6 DEF SameUnit
<1>4. b = [s \in Places |-> b[s]] /\ c = [s \in Places |-> c[s]]
  OBVIOUS
<1>5. /\ \A s \in Places : b[s] = IF s \in Standing(f, {t}) THEN New(f.board[s]) ELSE f.board[s]
      /\ \A s \in Places : c[s] = IF s \in Standing(g, {Across(t)}) THEN New(g.board[s]) ELSE g.board[s]
  OBVIOUS
<1>6. {t} \in SUBSET Places /\ Moved({t}) = {Across(t)} /\ \A s \in Places : Across(s) \in Places
  BY AcrossAndBack, MovedSmall
<1> HIDE DEF b, c, New
<1>7. \A s \in Places : /\ s \in Standing(f, {t})
                         /\ Across(s) \in Standing(g, {Across(t)})
                         /\ SameUnit(f.board[s], g.board[Across(s)], d[s], m[s])
                         /\ f.board[s] \in Units
                         => SameUnit(b[s], c[Across(s)], d[s], m[s])
  <2> SUFFICES ASSUME NEW s \in Places, s \in Standing(f, {t}), Across(s) \in Standing(g, {Across(t)}),
                      SameUnit(f.board[s], g.board[Across(s)], d[s], m[s]), f.board[s] \in Units
               PROVE  SameUnit(b[s], c[Across(s)], d[s], m[s])
    OBVIOUS
  <2>1. b[s] = New(f.board[s]) /\ c[Across(s)] = New(g.board[Across(s)])
    BY <1>5, <1>6
  <2>2. SameUnit(New(f.board[s]), New(g.board[Across(s)]), d[s], m[s])
    BY <1>3
  <2> QED
    BY <2>1, <2>2
<1>8. Twin([f EXCEPT !.board = b], [g EXCEPT !.board = c], d, m)
  BY <1>4, <1>5, <1>6, <1>7, TwinChanged
<1> QED
  BY <1>1, <1>2, <1>8

LEMMA TwinReflected ==
  ASSUME NEW f, NEW g, NEW d, NEW m, Twin(f, g, d, m), NEW by \in Places
  PROVE  \A x \in Reflect(f, by) : \E y \in Reflect(g, Across(by)) : Twin(x, y, d, m)
<1> DEFINE New(u) == [u EXCEPT !.hp = @ - u.atk]
           b == [s \in Places |-> IF s \in Standing(f, {by}) THEN New(f.board[s]) ELSE f.board[s]]
           c == [s \in Places |-> IF s \in Standing(g, {Across(by)}) THEN New(g.board[s]) ELSE g.board[s]]
<1>1. Reflect(f, by) = {[f EXCEPT !.board = b]}
  BY DEF Reflect, Change
<1>2. Reflect(g, Across(by)) = {[g EXCEPT !.board = c]}
  BY DEF Reflect, Change
<1>3. ASSUME NEW u \in Units, NEW v, NEW n, NEW k, SameUnit(u, v, n, k)
      PROVE  SameUnit(New(u), New(v), n, k)
  <2>1. u # NoUnit
    BY NoUnitIsNone
  <2>2. v \in Units /\ u.card \in PlainCards /\ v.card = u.card
        /\ v.atk = u.atk /\ v.hp = u.hp /\ v.shield = u.shield /\ v.total = u.total
        /\ (u.total = 0 => v.left = u.left)
        /\ (u.total # 0 => v.left = u.left + n /\ k <= u.left)
    BY <1>3, <2>1 DEF SameUnit
  <2>3. ASSUME NEW r \in Units
        PROVE  /\ New(r) \in Units /\ New(r).card = r.card /\ New(r).atk = r.atk
               /\ New(r).left = r.left /\ New(r).total = r.total
               /\ New(r).hp = r.hp - r.atk /\ New(r).shield = r.shield
    BY DEF Units
  <2>4. New(u) \in Units /\ New(u).card = u.card /\ New(u).atk = u.atk
        /\ New(u).left = u.left /\ New(u).total = u.total /\ New(u).hp = u.hp - u.atk /\ New(u).shield = u.shield
    BY <2>3
  <2>5. New(v) \in Units /\ New(v).card = v.card /\ New(v).atk = v.atk
        /\ New(v).left = v.left /\ New(v).total = v.total /\ New(v).hp = v.hp - v.atk /\ New(v).shield = v.shield
    BY <2>2, <2>3
  <2> HIDE DEF New
  <2>6. New(u) # NoUnit
    BY <2>4, NoUnitIsNone
  <2> QED
    BY <2>2, <2>4, <2>5, <2>6 DEF SameUnit
<1>4. b = [s \in Places |-> b[s]] /\ c = [s \in Places |-> c[s]]
  OBVIOUS
<1>5. /\ \A s \in Places : b[s] = IF s \in Standing(f, {by}) THEN New(f.board[s]) ELSE f.board[s]
      /\ \A s \in Places : c[s] = IF s \in Standing(g, {Across(by)}) THEN New(g.board[s]) ELSE g.board[s]
  OBVIOUS
<1>6. {by} \in SUBSET Places /\ Moved({by}) = {Across(by)} /\ \A s \in Places : Across(s) \in Places
  BY AcrossAndBack, MovedSmall
<1> HIDE DEF b, c, New
<1>7. \A s \in Places : /\ s \in Standing(f, {by})
                         /\ Across(s) \in Standing(g, {Across(by)})
                         /\ SameUnit(f.board[s], g.board[Across(s)], d[s], m[s])
                         /\ f.board[s] \in Units
                         => SameUnit(b[s], c[Across(s)], d[s], m[s])
  <2> SUFFICES ASSUME NEW s \in Places, s \in Standing(f, {by}), Across(s) \in Standing(g, {Across(by)}),
                      SameUnit(f.board[s], g.board[Across(s)], d[s], m[s]), f.board[s] \in Units
               PROVE  SameUnit(b[s], c[Across(s)], d[s], m[s])
    OBVIOUS
  <2>1. b[s] = New(f.board[s]) /\ c[Across(s)] = New(g.board[Across(s)])
    BY <1>5, <1>6
  <2>2. SameUnit(New(f.board[s]), New(g.board[Across(s)]), d[s], m[s])
    BY <1>3
  <2> QED
    BY <2>1, <2>2
<1>8. Twin([f EXCEPT !.board = b], [g EXCEPT !.board = c], d, m)
  BY <1>4, <1>5, <1>6, <1>7, TwinChanged
<1> QED
  BY <1>1, <1>2, <1>8

LEMMA TwinRecharged ==
  ASSUME NEW f, NEW g, NEW d, NEW m, Twin(f, g, d, m), NEW t \in Places, d[t] = 0, m[t] = 0
  PROVE  Twin(Recharge(f, {t}), Recharge(g, {Across(t)}), d, m)
<1> DEFINE New(u) == [u EXCEPT !.left = u.total]
           b == [s \in Places |-> IF s \in Standing(f, {t}) THEN New(f.board[s]) ELSE f.board[s]]
           c == [s \in Places |-> IF s \in Standing(g, {Across(t)}) THEN New(g.board[s]) ELSE g.board[s]]
<1>1. Recharge(f, {t}) = [f EXCEPT !.board = b]
  BY DEF Recharge, Change
<1>2. Recharge(g, {Across(t)}) = [g EXCEPT !.board = c]
  BY DEF Recharge, Change
<1>3. ASSUME NEW u \in Units, NEW v, SameUnit(u, v, 0, 0)
      PROVE  SameUnit(New(u), New(v), 0, 0)
  <2>1. u # NoUnit
    BY NoUnitIsNone
  <2>2. v \in Units /\ u.card \in PlainCards /\ v.card = u.card
        /\ v.atk = u.atk /\ v.hp = u.hp /\ v.shield = u.shield /\ v.total = u.total
    BY <1>3, <2>1 DEF SameUnit
  <2>3. ASSUME NEW r \in Units
        PROVE  /\ New(r) \in Units /\ New(r).card = r.card /\ New(r).atk = r.atk /\ New(r).hp = r.hp
               /\ New(r).shield = r.shield /\ New(r).total = r.total
               /\ New(r).left = r.total /\ r.total \in Nat
    BY DEF Units
  <2>4. New(u) \in Units /\ New(u).card = u.card /\ New(u).atk = u.atk /\ New(u).hp = u.hp
        /\ New(u).shield = u.shield /\ New(u).total = u.total
        /\ New(u).left = u.total /\ u.total \in Nat
    BY <2>3
  <2>5. New(v) \in Units /\ New(v).card = v.card /\ New(v).atk = v.atk /\ New(v).hp = v.hp
        /\ New(v).shield = v.shield /\ New(v).total = v.total
        /\ New(v).left = v.total
    BY <2>2, <2>3
  <2> HIDE DEF New
  <2>6. New(u) # NoUnit
    BY <2>4, NoUnitIsNone
  <2> QED
    BY <2>2, <2>4, <2>5, <2>6 DEF SameUnit
<1>4. b = [s \in Places |-> b[s]] /\ c = [s \in Places |-> c[s]]
  OBVIOUS
<1>5. /\ \A s \in Places : b[s] = IF s \in Standing(f, {t}) THEN New(f.board[s]) ELSE f.board[s]
      /\ \A s \in Places : c[s] = IF s \in Standing(g, {Across(t)}) THEN New(g.board[s]) ELSE g.board[s]
  OBVIOUS
<1>6. {t} \in SUBSET Places /\ Moved({t}) = {Across(t)} /\ \A s \in Places : Across(s) \in Places
  BY AcrossAndBack, MovedSmall
<1>9. \A s \in Standing(f, {t}) : d[s] = 0 /\ m[s] = 0
  BY DEF Standing
<1> HIDE DEF b, c, New
<1>7. \A s \in Places : /\ s \in Standing(f, {t})
                         /\ Across(s) \in Standing(g, {Across(t)})
                         /\ SameUnit(f.board[s], g.board[Across(s)], d[s], m[s])
                         /\ f.board[s] \in Units
                         => SameUnit(b[s], c[Across(s)], d[s], m[s])
  <2> SUFFICES ASSUME NEW s \in Places, s \in Standing(f, {t}), Across(s) \in Standing(g, {Across(t)}),
                      SameUnit(f.board[s], g.board[Across(s)], d[s], m[s]), f.board[s] \in Units
               PROVE  SameUnit(b[s], c[Across(s)], d[s], m[s])
    OBVIOUS
  <2>1. b[s] = New(f.board[s]) /\ c[Across(s)] = New(g.board[Across(s)])
    BY <1>5, <1>6
  <2>2. SameUnit(New(f.board[s]), New(g.board[Across(s)]), d[s], m[s])
    BY <1>3, <1>9
  <2> QED
    BY <2>1, <2>2
<1>8. Twin([f EXCEPT !.board = b], [g EXCEPT !.board = c], d, m)
  BY <1>4, <1>5, <1>6, <1>7, TwinChanged
<1> QED
  BY <1>1, <1>2, <1>8

LEMMA TwinLeaders ==
  ASSUME NEW f, NEW g, NEW d, NEW m, Twin(f, g, d, m), NEW p \in Players, NEW q \in Players,
         q = Opponent(p), NEW n \in Int
  PROVE  Twin([f EXCEPT !.health[p] = @ - n], [g EXCEPT !.health[q] = @ - n], d, m)
<1> DEFINE x == [f EXCEPT !.health[p] = @ - n]
           y == [g EXCEPT !.health[q] = @ - n]
<1>1. /\ f \in Battlefields /\ g \in Battlefields /\ g.cap = f.cap
      /\ \A r \in Players : g.health[Opponent(r)] = f.health[r]
      /\ \A s \in Places : SameUnit(f.board[s], g.board[Across(s)], d[s], m[s])
  BY DEF Twin
<1>2. /\ x \in Battlefields /\ x.board = f.board /\ x.cap = f.cap
      /\ x.health[p] = f.health[p] - n /\ \A r \in Players : r # p => x.health[r] = f.health[r]
  BY <1>1 DEF Battlefields
<1>3. /\ y \in Battlefields /\ y.board = g.board /\ y.cap = g.cap
      /\ y.health[q] = g.health[q] - n /\ \A r \in Players : r # q => y.health[r] = g.health[r]
  BY <1>1 DEF Battlefields
<1> HIDE DEF x, y
<1>4. \A r \in Players : Opponent(r) \in Players /\ (Opponent(r) = q <=> r = p)
  BY DEF Players, Opponent
<1>5. ASSUME NEW r \in Players PROVE y.health[Opponent(r)] = x.health[r]
  BY <1>1, <1>2, <1>3, <1>4
<1>6. Twin(x, y, d, m)
  BY <1>1, <1>2, <1>3, <1>5 DEF Twin
<1> QED
  BY <1>6 DEF x, y

LEMMA TwinCaps ==
  ASSUME NEW f, NEW g, NEW d, NEW m, Twin(f, g, d, m), NEW n \in Nat
  PROVE  Twin([f EXCEPT !.cap = @ + n], [g EXCEPT !.cap = @ + n], d, m)
<1> DEFINE x == [f EXCEPT !.cap = @ + n]
           y == [g EXCEPT !.cap = @ + n]
<1>1. f \in Battlefields /\ g \in Battlefields /\ g.cap = f.cap
  BY DEF Twin
<1>2. x \in Battlefields /\ x.board = f.board /\ x.health = f.health /\ x.cap = f.cap + n
  BY <1>1, CapRaised
<1>3. y \in Battlefields /\ y.board = g.board /\ y.health = g.health /\ y.cap = g.cap + n
  BY <1>1, CapRaised
<1> HIDE DEF x, y
<1>4. Twin(x, y, d, m)
  BY <1>1, <1>2, <1>3 DEF Twin
<1> QED
  BY <1>4 DEF x, y

LEMMA TwinStatsChange ==
  ASSUME NEW f, NEW g, NEW d, NEW m, Twin(f, g, d, m), NEW t \in Places, NEW a \in Abilities,
         NEW x \in StatsChange(f, a, t)
  PROVE  \E y \in StatsChange(g, a, Across(t)) : Twin(x, y, d, m)
<1>1. EnemyInFront(f, t) = {} <=> EnemyInFront(g, Across(t)) = {}
  <2>1. Moved(EnemyInFront(f, t)) = EnemyInFront(g, Across(t))
    BY InFrontAcross
  <2> QED
    BY <2>1 DEF Moved
<1>2. CASE a.condition /\ EnemyInFront(f, t) = {}
  BY <1>1, <1>2 DEF StatsChange
<1>3. CASE ~(a.condition /\ EnemyInFront(f, t) = {})
  <2> DEFINE n == IF a.perColour THEN DeckColours ELSE 1
             atk == a.atk * n
             hp == a.hp * n
  <2>1. atk \in Int /\ hp \in Int
    <3>1. n \in Int /\ a.atk \in Int /\ a.hp \in Int
      BY ColoursAreNat, AbilityTypes
    <3> HIDE DEF n
    <3> QED
      BY <3>1
  <2>2. StatsChange(f, a, t) = {ChangeStats(f, T, atk, hp) : T \in Targets(f, a.target, t)}
    BY <1>3 DEF StatsChange
  <2>3. StatsChange(g, a, Across(t)) = {ChangeStats(g, T, atk, hp) : T \in Targets(g, a.target, Across(t))}
    BY <1>1, <1>3 DEF StatsChange
  <2> HIDE DEF atk, hp, n
  <2>4. PICK T \in Targets(f, a.target, t) : x = ChangeStats(f, T, atk, hp)
    BY <2>2
  <2>5. T \in SUBSET Places /\ Moved(T) \in Targets(g, a.target, Across(t))
    BY TargetsArePlaces, TwinTargets
  <2>6. Twin(x, ChangeStats(g, Moved(T), atk, hp), d, m)
    BY <2>1, <2>4, <2>5, TwinStats
  <2> QED
    BY <2>3, <2>5, <2>6
<1> QED
  BY <1>2, <1>3

LEMMA TwinDestroy ==
  ASSUME NEW f, NEW g, NEW d, NEW m, Twin(f, g, d, m), NEW t \in Places, NEW a \in Abilities,
         NEW x \in Destroy(f, a, t)
  PROVE  \E y \in Destroy(g, a, Across(t)) : Twin(x, y, d, m)
<1> DEFINE buff(T) == a.buff * Cardinality(T)
<1>1. PICK T \in Targets(f, a.target, t) :
        x = ChangeStats(SetHitPoints(f, T, 0), {t}, buff(T), buff(T))
  BY DEF Destroy
<1>2. T \in SUBSET Places /\ Moved(T) \in Targets(g, a.target, Across(t))
  BY TargetsArePlaces, TwinTargets
<1>3. buff(T) \in Int /\ buff(Moved(T)) = buff(T)
  <2>1. Cardinality(T) \in Nat /\ a.buff \in Int
    BY <1>2, PlacesFinite, FS_Subset, FS_CardinalityType, AbilityTypes
  <2>2. Cardinality(Moved(T)) = Cardinality(T)
    BY <1>2, MovedCount
  <2> QED
    BY <2>1, <2>2
<1>4. Twin(SetHitPoints(f, T, 0), SetHitPoints(g, Moved(T), 0), d, m)
  BY <1>2, TwinHitPoints
<1>5. ChangeStats(SetHitPoints(g, Moved(T), 0), {Across(t)}, buff(Moved(T)), buff(Moved(T)))
        \in Destroy(g, a, Across(t))
  BY <1>2 DEF Destroy
<1>6. {t} \in SUBSET Places /\ Moved({t}) = {Across(t)}
  BY MovedSmall
<1> HIDE DEF buff
<1>7. Twin(x, ChangeStats(SetHitPoints(g, Moved(T), 0), {Across(t)}, buff(T), buff(T)), d, m)
  BY <1>1, <1>3, <1>4, <1>6, TwinStats
<1> QED
  BY <1>3, <1>5, <1>7

\* The effects that neither the moment of placing a card nor resetting a charge has.
Fair(a) ==
  /\ a.effect \notin {"bounce", "transform", "summon_units", "double_attack_speed", "reset_attack"}
  /\ ~(a.effect = "deal_damage" /\ a.target = "enemy_leader")

LEMMA TwinEffect ==
  ASSUME NEW f, NEW g, NEW d, NEW m, Twin(f, g, d, m), NEW t \in Places, NEW by \in Places,
         NEW a \in Abilities, Fair(a), NEW x \in Effect(f, a, t, by)
  PROVE  \E y \in Effect(g, a, Across(t), Across(by)) : Twin(x, y, d, m)
<1>1. /\ {a.hp, a.damage, -a.damage} \subseteq Int /\ a.amount \in Nat
      /\ a.effect \in EffectNames \ {"bounce", "transform", "summon_units", "double_attack_speed",
                                     "reset_attack"}
  BY AbilityTypes DEF Fair
<1>2. ASSUME NEW mode, NEW T \in Targets(f, mode, t)
      PROVE  T \in SUBSET Places /\ Moved(T) \in Targets(g, mode, Across(t))
  BY TargetsArePlaces, TwinTargets
<1>3. {t} \in SUBSET Places /\ Moved({t}) = {Across(t)}
  BY MovedSmall
<1>4. CASE a.effect = "stats_change"
  BY <1>4, TwinStatsChange DEF Effect
<1>5. CASE a.effect = "deal_damage"
  <2>1. PICK T \in Targets(f, a.target, t) : x = ChangeStats(f, T, 0, -a.damage)
    BY <1>5 DEF Effect, DealDamage, Fair
  <2>2. Twin(x, ChangeStats(g, Moved(T), 0, -a.damage), d, m)
    BY <1>1, <1>2, <2>1, TwinStats
  <2>3. ChangeStats(g, Moved(T), 0, -a.damage) \in Effect(g, a, Across(t), Across(by))
    BY <1>2, <1>5 DEF Effect, DealDamage, Fair
  <2> QED
    BY <2>2, <2>3
<1>6. CASE a.effect = "destroy"
  BY <1>6, TwinDestroy DEF Effect
<1>7. CASE a.effect = "destroy_random"
  <2>1. PICK T \in Targets(f, "random_enemy", t) : x = SetHitPoints(f, T, 0)
    BY <1>7 DEF Effect, DestroyRandom
  <2>2. Twin(x, SetHitPoints(g, Moved(T), 0), d, m)
    BY <1>2, <2>1, TwinHitPoints
  <2>3. SetHitPoints(g, Moved(T), 0) \in Effect(g, a, Across(t), Across(by))
    BY <1>2, <1>7 DEF Effect, DestroyRandom
  <2> QED
    BY <2>2, <2>3
<1>8. CASE a.effect = "set_hp"
  <2>1. PICK T \in Targets(f, a.target, t) : x = SetHitPoints(f, T, a.hp)
    BY <1>8 DEF Effect, SetHP
  <2>2. Twin(x, SetHitPoints(g, Moved(T), a.hp), d, m)
    BY <1>1, <1>2, <2>1, TwinHitPoints
  <2>3. SetHitPoints(g, Moved(T), a.hp) \in Effect(g, a, Across(t), Across(by))
    BY <1>2, <1>8 DEF Effect, SetHP
  <2> QED
    BY <2>2, <2>3
<1>9. CASE a.effect = "elixir_overflow"
  <2>1. x = [f EXCEPT !.cap = @ + a.amount]
    BY <1>9 DEF Effect, ElixirOverflow
  <2>2. Twin(x, [g EXCEPT !.cap = @ + a.amount], d, m)
    BY <1>1, <2>1, TwinCaps
  <2> QED
    BY <1>9, <2>2 DEF Effect, ElixirOverflow
<1>10. CASE a.effect = "self_damage"
  <2>1. x = ChangeStats(f, {t}, 0, -a.damage)
    BY <1>10 DEF Effect, SelfDamage
  <2>2. Twin(x, ChangeStats(g, Moved({t}), 0, -a.damage), d, m)
    BY <1>1, <1>3, <2>1, TwinStats
  <2>3. ChangeStats(g, Moved({t}), 0, -a.damage) \in Effect(g, a, Across(t), Across(by))
    BY <1>3, <1>10 DEF Effect, SelfDamage
  <2> QED
    BY <2>2, <2>3
<1>11. CASE a.effect = "damage_leader"
  <2>1. x = [f EXCEPT !.health[t[1]] = @ - a.damage]
    BY <1>11 DEF Effect, HurtLeader
  <2>2. Effect(g, a, Across(t), Across(by)) = {[g EXCEPT !.health[Across(t)[1]] = @ - a.damage]}
    BY <1>11 DEF Effect, HurtLeader
  <2>3. Across(t)[1] \in Players /\ t[1] \in Players /\ Across(t)[1] = Opponent(t[1])
    BY AcrossAndBack, PlaceParts
  <2>4. Twin(x, [g EXCEPT !.health[Across(t)[1]] = @ - a.damage], d, m)
    BY <1>1, <2>1, <2>3, TwinLeaders
  <2> QED
    BY <2>2, <2>4
<1>12. CASE a.effect = "shield"
  BY <1>12, TwinShielded DEF Effect
<1>13. CASE a.effect = "reflect"
  BY <1>13, TwinReflected DEF Effect
<1>14. CASE a.effect \in {"random_target", "skip_front_row"}
  <2>1. x = f /\ Effect(g, a, Across(t), Across(by)) = {g}
    BY <1>14 DEF Effect
  <2> QED
    BY <2>1
<1> QED
  BY <1>1, <1>4, <1>5, <1>6, <1>7, <1>8, <1>9, <1>10, <1>11, <1>12, <1>13, <1>14 DEF EffectNames

\* One ability of a card at t that is hit by by, if it has the trigger.
Fired(trigger, g, a, t, by) ==
  IF a.trigger = trigger THEN Execute(Summons, g, a, t, by) ELSE {g}

\* What h keeps for n: what can come of the first n abilities of the card d.
FireChain(h, trigger, d, f, t, by) ==
  LET s == Definition[d].abilities IN
  /\ FireTrigger(trigger, d, f, t, by) = h[Len(s)]
  /\ h[0] = {f}
  /\ \A i \in 1..Len(s) : \A x : x \in h[i] <=> \E g \in h[i - 1] : x \in Fired(trigger, g, s[i], t, by)

LEMMA FireTurns ==
  ASSUME NEW f \in Battlefields, NEW d \in Cards, NEW t \in Places, NEW by, NEW trigger,
         trigger # "summon"
  PROVE  \E h : FireChain(h, trigger, d, f, t, by)
<1> DEFINE s == Definition[d].abilities
           n == Len(s)
           X == [i \in 0..n |-> Battlefields]
           fire(g, a) == IF a.trigger = trigger THEN Execute(Summons, g, a, t, by) ELSE {g}
           step == [i \in 1..n |-> [g \in X[i - 1] |-> fire(g, s[i])]]
           Then(h, i) == UNION {fire(g, s[i]) : g \in h[i - 1]}
           Eq(h) == h = [i \in 0..n |-> IF i = 0 THEN {f} ELSE Then(h, i)]
           after == CHOOSE h : Eq(h)
<1>1. FireTrigger(trigger, d, f, t, by) = after[n]
  BY DEF FireTrigger, Fire, InTurn
<1>2. n \in Nat /\ X[0] = Battlefields /\ f \in X[0]
      /\ \A i \in 1..n : X[i] = Battlefields /\ X[i - 1] = Battlefields
  BY AbilitiesListed
<1>3. ASSUME NEW i \in 1..n, NEW g \in X[i - 1] PROVE fire(g, s[i]) \subseteq X[i]
  <2>1. s[i] \in AbilitiesOf(d) /\ g \in Battlefields /\ X[i] = Battlefields
    BY <1>2, AbilitiesListed
  <2> HIDE DEF s, n, X
  <2>2. CASE s[i].trigger = trigger
    <3>1. /\ s[i].effect \notin {"bounce", "transform", "summon_units", "double_attack_speed"}
          /\ ~(s[i].effect = "deal_damage" /\ s[i].target = "enemy_leader")
      BY <2>1, <2>2, OnlyWhenPlaced
    <3>2. Effect(g, s[i], t, by) \subseteq Battlefields
      BY <2>1, <3>1, BattlefieldsAreSteady, PlaceParts, AbilitiesListed, EffectSteady
    <3> QED
      BY <2>1, <2>2, <3>1, <3>2 DEF Execute
  <2> QED
    BY <2>1, <2>2
<1> HIDE DEF fire, s, n, X
<1>4. \A i \in 1..n : \A g \in X[i - 1] : step[i][g] = fire(g, s[i])
  OBVIOUS
<1>5. \A i \in 1..n : \A g \in X[i - 1] : step[i][g] \subseteq X[i]
  BY <1>3, <1>4
<1> HIDE DEF step
<1>6. PICK h : Turns(h, X, n, f, step)
  BY <1>2, <1>5, TurnsExist
<1>7. \A i \in 1..n : i \in 0..n /\ i - 1 \in 0..n /\ i # 0
  BY <1>2
<1>8. ASSUME NEW i \in 1..n PROVE h[i] = Then(h, i)
  <2>1. \A g \in h[i - 1] : step[i][g] = fire(g, s[i])
    BY <1>4, <1>6, <1>7 DEF Turns
  <2>2. ASSUME NEW x PROVE x \in h[i] <=> \E g \in h[i - 1] : x \in fire(g, s[i])
    <3>1. x \in h[i] <=> \E g \in h[i - 1] : x \in step[i][g]
      BY <1>6 DEF Turns
    <3> QED
      BY <2>1, <3>1
  <2> QED
    BY <2>2
<1> HIDE DEF Then
<1>12. Eq(h)
  BY <1>2, <1>6, <1>7, <1>8 DEF Turns
<1>13. Eq(after)
  BY <1>12
<1>14. after[0] = {f}
  <2>1. 0 \in 0..n
    BY <1>2
  <2> QED
    BY <2>1, <1>13
<1>15. ASSUME NEW i \in 1..n, NEW x
      PROVE  x \in after[i] <=> \E g \in after[i - 1] : x \in fire(g, s[i])
  <2>1. after[i] = Then(after, i)
    BY <1>7, <1>13
  <2> HIDE DEF after
  <2> QED
    BY <2>1 DEF Then
<1> HIDE DEF after
<1>18. FireChain(after, trigger, d, f, t, by)
  <2>1. \A g, a : fire(g, a) = Fired(trigger, g, a, t, by)
    BY DEF fire, Fired
  <2> QED
    BY <1>1, <1>14, <1>15, <2>1 DEF FireChain, s, n
<1> QED
  BY <1>18

LEMMA TwinFired ==
  ASSUME NEW f, NEW g, NEW d, NEW m, Twin(f, g, d, m), NEW c \in PlainCards, NEW a \in AbilitiesOf(c),
         NEW t \in Places, NEW by \in Places, NEW trigger, trigger # "summon",
         NEW x \in Fired(trigger, f, a, t, by)
  PROVE  \E y \in Fired(trigger, g, a, Across(t), Across(by)) : Twin(x, y, d, m)
<1>1. CASE a.trigger # trigger
  BY <1>1 DEF Fired
<1>2. CASE a.trigger = trigger
  <2>1. c \in Cards /\ a \in Abilities
    BY AbilitiesListed DEF PlainCards
  <2>2. Fair(a) /\ a.effect # "transform"
    BY <1>2, <2>1, OnlyWhenPlaced DEF Fair, PlainCards
  <2>3. /\ Fired(trigger, f, a, t, by) = (IF a.chance > 1 THEN {f} ELSE {}) \cup Effect(f, a, t, by)
        /\ Fired(trigger, g, a, Across(t), Across(by))
             = (IF a.chance > 1 THEN {g} ELSE {}) \cup Effect(g, a, Across(t), Across(by))
    BY <1>2, <2>2 DEF Fired, Execute
  <2>4. CASE x \in Effect(f, a, t, by)
    BY <2>1, <2>2, <2>3, <2>4, TwinEffect
  <2>5. CASE x = f /\ a.chance > 1
    BY <2>3, <2>5
  <2> QED
    BY <2>3, <2>4, <2>5
<1> QED
  BY <1>1, <1>2

\* What the abilities of a card do on one side, they do on the other.
LEMMA TwinFire ==
  ASSUME NEW f, NEW g, NEW d, NEW m, Twin(f, g, d, m), NEW c \in PlainCards,
         NEW t \in Places, NEW by \in Places, NEW trigger, trigger # "summon",
         NEW x \in FireTrigger(trigger, c, f, t, by)
  PROVE  \E y \in FireTrigger(trigger, c, g, Across(t), Across(by)) : Twin(x, y, d, m)
<1> DEFINE s == Definition[c].abilities
           n == Len(s)
<1>1. /\ f \in Battlefields /\ g \in Battlefields /\ c \in Cards
      /\ Across(t) \in Places /\ Across(by) \in Places
  BY AcrossAndBack DEF Twin, PlainCards
<1>11. PICK h : FireChain(h, trigger, c, f, t, by)
  BY <1>1, FireTurns
<1>12. PICK k : FireChain(k, trigger, c, g, Across(t), Across(by))
  BY <1>1, FireTurns
<1>2. /\ FireTrigger(trigger, c, f, t, by) = h[n] /\ h[0] = {f}
      /\ \A i \in 1..n : \A z : z \in h[i] <=> \E r \in h[i - 1] : z \in Fired(trigger, r, s[i], t, by)
  BY <1>11 DEF FireChain
<1>3. /\ FireTrigger(trigger, c, g, Across(t), Across(by)) = k[n] /\ k[0] = {g}
      /\ \A i \in 1..n : \A z :
           z \in k[i] <=> \E r \in k[i - 1] : z \in Fired(trigger, r, s[i], Across(t), Across(by))
  BY <1>12 DEF FireChain
<1>4. n \in Nat /\ \A i \in 1..n : s[i] \in AbilitiesOf(c)
  BY <1>1, AbilitiesListed
<1> HIDE DEF s, n
<1> DEFINE S == {i \in 0..n : \A z \in h[i] : \E y \in k[i] : Twin(z, y, d, m)}
<1>5. 0 \in S
  BY <1>2, <1>3, <1>4
<1>6. ASSUME NEW i \in 1..n, i - 1 \in S PROVE i \in S
  <2>1. i \in 0..n /\ \A z \in h[i - 1] : \E y \in k[i - 1] : Twin(z, y, d, m)
    BY <1>4, <1>6
  <2>2. ASSUME NEW z \in h[i] PROVE \E y \in k[i] : Twin(z, y, d, m)
    <3>1. PICK r \in h[i - 1] : z \in Fired(trigger, r, s[i], t, by)
      BY <1>2, <2>2
    <3>2. PICK q \in k[i - 1] : Twin(r, q, d, m)
      BY <2>1
    <3>3. PICK y \in Fired(trigger, q, s[i], Across(t), Across(by)) : Twin(z, y, d, m)
      BY <1>4, <3>1, <3>2, TwinFired
    <3> QED
      BY <1>3, <3>3
  <2> QED
    BY <2>1, <2>2
<1> HIDE DEF S
<1>7. n \in S
  BY <1>4, <1>5, <1>6, StepByStep
<1> QED
  BY <1>2, <1>3, <1>7 DEF S

(***************************************************************************)
(* Attacks, seen from the other side.                                      *)
(***************************************************************************)

LEMMA TwinAims ==
  ASSUME NEW f, NEW g, NEW d, NEW m, Twin(f, g, d, m), NEW t \in Places, NEW aim \in Aims(f, t)
  PROVE  Moved(aim) \in Aims(g, Across(t))
<1> DEFINE behind(r) == <<Opponent(r[1]), <<BackRow, r[2][2]>>>>
           inBack == Standing(f, {behind(t)})
           outBack == Standing(g, {behind(Across(t))})
           abilities == Definition[Unit(f, t).card].abilities
           modify == {i \in DOMAIN abilities : abilities[i].effect \in {"random_target", "skip_front_row"}}
           first == abilities[CHOOSE i \in modify : \A j \in modify : i <= j]
           own(r) == IF first.pool = "all" THEN Side(r[1]) \ {r} ELSE {}
           pool(r) == Side(Opponent(r[1])) \cup own(r)
           default(h, r) == EnemyInFront(h, r)
<1>1. Unit(g, Across(t)).card = Unit(f, t).card
  BY TwinUnit
<1>2. Moved(default(f, t)) = default(g, Across(t))
  BY InFrontAcross
<1>3. Moved(inBack) = outBack
  <2>1. behind(t) \in Places /\ behind(Across(t)) = Across(behind(t))
    <3>1. t[1] \in Players /\ Opponent(t[1]) \in Players /\ t[2][2] \in Cols
      BY PlaceParts
    <3>2. Across(t)[1] = Opponent(t[1]) /\ Across(t)[2] = t[2]
      BY AcrossAndBack
    <3>3. behind(t) \in Places
      BY <3>1 DEF Places, Positions
    <3>4. Across(behind(t)) = <<Opponent(Opponent(t[1])), <<BackRow, t[2][2]>>>>
      BY DEF Across
    <3> QED
      BY <3>2, <3>3, <3>4
  <2> HIDE DEF behind
  <2>2. Moved({behind(t)}) = {behind(Across(t))} /\ {behind(t)} \in SUBSET Places
    BY <2>1, MovedSmall
  <2>3. Moved(Standing(f, {behind(t)})) = Standing(g, Moved({behind(t)}))
    BY <2>2, TwinStanding
  <2> QED
    BY <2>2, <2>3
<1>4. inBack # {} <=> outBack # {}
  <2> HIDE DEF inBack, outBack
  <2> QED
    BY <1>3 DEF Moved
<1>5. /\ pool(t) \in SUBSET Places
      /\ Moved(Standing(f, pool(t))) = Standing(g, pool(Across(t)))
  <2> HIDE DEF first
  <2>1. pool(t) \in SUBSET Places /\ pool(Across(t)) \in SUBSET Places
    BY PlaceParts, SidesArePlaces, AcrossAndBack
  <2>2. ASSUME NEW s \in Places PROVE s \in pool(t) <=> Across(s) \in pool(Across(t))
    <3>1. /\ s \in Side(t[1]) <=> Across(s) \in Side(Across(t)[1])
          /\ s \in Side(Opponent(t[1])) <=> Across(s) \in Side(Opponent(Across(t)[1]))
      <4>1. /\ Moved(Side(t[1])) = Side(Across(t)[1])
            /\ Moved(Side(Opponent(t[1]))) = Side(Opponent(Across(t)[1]))
            /\ Side(t[1]) \in SUBSET Places /\ Side(Opponent(t[1])) \in SUBSET Places
        BY PlaceParts, SidesArePlaces, SidesMove, AcrossAndBack
      <4> QED
        BY <4>1, MovedPlaces
    <3>2. s = t <=> Across(s) = Across(t)
      BY AcrossIsOneToOne
    <3> QED
      BY <3>1, <3>2
  <2> HIDE DEF pool
  <2>3. Moved(pool(t)) = pool(Across(t))
    BY <2>1, <2>2, MovedTo
  <2>4. Moved(Standing(f, pool(t))) = Standing(g, Moved(pool(t)))
    BY <2>1, TwinStanding
  <2> QED
    BY <2>1, <2>3, <2>4
<1> DEFINE Aimed(h, r, back) ==
      IF modify = {} THEN {default(h, r)}
      ELSE IF first.effect = "skip_front_row" THEN {IF back # {} THEN back ELSE default(h, r)}
      ELSE {{}} \cup {{s} : s \in Standing(h, pool(r))}
<1>6. Aims(f, t) = Aimed(f, t, inBack)
  BY DEF Aims
<1>7. Aims(g, Across(t)) = Aimed(g, Across(t), outBack)
  BY <1>1 DEF Aims
<1> HIDE DEF modify, first, default, inBack, outBack, pool
<1>8. CASE modify = {}
  BY <1>2, <1>6, <1>7, <1>8
<1>9. CASE modify # {} /\ first.effect = "skip_front_row"
  BY <1>2, <1>3, <1>4, <1>6, <1>7, <1>9
<1>10. CASE modify # {} /\ first.effect # "skip_front_row"
  <2>1. CASE aim = {}
    BY <2>1, <1>7, <1>10, MovedSmall
  <2>2. CASE aim # {}
    <3>1. PICK s \in Standing(f, pool(t)) : aim = {s}
      BY <1>6, <1>10, <2>2
    <3>2. Moved(aim) = {Across(s)} /\ Across(s) \in Standing(g, pool(Across(t)))
      BY <1>5, <3>1, MovedSmall DEF Moved
    <3> QED
      BY <1>7, <1>10, <3>2
  <2> QED
    BY <2>1, <2>2
<1> QED
  BY <1>8, <1>9, <1>10

LEMMA TwinStands ==
  ASSUME NEW f, NEW g, NEW d, NEW m, Twin(f, g, d, m), NEW t \in Standing(f, Places)
  PROVE  /\ f \in Battlefields /\ g \in Battlefields
         /\ t \in Places /\ Across(t) \in Places
         /\ Across(t) \in Standing(g, Places)
         /\ Unit(f, t).card \in PlainCards
<1>1. f \in Battlefields /\ g \in Battlefields
  BY DEF Twin
<1>2. t \in Places /\ Unit(f, t) # NoUnit
  BY DEF Standing
<1>3. SameUnit(Unit(f, t), Unit(g, Across(t)), d[t], m[t]) /\ Unit(g, Across(t)) # NoUnit
  BY <1>2, TwinUnit
<1> QED
  BY <1>1, <1>2, <1>3, AcrossAndBack DEF SameUnit, Standing

\* The battlefields with a unit at t.
Holding(t) == {f \in Battlefields : f.board[t] # NoUnit}

LEMMA HoldingIsSteady ==
  ASSUME NEW t \in Places
  PROVE  Steady(Holding(t)) /\ \A p \in Players : Exposed(Holding(t), p)
<1>1. ASSUME NEW z \in Holding(t), NEW b \in Boards,
             \A r \in Places : b[r] = z.board[r] \/ (z.board[r] # NoUnit /\ Touched(z.board[r], b[r]))
      PROVE  [z EXCEPT !.board = b] \in Holding(t)
  <2>1. b[t] # NoUnit
    BY <1>1, NoUnitIsNone DEF Touched, Holding
  <2> QED
    BY <2>1, BoardChanged DEF Holding
<1>2. ASSUME NEW z \in Holding(t), NEW i \in Nat PROVE [z EXCEPT !.cap = @ + i] \in Holding(t)
  BY CapRaised DEF Holding
<1>3. ASSUME NEW z \in Holding(t), NEW p \in Players, NEW i \in Int
      PROVE  [z EXCEPT !.health[p] = @ - i] \in Holding(t)
  BY LeaderHurt DEF Holding
<1>4. Holding(t) \subseteq Battlefields
  BY DEF Holding
<1> QED
  BY <1>1, <1>2, <1>3, <1>4 DEF Steady, Exposed

LEMMA TwinStrikeLeader ==
  ASSUME NEW f, NEW g, NEW d, NEW m, Twin(f, g, d, m), NEW t \in Standing(f, Places)
  PROVE  Twin(StrikeLeader(f, t), StrikeLeader(g, Across(t)), d, m)
<1> DEFINE x == ChangeStats(f, {t}, 0, -LeaderAttack)
           y == ChangeStats(g, {Across(t)}, 0, -LeaderAttack)
           n == Unit(f, t).atk
           p == Opponent(t[1])
           q == Opponent(Across(t)[1])
<1>1. f \in Battlefields /\ t \in Places
  BY TwinStands
<1>2. n \in Int /\ Unit(g, Across(t)).atk = n /\ p \in Players /\ q \in Players /\ q = Opponent(p)
  BY <1>1, UnitAt, TwinUnit, PlaceParts, AcrossAndBack
<1>3. -LeaderAttack \in Int
  BY StatsAreNats
<1>4. {t} \in SUBSET Places /\ Moved({t}) = {Across(t)}
  BY <1>1, MovedSmall
<1>5. Twin(x, ChangeStats(g, Moved({t}), 0, -LeaderAttack), d, m)
  BY <1>3, <1>4, TwinStats
<1>6. Twin(x, y, d, m)
  BY <1>4, <1>5
<1>7. /\ StrikeLeader(f, t) = [x EXCEPT !.health[p] = @ - n]
      /\ StrikeLeader(g, Across(t)) = [y EXCEPT !.health[q] = @ - n]
  BY <1>2 DEF StrikeLeader
<1> HIDE DEF x, y, n, p, q
<1> QED
  BY <1>2, <1>6, <1>7, TwinLeaders

LEMMA TwinStrikeUnit ==
  ASSUME NEW f, NEW g, NEW d, NEW m, Twin(f, g, d, m),
         NEW t \in Standing(f, Places), NEW s \in Standing(f, Places), NEW x \in StrikeUnit(f, t, s)
  PROVE  \E y \in StrikeUnit(g, Across(t), Across(s)) : Twin(x, y, d, m)
<1> DEFINE n == Damage(Unit(f, t).atk, Unit(f, s))
           h == ChangeStats(f, {s}, 0, -n)
           k == ChangeStats(g, {Across(s)}, 0, -n)
<1>1. f \in Battlefields /\ t \in Places /\ s \in Places
  BY TwinStands
<1>2. n \in Int /\ -n \in Int
  BY <1>1, UnitAt DEF Damage
<1>3. Damage(Unit(g, Across(t)).atk, Unit(g, Across(s))) = n
  BY <1>1, TwinUnit DEF Damage
<1>4. {s} \in SUBSET Places /\ Moved({s}) = {Across(s)}
  BY <1>1, MovedSmall
<1> HIDE DEF n
<1>5. Twin(h, ChangeStats(g, Moved({s}), 0, -n), d, m)
  BY <1>2, <1>4, TwinStats
<1>6. Twin(h, k, d, m)
  BY <1>4, <1>5
<1>7. StrikeUnit(f, t, s) = IF Unit(h, s).hp > 0 THEN FireTrigger("on_damaged", Unit(h, s).card, h, s, t)
                            ELSE {h}
  BY DEF StrikeUnit, n
<1>8. StrikeUnit(g, Across(t), Across(s))
        = IF Unit(k, Across(s)).hp > 0
          THEN FireTrigger("on_damaged", Unit(k, Across(s)).card, k, Across(s), Across(t)) ELSE {k}
  BY <1>3 DEF StrikeUnit
<1>9. s \in Standing(h, Places)
  <2>1. f \in Holding(s)
    BY <1>1 DEF Holding, Standing, Unit
  <2>2. h \in Holding(s)
    BY <1>1, <1>2, <2>1, HoldingIsSteady, StatsChanged
  <2> QED
    BY <1>1, <2>2 DEF Holding, Standing, Unit
<1> HIDE DEF h, k
<1>10. /\ Unit(k, Across(s)).hp = Unit(h, s).hp /\ Unit(k, Across(s)).card = Unit(h, s).card
       /\ Unit(h, s).card \in PlainCards
  BY <1>1, <1>6, <1>9, TwinUnit, TwinStands
<1>11. CASE Unit(h, s).hp > 0
  BY <1>1, <1>6, <1>7, <1>8, <1>10, <1>11, TwinFire
<1>12. CASE ~(Unit(h, s).hp > 0)
  BY <1>6, <1>7, <1>8, <1>10, <1>12
<1> QED
  BY <1>11, <1>12

LEMMA TwinStrike ==
  ASSUME NEW f, NEW g, NEW d, NEW m, Twin(f, g, d, m), NEW t \in Standing(f, Places), NEW x \in Strike(f, t)
  PROVE  \E y \in Strike(g, Across(t)) : Twin(x, y, d, m)
<1>1. PICK aim \in Aims(f, t) :
        x \in IF aim = {} THEN {StrikeLeader(f, t)} ELSE UNION {StrikeUnit(f, t, s) : s \in aim}
  BY DEF Strike
<1>2. t \in Places
  BY TwinStands
<1>3. Moved(aim) \in Aims(g, Across(t)) /\ aim \subseteq Standing(f, Places)
  BY <1>2, TwinAims, AimsStand
<1>4. CASE aim = {}
  <2>1. StrikeLeader(g, Across(t)) \in Strike(g, Across(t))
    BY <1>3, <1>4, MovedSmall DEF Strike
  <2> QED
    BY <1>1, <1>4, <2>1, TwinStrikeLeader
<1>5. CASE aim # {}
  <2>1. PICK s \in aim : x \in StrikeUnit(f, t, s)
    BY <1>1, <1>5
  <2>2. PICK y \in StrikeUnit(g, Across(t), Across(s)) : Twin(x, y, d, m)
    BY <1>3, <2>1, TwinStrikeUnit
  <2>3. Across(s) \in Moved(aim)
    BY DEF Moved
  <2>4. y \in Strike(g, Across(t))
    BY <1>3, <2>2, <2>3 DEF Strike
  <2> QED
    BY <2>2, <2>4
<1> QED
  BY <1>4, <1>5

LEMMA TwinResolveAttack ==
  ASSUME NEW f, NEW g, NEW d, NEW m, Twin(f, g, d, m), NEW t \in Standing(f, Places),
         d[t] = 0, m[t] = 0, NEW x \in ResolveAttack(f, t)
  PROVE  \E y \in ResolveAttack(g, Across(t)) : Twin(x, y, d, m)
<1> DEFINE c == Unit(f, t).card
           Struck(h, s) == IF Unit(h, s).hp <= 0 THEN {h} ELSE Strike(h, s)
<1>1. /\ f \in Battlefields /\ t \in Places /\ Across(t) \in Places
      /\ c \in PlainCards /\ c \in Cards /\ Unit(g, Across(t)).card = c
  BY TwinStands, TwinUnit DEF PlainCards
<1> HIDE DEF c
<1>2. PICK h \in FireTrigger("on_attack", c, f, t, t) :
        \E z \in Struck(h, t) : x = Recharge(z, {t})
  BY DEF ResolveAttack, c
<1>3. PICK z \in Struck(h, t) : x = Recharge(z, {t})
  BY <1>2
<1>4. PICK k \in FireTrigger("on_attack", c, g, Across(t), Across(t)) : Twin(h, k, d, m)
  BY <1>1, <1>2, TwinFire
<1>5. h \in Holding(t)
  <2>1. f \in Holding(t)
    BY DEF Holding, Standing, Unit, Twin
  <2> QED
    BY <1>1, <1>2, <2>1, HoldingIsSteady, PlaceParts, FireSteady
<1>6. t \in Standing(h, Places) /\ Unit(k, Across(t)).hp = Unit(h, t).hp
  BY <1>1, <1>4, <1>5, TwinUnit DEF Holding, Standing, Unit
<1>7. PICK y \in Struck(k, Across(t)) : Twin(z, y, d, m)
  <2>1. CASE Unit(h, t).hp <= 0
    BY <1>3, <1>4, <1>6, <2>1
  <2>2. CASE ~(Unit(h, t).hp <= 0)
    BY <1>3, <1>4, <1>6, <2>2, TwinStrike
  <2> QED
    BY <2>1, <2>2
<1>8. Twin(x, Recharge(y, {Across(t)}), d, m)
  BY <1>1, <1>3, <1>7, TwinRecharged
<1>9. Recharge(y, {Across(t)}) \in ResolveAttack(g, Across(t))
  BY <1>1, <1>4, <1>7 DEF ResolveAttack
<1> QED
  BY <1>8, <1>9

(***************************************************************************)
(* The turns of the units, seen from the other side.                       *)
(***************************************************************************)

Charging(u) == [u EXCEPT !.left = @ - 1]

LEMMA ChargingIsFaster ==
  ASSUME NEW u \in Units, 1 <= u.left
  PROVE  /\ Charging(u) \in Units /\ Charging(u).left = u.left - 1
         /\ Charging(u).card = u.card /\ Charging(u).atk = u.atk /\ Charging(u).hp = u.hp
         /\ Charging(u).shield = u.shield /\ Charging(u).total = u.total
         /\ Charging(u) # NoUnit
<1>1. u.left \in Nat /\ u.left - 1 \in Nat
  BY DEF Units
<1>2. /\ Charging(u) \in Units /\ Charging(u).left = u.left - 1
      /\ Charging(u).card = u.card /\ Charging(u).atk = u.atk /\ Charging(u).hp = u.hp
      /\ Charging(u).shield = u.shield /\ Charging(u).total = u.total
  BY <1>1 DEF Charging, Units
<1> QED
  BY <1>2, NoUnitIsNone

\* A unit with a charge to run, and its counterpart.
Charges(u) == u # NoUnit /\ u.total # 0

LEMMA SameCharge ==
  ASSUME NEW u, NEW v, NEW n \in Int, NEW k \in Nat, SameUnit(u, v, n, k), Charges(u)
  PROVE  /\ Charges(v) /\ u.left \in Nat /\ v.left = u.left + n /\ k <= u.left
         /\ 1 <= k /\ 1 <= k + n => SameUnit(Charging(u), Charging(v), n, k - 1)
         /\ 1 <= k => SameUnit(Charging(u), v, n + 1, k - 1)
         /\ 1 <= k + n => SameUnit(u, Charging(v), n - 1, k)
<1>1. /\ u \in Units /\ v \in Units /\ u # NoUnit /\ v # NoUnit
      /\ u.card \in PlainCards /\ v.card = u.card
      /\ v.atk = u.atk /\ v.hp = u.hp /\ v.shield = u.shield /\ v.total = u.total /\ u.total # 0
      /\ v.left = u.left + n /\ k <= u.left
  BY NoUnitIsNone DEF SameUnit, Charges
<1>2. u.left \in Nat /\ v.left \in Nat
  BY <1>1 DEF Units
<1>3. Charges(v)
  BY <1>1 DEF Charges
<1>4. 1 <= k => /\ Charging(u) \in Units /\ Charging(u).left = u.left - 1
                /\ Charging(u).card = u.card /\ Charging(u).atk = u.atk /\ Charging(u).hp = u.hp
                /\ Charging(u).shield = u.shield /\ Charging(u).total = u.total
                /\ Charging(u) # NoUnit
  <2>1. 1 <= k => 1 <= u.left
    BY <1>1, <1>2
  <2> QED
    BY <1>1, <2>1, ChargingIsFaster
<1>5. 1 <= k + n => /\ Charging(v) \in Units /\ Charging(v).left = v.left - 1
                    /\ Charging(v).card = v.card /\ Charging(v).atk = v.atk /\ Charging(v).hp = v.hp
                    /\ Charging(v).shield = v.shield /\ Charging(v).total = v.total
                    /\ Charging(v) # NoUnit
  <2>1. 1 <= k + n => 1 <= v.left
    BY <1>1, <1>2
  <2> QED
    BY <1>1, <2>1, ChargingIsFaster
<1>6. ASSUME 1 <= k, 1 <= k + n PROVE SameUnit(Charging(u), Charging(v), n, k - 1)
  BY <1>1, <1>2, <1>4, <1>5, <1>6 DEF SameUnit
<1>7. ASSUME 1 <= k PROVE SameUnit(Charging(u), v, n + 1, k - 1)
  BY <1>1, <1>2, <1>4, <1>7 DEF SameUnit
<1>8. ASSUME 1 <= k + n PROVE SameUnit(u, Charging(v), n - 1, k)
  BY <1>1, <1>2, <1>5, <1>8 DEF SameUnit
<1> QED
  BY <1>1, <1>2, <1>3, <1>6, <1>7, <1>8

LEMMA TwinPut ==
  ASSUME NEW f, NEW g, NEW d, NEW m, Twin(f, g, d, m), NEW t \in Places, NEW u, NEW v,
         NEW e, NEW n, SameUnit(u, v, e[t], n[t]),
         \A s \in Places : s # t => e[s] = d[s] /\ n[s] = m[s]
  PROVE  Twin(Put(f, t, u), Put(g, Across(t), v), e, n)
<1> DEFINE b == [s \in Places |-> IF s = t THEN u ELSE f.board[s]]
           c == [s \in Places |-> IF s = Across(t) THEN v ELSE g.board[s]]
<1>1. Put(f, t, u) = [f EXCEPT !.board = b]
  BY DEF Put
<1>2. Put(g, Across(t), v) = [g EXCEPT !.board = c]
  BY DEF Put
<1>3. b = [s \in Places |-> b[s]] /\ c = [s \in Places |-> c[s]]
  OBVIOUS
<1>4. ASSUME NEW s \in Places PROVE SameUnit(b[s], c[Across(s)], e[s], n[s])
  <2>1. Across(s) \in Places /\ (Across(s) = Across(t) <=> s = t)
    BY AcrossAndBack, AcrossIsOneToOne
  <2>2. b[s] = (IF s = t THEN u ELSE f.board[s]) /\ c[Across(s)] = (IF s = t THEN v ELSE g.board[Across(s)])
    BY <2>1
  <2>3. SameUnit(f.board[s], g.board[Across(s)], d[s], m[s])
    BY TwinUnit
  <2> HIDE DEF b, c
  <2> QED
    BY <2>2, <2>3
<1> HIDE DEF b, c
<1>5. Twin([f EXCEPT !.board = b], [g EXCEPT !.board = c], e, n)
  BY <1>3, <1>4, TwinBoards
<1> QED
  BY <1>1, <1>2, <1>5

LEMMA PutSame ==
  ASSUME NEW f \in Battlefields, NEW t \in Places
  PROVE  Put(f, t, Unit(f, t)) = f
<1>1. f.board = [s \in Places |-> IF s = t THEN Unit(f, t) ELSE f.board[s]]
  BY DEF Battlefields, Unit
<1>2. [f EXCEPT !.board = f.board] = f
  BY DEF Battlefields
<1> QED
  BY <1>1, <1>2 DEF Put

\* TickUnit in the words of these proofs.
LEMMA TickOf ==
  ASSUME NEW f, NEW t
  PROVE  /\ ~Charges(Unit(f, t)) => TickUnit(f, t) = {f}
         /\ Charges(Unit(f, t)) /\ Unit(f, t).left > 1
              => TickUnit(f, t) = {Put(f, t, Charging(Unit(f, t)))}
         /\ Charges(Unit(f, t)) /\ ~(Unit(f, t).left > 1)
              => TickUnit(f, t) = ResolveAttack(Put(f, t, Charging(Unit(f, t))), t)
BY DEF TickUnit, Charges, Charging

\* The charge of a unit that does not charge says nothing.
LEMMA TwinAtRest ==
  ASSUME NEW f, NEW g, NEW d, NEW m, Twin(f, g, d, m), NEW t \in Places, ~Charges(Unit(f, t)),
         NEW e, NEW n, \A s \in Places : s # t => e[s] = d[s] /\ n[s] = m[s]
  PROVE  Twin(f, g, e, n) /\ ~Charges(Unit(g, Across(t)))
<1>1. \A s \in Places : SameUnit(f.board[s], g.board[Across(s)], d[s], m[s])
  BY DEF Twin
<1>2. SameUnit(f.board[t], g.board[Across(t)], e[t], n[t])
  BY <1>1 DEF SameUnit, Charges, Unit
<1>3. \A s \in Places : SameUnit(f.board[s], g.board[Across(s)], e[s], n[s])
  BY <1>1, <1>2
<1>4. ~Charges(Unit(g, Across(t)))
  BY <1>1, NoUnitIsNone DEF SameUnit, Charges, Unit
<1> QED
  BY <1>3, <1>4 DEF Twin

LEMMA TwinLeft ==
  ASSUME NEW f, NEW g, NEW d, NEW m, Twin(f, g, d, m), NEW t \in Places,
         d[t] \in Int, m[t] \in Nat, m[t] >= 2,
         NEW e, NEW n, e[t] = d[t] + 1, n[t] = m[t] - 1,
         \A s \in Places : s # t => e[s] = d[s] /\ n[s] = m[s],
         NEW x \in TickUnit(f, t)
  PROVE  Twin(x, g, e, n)
<1> DEFINE u == Unit(f, t)
           v == Unit(g, Across(t))
<1>1. CASE ~Charges(u)
  BY <1>1, TickOf, TwinAtRest
<1>2. CASE Charges(u)
  <2>1. SameUnit(u, v, d[t], m[t]) /\ g \in Battlefields /\ Across(t) \in Places
    BY TwinUnit, AcrossAndBack DEF Twin
  <2>2. u.left \in Nat /\ m[t] <= u.left /\ SameUnit(Charging(u), v, e[t], n[t])
    <3> HIDE DEF u, v
    <3> QED
      BY <1>2, <2>1, SameCharge
  <2>3. x = Put(f, t, Charging(u))
    BY <1>2, <2>2, TickOf
  <2>4. Put(g, Across(t), v) = g
    BY <2>1, PutSame
  <2> HIDE DEF u, v
  <2> QED
    BY <2>2, <2>3, <2>4, TwinPut
<1> QED
  BY <1>1, <1>2

LEMMA TwinRight ==
  ASSUME NEW f, NEW g, NEW d, NEW m, Twin(f, g, d, m), NEW t \in Places,
         d[t] \in Int, m[t] \in Nat, m[t] + d[t] >= 2,
         NEW e, e[t] = d[t] - 1, \A s \in Places : s # t => e[s] = d[s]
  PROVE  \E y \in TickUnit(g, Across(t)) : Twin(f, y, e, m)
<1> DEFINE u == Unit(f, t)
           v == Unit(g, Across(t))
<1>1. CASE ~Charges(u)
  <2>1. Twin(f, g, e, m) /\ ~Charges(v)
    BY <1>1, TwinAtRest
  <2> QED
    BY <2>1, TickOf
<1>2. CASE Charges(u)
  <2>1. SameUnit(u, v, d[t], m[t]) /\ f \in Battlefields
    BY TwinUnit DEF Twin
  <2>2. /\ Charges(v) /\ u.left \in Nat /\ m[t] <= u.left /\ v.left = u.left + d[t]
        /\ SameUnit(u, Charging(v), e[t], m[t])
    <3> HIDE DEF u, v
    <3> QED
      BY <1>2, <2>1, SameCharge
  <2>3. TickUnit(g, Across(t)) = {Put(g, Across(t), Charging(v))}
    BY <2>2, TickOf
  <2>4. Put(f, t, u) = f
    BY <2>1, PutSame
  <2> HIDE DEF u, v
  <2>5. Twin(Put(f, t, u), Put(g, Across(t), Charging(v)), e, m)
    BY <2>2, TwinPut
  <2> QED
    BY <2>3, <2>4, <2>5
<1> QED
  BY <1>1, <1>2

LEMMA TwinTick ==
  ASSUME NEW f, NEW g, NEW d, NEW m, Twin(f, g, d, m), NEW t \in Places,
         d[t] = 0, m[t] = 1, NEW n, n[t] = 0, \A s \in Places : s # t => n[s] = m[s],
         NEW x \in TickUnit(f, t)
  PROVE  \E y \in TickUnit(g, Across(t)) : Twin(x, y, d, n)
<1> DEFINE u == Unit(f, t)
           v == Unit(g, Across(t))
<1>1. CASE ~Charges(u)
  <2>1. Twin(f, g, d, n) /\ ~Charges(v)
    BY <1>1, TwinAtRest
  <2> QED
    BY <1>1, <2>1, TickOf
<1>2. CASE Charges(u)
  <2> DEFINE h == Put(f, t, Charging(u))
             k == Put(g, Across(t), Charging(v))
  <2>1. SameUnit(u, v, d[t], m[t])
    BY TwinUnit
  <2>2. /\ Charges(v) /\ u.left \in Nat /\ v.left = u.left + d[t]
        /\ SameUnit(Charging(u), Charging(v), d[t], m[t] - 1)
    <3> HIDE DEF u, v
    <3>1. /\ Charges(v) /\ u.left \in Nat /\ v.left = u.left + 0
          /\ SameUnit(Charging(u), Charging(v), 0, 1 - 1)
      BY <1>2, <2>1, SameCharge
    <3> QED
      BY <3>1
  <2>3. Twin(h, k, d, n)
    <3> HIDE DEF u, v
    <3>1. SameUnit(Charging(u), Charging(v), d[t], n[t])
      BY <2>2
    <3> QED
      BY <3>1, TwinPut
  <2>4. t \in Standing(h, Places)
    <3>1. Charging(u) # NoUnit /\ h.board[t] = Charging(u)
      <4>1. u \in Units /\ 1 <= u.left
        BY <1>2, <2>1 DEF SameUnit, Charges
      <4>2. f \in Battlefields
        BY DEF Twin
      <4> HIDE DEF u
      <4> QED
        BY <4>1, <4>2, ChargingIsFaster DEF Put, Battlefields
    <3> QED
      BY <3>1 DEF Standing, Unit
  <2>5. CASE u.left > 1
    <3>1. TickUnit(f, t) = {h} /\ TickUnit(g, Across(t)) = {k}
      BY <1>2, <2>2, <2>5, TickOf
    <3> QED
      BY <2>3, <3>1
  <2>6. CASE ~(u.left > 1)
    <3>1. TickUnit(f, t) = ResolveAttack(h, t) /\ TickUnit(g, Across(t)) = ResolveAttack(k, Across(t))
      BY <1>2, <2>2, <2>6, TickOf
    <3> HIDE DEF h, k
    <3> QED
      BY <2>3, <2>4, <3>1, TwinResolveAttack
  <2> QED
    BY <2>5, <2>6
<1> QED
  BY <1>1, <1>2

\* At each position, player 2 comes after player 1.
LEMMA OrderInPairs ==
  LET n == 2 * NCols IN
  /\ n \in Nat /\ Len(Order) = n + n
  /\ \A i \in 1..n : LET t == Order[2 * i - 1] IN
       t \in Places /\ t[1] = 1 /\ Order[2 * i] = Across(t)
<1> DEFINE n == 2 * NCols
<1>1. n \in Nat /\ NCols \in Nat
  BY NColsIsNat
<1>2. /\ Order \in Seq(Places) /\ Len(Order) = n + n
      /\ \A i \in 1..n : Order[i] = PlaceAt(FrontRow, i)
      /\ \A i \in (n + 1)..(n + n) : Order[i] = PlaceAt(BackRow, i - n)
  BY OrderLaidOut
<1>3. ASSUME NEW r, NEW k \in 1..NCols
      PROVE  /\ PlaceAt(r, 2 * k - 1) = <<1, <<r, k - 1>>>>
             /\ PlaceAt(r, 2 * k) = <<2, <<r, k - 1>>>>
  <2>1. /\ ((2 * k - 1) - 1) % 2 = 0 /\ ((2 * k - 1) - 1) \div 2 = k - 1
        /\ (2 * k - 1) % 2 = 1 /\ (2 * k - 1) \div 2 = k - 1
    BY <1>1
  <2> QED
    BY <2>1 DEF PlaceAt
<1>4. ASSUME NEW i \in 1..n
      PROVE  \E r \in {FrontRow, BackRow}, k \in 1..NCols :
               Order[2 * i - 1] = <<1, <<r, k - 1>>>> /\ Order[2 * i] = <<2, <<r, k - 1>>>>
  <2>1. CASE i <= NCols
    <3>1. 2 * i - 1 \in 1..n /\ 2 * i \in 1..n /\ i \in 1..NCols
      BY <1>1, <2>1
    <3> QED
      BY <1>2, <1>3, <3>1
  <2>2. CASE ~(i <= NCols)
    <3> DEFINE k == i - NCols
    <3>1. /\ 2 * i - 1 \in (n + 1)..(n + n) /\ 2 * i \in (n + 1)..(n + n) /\ k \in 1..NCols
          /\ (2 * i - 1) - n = 2 * k - 1 /\ 2 * i - n = 2 * k
      BY <1>1, <2>2
    <3> HIDE DEF k, n
    <3> QED
      BY <1>2, <1>3, <3>1
  <2> QED
    BY <2>1, <2>2
<1>5. ASSUME NEW i \in 1..n
      PROVE  LET t == Order[2 * i - 1] IN t \in Places /\ t[1] = 1 /\ Order[2 * i] = Across(t)
  <2>1. PICK r \in {FrontRow, BackRow}, k \in 1..NCols :
          Order[2 * i - 1] = <<1, <<r, k - 1>>>> /\ Order[2 * i] = <<2, <<r, k - 1>>>>
    BY <1>4
  <2>2. k - 1 \in Cols
    BY <1>1 DEF Cols
  <2>3. Across(<<1, <<r, k - 1>>>>) = <<2, <<r, k - 1>>>>
    BY DEF Across, Opponent
  <2> QED
    BY <2>1, <2>2, <2>3 DEF Places, Players, Positions
<1> QED
  BY <1>1, <1>2, <1>5 DEF n
(***************************************************************************)
(* The turns of a tick, two at a time: the two units at one position.      *)
(***************************************************************************)

Zero == [t \in Places |-> 0]

LEMMA TwinWeakens ==
  ASSUME NEW f, NEW g, NEW d, NEW m, Twin(f, g, d, m), NEW n,
         \A t \in Places : m[t] \in Nat /\ n[t] \in Nat /\ n[t] <= m[t]
  PROVE  Twin(f, g, d, n)
<1>1. ASSUME NEW t \in Places PROVE SameUnit(f.board[t], g.board[Across(t)], d[t], n[t])
  <2> DEFINE u == f.board[t]
             v == g.board[Across(t)]
  <2>1. SameUnit(u, v, d[t], m[t]) /\ m[t] \in Nat /\ n[t] \in Nat /\ n[t] <= m[t]
    BY DEF Twin
  <2> HIDE DEF u, v
  <2>2. u # NoUnit => u \in Units /\ u.left \in Nat
    BY <2>1 DEF SameUnit, Units
  <2>3. SameUnit(u, v, d[t], n[t])
    BY <2>1, <2>2 DEF SameUnit
  <2> QED
    BY <2>3 DEF u, v
<1> QED
  BY <1>1 DEF Twin

\* One of the two units at a position strikes, the other waits.
LEMMA TwinPair ==
  ASSUME NEW f, NEW g, NEW m, Twin(f, g, Zero, m), \A t \in Places : m[t] \in Nat,
         NEW a \in Places, NEW b \in Places, b = Across(a), a # b,
         \/ m[a] = 1 /\ m[b] = 2
         \/ m[a] = 2 /\ m[b] = 1,
         NEW n, n[a] = 0, n[b] = 0, \A s \in Places : s # a /\ s # b => n[s] = m[s],
         NEW x1 \in TickUnit(f, a), NEW x2 \in TickUnit(x1, b)
  PROVE  \E y1 \in TickUnit(g, a) : \E y2 \in TickUnit(y1, b) : Twin(x2, y2, Zero, n)
<1>1. Across(a) = b /\ Across(b) = a
  BY AcrossAndBack
<1>2. Zero[a] = 0 /\ Zero[b] = 0
  BY DEF Zero
<1> DEFINE With(k, t, i) == [s \in Places |-> IF s = t THEN i ELSE k[s]]
<1>3. \A k : \A t \in Places : \A i : With(k, t, i)[t] = i /\ \A s \in Places : s # t => With(k, t, i)[s] = k[s]
  OBVIOUS
<1> HIDE DEF With
<1>4. CASE m[a] = 1 /\ m[b] = 2
  <2> DEFINE e == With(Zero, b, -1)
             m1 == With(m, a, 0)
             m2 == With(m1, b, 1)
  <2>1. /\ e[a] = 0 /\ e[b] = -1 /\ \A s \in Places : s # b => e[s] = Zero[s]
        /\ m1[a] = 0 /\ m1[b] = 2 /\ \A s \in Places : s # a => m1[s] = m[s]
        /\ m2[a] = 0 /\ m2[b] = 1 /\ \A s \in Places : s # b => m2[s] = m1[s]
    BY <1>2, <1>3, <1>4
  <2> HIDE DEF e, m1, m2
  <2>2. PICK y1 \in TickUnit(g, Across(b)) : Twin(f, y1, e, m)
    <3>1. Zero[b] \in Int /\ m[b] \in Nat /\ m[b] + Zero[b] >= 2 /\ e[b] = Zero[b] - 1
      BY <1>2, <1>4, <2>1
    <3> QED
      BY <2>1, <3>1, TwinRight
  <2>3. PICK y2 \in TickUnit(y1, Across(a)) : Twin(x1, y2, e, m1)
    BY <1>4, <2>1, <2>2, TwinTick
  <2>4. Twin(x2, y2, Zero, m2)
    <3>1. /\ e[b] \in Int /\ m1[b] \in Nat /\ m1[b] >= 2
          /\ Zero[b] = e[b] + 1 /\ m2[b] = m1[b] - 1
          /\ \A s \in Places : s # b => Zero[s] = e[s] /\ m2[s] = m1[s]
      BY <1>2, <2>1
    <3> QED
      BY <2>3, <3>1, TwinLeft
  <2>5. Twin(x2, y2, Zero, n)
    <3>1. \A s \in Places : m2[s] \in Nat /\ n[s] \in Nat /\ n[s] <= m2[s]
      BY <2>1
    <3> QED
      BY <2>4, <3>1, TwinWeakens
  <2> QED
    BY <1>1, <2>2, <2>3, <2>5
<1>5. CASE m[a] = 2 /\ m[b] = 1
  <2> DEFINE e == With(Zero, a, 1)
             m1 == With(m, a, 1)
             m2 == With(m1, b, 0)
  <2>1. /\ e[a] = 1 /\ e[b] = 0 /\ \A s \in Places : s # a => e[s] = Zero[s]
        /\ m1[a] = 1 /\ m1[b] = 1 /\ \A s \in Places : s # a => m1[s] = m[s]
        /\ m2[a] = 1 /\ m2[b] = 0 /\ \A s \in Places : s # b => m2[s] = m1[s]
    BY <1>2, <1>3, <1>5
  <2> HIDE DEF e, m1, m2
  <2>2. Twin(x1, g, e, m1)
    <3>1. /\ Zero[a] \in Int /\ m[a] \in Nat /\ m[a] >= 2
          /\ e[a] = Zero[a] + 1 /\ m1[a] = m[a] - 1
          /\ \A s \in Places : s # a => e[s] = Zero[s] /\ m1[s] = m[s]
      BY <1>2, <1>5, <2>1
    <3> QED
      BY <3>1, TwinLeft
  <2>3. PICK y1 \in TickUnit(g, Across(b)) : Twin(x2, y1, e, m2)
    BY <2>1, <2>2, TwinTick
  <2>4. PICK y2 \in TickUnit(y1, Across(a)) : Twin(x2, y2, Zero, m2)
    <3>1. e[a] \in Int /\ m2[a] \in Nat /\ m2[a] + e[a] >= 2 /\ Zero[a] = e[a] - 1
      BY <1>2, <2>1
    <3>2. \A s \in Places : s # a => Zero[s] = e[s]
      BY <2>1
    <3> QED
      BY <2>3, <3>1, <3>2, TwinRight
  <2>5. Twin(x2, y2, Zero, n)
    <3>1. \A s \in Places : m2[s] \in Nat /\ n[s] \in Nat /\ n[s] <= m2[s]
      BY <2>1
    <3> QED
      BY <2>4, <3>1, TwinWeakens
  <2> QED
    BY <1>1, <2>3, <2>4, <2>5
<1> QED
  BY <1>4, <1>5

\* How long a unit at t still waits at least, after i pairs of turns of a tick in which
\* only units of p strike.
Left(p, i) ==
  [t \in Places |-> IF \E j \in 1..(2 * i) : Order[j] = t THEN 0 ELSE IF t[1] = p THEN 1 ELSE 2]

LEMMA LeftInPairs ==
  ASSUME NEW p \in Players, NEW i \in 1..(2 * NCols), NEW a, a = Order[2 * i - 1], NEW b, b = Order[2 * i]
  PROVE  LET m == Left(p, i - 1)
             n == Left(p, i)
         IN /\ a \in Places /\ b \in Places /\ b = Across(a) /\ a # b
            /\ (m[a] = 1 /\ m[b] = 2) \/ (m[a] = 2 /\ m[b] = 1)
            /\ n[a] = 0 /\ n[b] = 0
            /\ \A s \in Places : m[s] \in Nat /\ (s # a /\ s # b => n[s] = m[s])
<1> DEFINE n == 2 * NCols
<1>1. n \in Nat /\ Len(Order) = n + n /\ i \in 1..n
  BY OrderInPairs
<1>2. a \in Places /\ a[1] = 1 /\ b = Across(a)
  BY OrderInPairs
<1>3. b \in Places /\ b[1] = 2 /\ a # b
  BY <1>2, AcrossAndBack DEF Opponent
<1> HIDE DEF n
<1>4. /\ 2 * i - 1 \in 1..Len(Order) /\ 2 * i \in 1..Len(Order)
      /\ \A j \in 1..(2 * (i - 1)) : j \in 1..Len(Order) /\ j # 2 * i - 1 /\ j # 2 * i
                                     /\ j \in 1..(2 * i)
      /\ 2 * i - 1 \in 1..(2 * i) /\ 2 * i \in 1..(2 * i)
      /\ \A j \in 1..(2 * i) : j \in 1..(2 * (i - 1)) \/ j = 2 * i - 1 \/ j = 2 * i
  BY <1>1
<1> DEFINE Done(k, t) == \E j \in 1..(2 * k) : Order[j] = t
<1>5. ~Done(i - 1, a) /\ ~Done(i - 1, b)
  BY <1>4, OrderOfPlaces
<1>6. Done(i, a) /\ Done(i, b)
  BY <1>4
<1>7. \A s : s # a /\ s # b => (Done(i, s) <=> Done(i - 1, s))
  BY <1>4
<1>8. \A k : \A s \in Places : Left(p, k)[s] = IF Done(k, s) THEN 0 ELSE IF s[1] = p THEN 1 ELSE 2
  BY DEF Left
<1> HIDE DEF Done
<1>9. p = 1 \/ p = 2
  BY DEF Players
<1> QED
  BY <1>2, <1>3, <1>5, <1>6, <1>7, <1>8, <1>9

\* What the turns of a tick do on one side, they do on the other.
LEMMA TwinTurns ==
  ASSUME NEW f, NEW g, NEW p \in Players, Twin(f, g, Zero, Left(p, 0)),
         ChargesAreFull(f), ChargesAreFull(g), NEW x \in InTurn(TickUnit, f, Order)
  PROVE  \E y \in InTurn(TickUnit, g, Order) : Twin(x, y, Zero, Zero)
<1> DEFINE n == 2 * NCols
<1>1. n \in Nat /\ Len(Order) = n + n
  BY OrderInPairs
<1>2. f \in Battlefields /\ g \in Battlefields /\ Guards(f, {}) /\ Guards(g, {})
  BY DEF Twin, Guards
<1>3. PICK h : TickChain(h, f)
  BY <1>2, UnitsTurn DEF ChargesAreFull
<1>4. PICK k : TickChain(k, g)
  BY <1>2, UnitsTurn DEF ChargesAreFull
<1> DEFINE S == {i \in 0..n : \A z \in h[2 * i] : \E y \in k[2 * i] : Twin(z, y, Zero, Left(p, i))}
<1>5. 0 \in S
  <2>1. 2 * 0 = 0 /\ h[0] = {f} /\ k[0] = {g} /\ 0 \in 0..n
    BY <1>1, <1>3, <1>4 DEF TickChain
  <2> HIDE DEF n
  <2> QED
    BY <2>1
<1>6. ASSUME NEW i \in 1..n, i - 1 \in S PROVE i \in S
  <2> DEFINE a == Order[2 * i - 1]
             b == Order[2 * i]
             j == 2 * (i - 1)
  <2>1. LET m == Left(p, i - 1)
            r == Left(p, i)
        IN /\ a \in Places /\ b \in Places /\ b = Across(a) /\ a # b
           /\ (m[a] = 1 /\ m[b] = 2) \/ (m[a] = 2 /\ m[b] = 1)
           /\ r[a] = 0 /\ r[b] = 0
           /\ \A s \in Places : m[s] \in Nat /\ (s # a /\ s # b => r[s] = m[s])
    BY LeftInPairs
  <2>2. /\ i \in 0..n /\ 2 * i - 1 \in 1..Len(Order) /\ 2 * i \in 1..Len(Order)
        /\ (2 * i - 1) - 1 = j /\ 2 * i - 1 = j + 1 /\ 2 * i = j + 2
    <3> HIDE DEF n
    <3> QED
      BY <1>1
  <2> HIDE DEF n, a, b
  <2>3. /\ \A z : z \in h[2 * i - 1] <=> \E w \in h[j] : z \in TickUnit(w, a)
        /\ \A z : z \in h[2 * i] <=> \E w \in h[2 * i - 1] : z \in TickUnit(w, b)
    BY <1>3, <2>2 DEF TickChain, a, b
  <2>4. /\ \A z : z \in k[2 * i - 1] <=> \E w \in k[j] : z \in TickUnit(w, a)
        /\ \A z : z \in k[2 * i] <=> \E w \in k[2 * i - 1] : z \in TickUnit(w, b)
    BY <1>4, <2>2 DEF TickChain, a, b
  <2>5. ASSUME NEW x2 \in h[2 * i] PROVE \E y \in k[2 * i] : Twin(x2, y, Zero, Left(p, i))
    <3>1. PICK x1 \in h[2 * i - 1] : x2 \in TickUnit(x1, b)
      BY <2>3
    <3>2. PICK x0 \in h[j] : x1 \in TickUnit(x0, a)
      BY <2>3
    <3>3. PICK y0 \in k[j] : Twin(x0, y0, Zero, Left(p, i - 1))
      BY <1>6
    <3>4. PICK y1 \in TickUnit(y0, a) : \E y2 \in TickUnit(y1, b) : Twin(x2, y2, Zero, Left(p, i))
      BY <2>1, <3>1, <3>2, <3>3, TwinPair
    <3>5. PICK y2 \in TickUnit(y1, b) : Twin(x2, y2, Zero, Left(p, i))
      BY <3>4
    <3> QED
      BY <2>4, <3>3, <3>4, <3>5
  <2> QED
    BY <2>2, <2>5
<1> HIDE DEF S
<1>7. n \in S
  BY <1>1, <1>5, <1>6, StepByStep
<1>8. h[2 * n] = InTurn(TickUnit, f, Order) /\ k[2 * n] = InTurn(TickUnit, g, Order)
  <2>1. 2 * n = Len(Order)
    BY <1>1
  <2> QED
    BY <1>3, <1>4, <2>1 DEF TickChain
<1>9. \A t \in Places : Left(p, n)[t] = 0 /\ Zero[t] = 0
  <2>1. \A t \in Places : \E j \in 1..(2 * n) : Order[j] = t
    <3>1. 2 * n = Len(Order)
      BY <1>1
    <3> QED
      BY <3>1, OrderOfPlaces
  <2> QED
    BY <2>1 DEF Left, Zero
<1> HIDE DEF n
<1>10. PICK y \in k[2 * n] : Twin(x, y, Zero, Left(p, n))
  BY <1>7, <1>8 DEF S
<1>11. Twin(x, y, Zero, Zero)
  <2>1. \A t \in Places : Left(p, n)[t] \in Nat /\ Zero[t] \in Nat /\ Zero[t] <= Left(p, n)[t]
    BY <1>9
  <2> QED
    BY <1>10, <2>1, TwinWeakens
<1> QED
  BY <1>8, <1>10, <1>11

(***************************************************************************)
(* Deaths, seen from the other side: those of one position die one after   *)
(* the other, but what they do to the leaders adds up in any order.        *)
(***************************************************************************)

\* What the leaders and caps of g are ahead of those of f, seen from the other side.
Level(f, g, e, c) ==
  /\ f \in Battlefields /\ g \in Battlefields
  /\ g.cap = f.cap + c
  /\ \A p \in Players : g.health[Opponent(p)] = f.health[p] + e[p]

LEMMA LevelHurt ==
  ASSUME NEW f, NEW g, NEW e, NEW c, Level(f, g, e, c), \A p \in Players : e[p] \in Int,
         NEW p \in Players, NEW q \in Players, q = Opponent(p), NEW n \in Int
  PROVE  Level([f EXCEPT !.health[p] = @ - n], [g EXCEPT !.health[q] = @ - n], e, c)
<1> DEFINE x == [f EXCEPT !.health[p] = @ - n]
           y == [g EXCEPT !.health[q] = @ - n]
<1>1. /\ f \in Battlefields /\ g \in Battlefields /\ g.cap = f.cap + c
      /\ \A r \in Players : g.health[Opponent(r)] = f.health[r] + e[r]
  BY DEF Level
<1>2. /\ x \in Battlefields /\ x.cap = f.cap
      /\ x.health[p] = f.health[p] - n /\ \A r \in Players : r # p => x.health[r] = f.health[r]
  BY <1>1 DEF Battlefields
<1>3. /\ y \in Battlefields /\ y.cap = g.cap
      /\ y.health[q] = g.health[q] - n /\ \A r \in Players : r # q => y.health[r] = g.health[r]
  BY <1>1 DEF Battlefields
<1>4. \A r \in Players : Opponent(r) \in Players /\ (r # p => Opponent(r) # q)
  BY DEF Players, Opponent
<1>5. \A r \in Players : f.health[r] \in Int /\ g.health[r] \in Int
  BY <1>1 DEF Battlefields
<1> HIDE DEF x, y
<1>6. \A r \in Players : y.health[Opponent(r)] = x.health[r] + e[r]
  BY <1>1, <1>2, <1>3, <1>4, <1>5
<1>7. Level(x, y, e, c)
  BY <1>1, <1>2, <1>3, <1>6 DEF Level
<1> QED
  BY <1>7 DEF x, y

LEMMA LevelFired ==
  ASSUME NEW f, NEW g, NEW e, NEW c, Level(f, g, e, c), \A p \in Players : e[p] \in Int,
         NEW d \in PlainCards, NEW a \in AbilitiesOf(d), NEW t \in Places,
         NEW x \in Fired("on_death", f, a, t, t)
  PROVE  \E y \in Fired("on_death", g, a, Across(t), Across(t)) : Level(x, y, e, c)
<1>1. CASE a.trigger # "on_death"
  BY <1>1 DEF Fired
<1>2. CASE a.trigger = "on_death"
  <2>1. a.effect = "damage_leader" /\ a \in Abilities /\ a.damage \in Int
    <3>1. d \in Cards /\ a.effect = "damage_leader"
      BY <1>2 DEF PlainCards
    <3> QED
      BY <3>1, AbilitiesListed, AbilityTypes
  <2>2. /\ Fired("on_death", f, a, t, t)
             = (IF a.chance > 1 THEN {f} ELSE {}) \cup {[f EXCEPT !.health[t[1]] = @ - a.damage]}
        /\ Fired("on_death", g, a, Across(t), Across(t))
             = (IF a.chance > 1 THEN {g} ELSE {})
                 \cup {[g EXCEPT !.health[Across(t)[1]] = @ - a.damage]}
    BY <1>2, <2>1 DEF Fired, Execute, Effect, HurtLeader
  <2>3. t[1] \in Players /\ Across(t)[1] \in Players /\ Across(t)[1] = Opponent(t[1])
    BY PlaceParts, AcrossAndBack
  <2>4. Level([f EXCEPT !.health[t[1]] = @ - a.damage], [g EXCEPT !.health[Across(t)[1]] = @ - a.damage], e, c)
    BY <2>1, <2>3, LevelHurt
  <2>5. CASE x = f /\ a.chance > 1
    BY <2>2, <2>5
  <2>6. CASE x = [f EXCEPT !.health[t[1]] = @ - a.damage]
    BY <2>2, <2>4, <2>6
  <2> QED
    BY <2>2, <2>5, <2>6
<1> QED
  BY <1>1, <1>2

LEMMA LevelFire ==
  ASSUME NEW f, NEW g, NEW e, NEW c, Level(f, g, e, c), \A p \in Players : e[p] \in Int,
         NEW d \in PlainCards, NEW t \in Places, NEW x \in FireTrigger("on_death", d, f, t, t)
  PROVE  \E y \in FireTrigger("on_death", d, g, Across(t), Across(t)) : Level(x, y, e, c)
<1> DEFINE s == Definition[d].abilities
           n == Len(s)
<1>1. f \in Battlefields /\ g \in Battlefields /\ d \in Cards /\ Across(t) \in Places
  BY AcrossAndBack DEF Level, PlainCards
<1>11. PICK h : FireChain(h, "on_death", d, f, t, t)
  BY <1>1, FireTurns
<1>12. PICK k : FireChain(k, "on_death", d, g, Across(t), Across(t))
  BY <1>1, FireTurns
<1>2. /\ FireTrigger("on_death", d, f, t, t) = h[n] /\ h[0] = {f}
      /\ \A i \in 1..n : \A z : z \in h[i] <=> \E r \in h[i - 1] : z \in Fired("on_death", r, s[i], t, t)
  BY <1>11 DEF FireChain
<1>3. /\ FireTrigger("on_death", d, g, Across(t), Across(t)) = k[n] /\ k[0] = {g}
      /\ \A i \in 1..n : \A z :
           z \in k[i] <=> \E r \in k[i - 1] : z \in Fired("on_death", r, s[i], Across(t), Across(t))
  BY <1>12 DEF FireChain
<1>4. n \in Nat /\ \A i \in 1..n : s[i] \in AbilitiesOf(d)
  BY <1>1, AbilitiesListed
<1> HIDE DEF s, n
<1> DEFINE S == {i \in 0..n : \A z \in h[i] : \E y \in k[i] : Level(z, y, e, c)}
<1>5. 0 \in S
  BY <1>2, <1>3, <1>4
<1>6. ASSUME NEW i \in 1..n, i - 1 \in S PROVE i \in S
  <2>1. i \in 0..n /\ \A z \in h[i - 1] : \E y \in k[i - 1] : Level(z, y, e, c)
    BY <1>4, <1>6
  <2>2. ASSUME NEW z \in h[i] PROVE \E y \in k[i] : Level(z, y, e, c)
    <3>1. PICK r \in h[i - 1] : z \in Fired("on_death", r, s[i], t, t)
      BY <1>2, <2>2
    <3>2. PICK q \in k[i - 1] : Level(r, q, e, c)
      BY <2>1
    <3>3. PICK y \in Fired("on_death", q, s[i], Across(t), Across(t)) : Level(z, y, e, c)
      BY <1>4, <3>1, <3>2, LevelFired
    <3> QED
      BY <1>3, <3>3
  <2> QED
    BY <2>1, <2>2
<1> HIDE DEF S
<1>7. n \in S
  BY <1>4, <1>5, <1>6, StepByStep
<1> QED
  BY <1>2, <1>3, <1>7 DEF S

LEMMA TwinDead ==
  ASSUME NEW f, NEW g, NEW d, NEW m, Twin(f, g, d, m), NEW t \in Places
  PROVE  /\ Across(t) \in Dead(g) <=> t \in Dead(f)
         /\ t \in Dead(f) => /\ Unit(g, Across(t)).card = Unit(f, t).card
                             /\ Unit(f, t).card \in PlainCards
                             /\ ~Avenges(Unit(f, t)) /\ ~Avenges(Unit(g, Across(t)))
<1>1. /\ Across(t) \in Places
      /\ SameUnit(Unit(f, t), Unit(g, Across(t)), d[t], m[t])
      /\ Unit(g, Across(t)) = NoUnit <=> Unit(f, t) = NoUnit
      /\ Unit(g, Across(t)).card = Unit(f, t).card /\ Unit(g, Across(t)).hp = Unit(f, t).hp
  BY AcrossAndBack, TwinUnit
<1>2. Across(t) \in Dead(g) <=> t \in Dead(f)
  BY <1>1 DEF Dead, Standing
<1>3. ASSUME t \in Dead(f)
      PROVE  /\ Unit(f, t).card \in PlainCards
             /\ ~Avenges(Unit(f, t)) /\ ~Avenges(Unit(g, Across(t)))
  <2>1. Unit(f, t).card \in PlainCards
    BY <1>1, <1>3 DEF SameUnit, Dead, Standing
  <2> QED
    BY <1>1, <2>1 DEF PlainCards, Avenges
<1> QED
  BY <1>1, <1>2, <1>3

LEMMA LevelDying ==
  ASSUME NEW f0, NEW g0, Twin(f0, g0, Zero, Zero), NEW t \in Places,
         NEW f, NEW g, NEW e, NEW c, Level(f, g, e, c), \A p \in Players : e[p] \in Int,
         NEW x \in Dying(f0, f, t)
  PROVE  \E y \in Dying(g0, g, Across(t)) : Level(x, y, e, c)
<1>1. /\ Across(t) \in Places /\ f \in Battlefields /\ g \in Battlefields
      /\ Across(t) \in Dead(g0) <=> t \in Dead(f0)
  BY AcrossAndBack, TwinDead DEF Level
<1>2. CASE t \notin Dead(f0)
  BY <1>1, <1>2 DEF Dying
<1>3. CASE t \in Dead(f0)
  <2> DEFINE d == Unit(f0, t).card
  <2>1. d \in PlainCards /\ d \in Cards /\ Unit(g0, Across(t)).card = d
    BY <1>3, TwinDead DEF PlainCards
  <2>2. PICK r \in FireTrigger("on_death", d, f, t, t) : x = Remove(r, {t})
    BY <1>3 DEF Dying
  <2> HIDE DEF d
  <2>3. PICK q \in FireTrigger("on_death", d, g, Across(t), Across(t)) : Level(r, q, e, c)
    BY <2>1, <2>2, LevelFire
  <2>4. r \in Battlefields /\ q \in Battlefields
    BY <2>3 DEF Level
  <2>5. PICK b \in Boards : Remove(r, {t}) = [r EXCEPT !.board = b]
    BY <2>4, UnitRemoved
  <2>6. PICK b2 \in Boards : Remove(q, {Across(t)}) = [q EXCEPT !.board = b2]
    BY <1>1, <2>4, UnitRemoved
  <2>7. x \in Battlefields /\ x.cap = r.cap /\ x.health = r.health
    <3>1. x = [r EXCEPT !.board = b]
      BY <2>2, <2>5
    <3>2. r \in Battlefields /\ b \in Boards
      BY <2>4
    <3> QED
      BY <3>1, <3>2 DEF Battlefields, Boards
  <2> DEFINE y == Remove(q, {Across(t)})
  <2>8. y \in Battlefields /\ y.cap = q.cap /\ y.health = q.health
    <3>1. q \in Battlefields /\ b2 \in Boards
      BY <2>4
    <3> QED
      BY <2>6, <3>1 DEF Battlefields, Boards
  <2>9. y \in Dying(g0, g, Across(t))
    BY <1>1, <1>3, <2>1, <2>3 DEF Dying
  <2> HIDE DEF y
  <2>10. Level(x, y, e, c)
    BY <2>3, <2>7, <2>8 DEF Level
  <2> QED
    BY <2>9, <2>10
<1> QED
  BY <1>2, <1>3

\* The offsets of two battlefields.
LEMMA LevelFound ==
  ASSUME NEW f \in Battlefields, NEW g \in Battlefields
  PROVE  \E e, c : /\ Level(f, g, e, c) /\ \A p \in Players : e[p] \in Int
                   /\ \A p \in Players : e[p] = g.health[Opponent(p)] - f.health[p]
                   /\ c = g.cap - f.cap
<1> DEFINE e == [p \in Players |-> g.health[Opponent(p)] - f.health[p]]
           c == g.cap - f.cap
<1>1. f.cap \in Int /\ g.cap \in Int /\ \A p \in Players : f.health[p] \in Int /\ g.health[p] \in Int
  BY DEF Battlefields
<1>2. \A p \in Players : Opponent(p) \in Players
  BY DEF Players, Opponent
<1>3. \A p \in Players : e[p] \in Int /\ e[p] = g.health[Opponent(p)] - f.health[p]
  BY <1>1, <1>2
<1>4. g.cap = f.cap + c
  BY <1>1
<1> HIDE DEF e, c
<1>5. \A p \in Players : g.health[Opponent(p)] = f.health[p] + e[p]
  BY <1>1, <1>2, <1>3
<1>6. Level(f, g, e, c)
  BY <1>4, <1>5 DEF Level
<1> QED
  BY <1>3, <1>6 DEF c

LEMMA DyingPair ==
  ASSUME NEW f0, NEW g0, Twin(f0, g0, Zero, Zero),
         NEW a \in Places, NEW b \in Places, b = Across(a), a # b,
         NEW x0, NEW y0, Twin(x0, y0, Zero, Zero), NEW x1 \in Dying(f0, x0, a), NEW x2 \in Dying(f0, x1, b)
  PROVE  \E y1 \in Dying(g0, y0, a) : \E y2 \in Dying(g0, y1, b) : Twin(x2, y2, Zero, Zero)
<1>1. Across(a) = b /\ Across(b) = a
  BY AcrossAndBack
<1>2. /\ f0 \in Battlefields /\ g0 \in Battlefields /\ x0 \in Battlefields /\ y0 \in Battlefields
      /\ x1 \in Battlefields /\ x2 \in Battlefields
  <2>1. f0 \in Battlefields /\ g0 \in Battlefields /\ x0 \in Battlefields /\ y0 \in Battlefields
    BY DEF Twin
  <2>2. x1 \in Battlefields
    BY <2>1, DyingKeeps
  <2> QED
    BY <2>1, <2>2, DyingKeeps
<1>3. PICK e1, c1 : /\ Level(x1, y0, e1, c1) /\ \A p \in Players : e1[p] \in Int
                    /\ \A p \in Players : e1[p] = y0.health[Opponent(p)] - x1.health[p]
                    /\ c1 = y0.cap - x1.cap
  BY <1>2, LevelFound
<1>4. PICK y1 \in Dying(g0, y0, Across(b)) : Level(x2, y1, e1, c1)
  BY <1>3, LevelDying
<1>5. y1 \in Battlefields
  BY <1>4 DEF Level
<1>6. PICK e2, c2 : /\ Level(x0, y1, e2, c2) /\ \A p \in Players : e2[p] \in Int
                    /\ \A p \in Players : e2[p] = y1.health[Opponent(p)] - x0.health[p]
                    /\ c2 = y1.cap - x0.cap
  BY <1>2, <1>5, LevelFound
<1>7. PICK y2 \in Dying(g0, y1, Across(a)) : Level(x1, y2, e2, c2)
  BY <1>6, LevelDying
<1>8. y2 \in Battlefields
  BY <1>7 DEF Level
<1>9. ASSUME NEW p \in Players PROVE y2.health[Opponent(p)] = x2.health[p]
  <2> DEFINE q == Opponent(p)
  <2>1. q \in Players
    BY DEF Players, Opponent
  <2>2. /\ x0.health[p] \in Int /\ x1.health[p] \in Int /\ x2.health[p] \in Int
        /\ y0.health[q] \in Int /\ y1.health[q] \in Int /\ y2.health[q] \in Int
    BY <1>2, <1>5, <1>8, <2>1 DEF Battlefields
  <2>3. /\ y0.health[q] = x0.health[p]
        /\ e1[p] = y0.health[q] - x1.health[p] /\ y1.health[q] = x2.health[p] + e1[p]
        /\ e2[p] = y1.health[q] - x0.health[p] /\ y2.health[q] = x1.health[p] + e2[p]
    BY <1>3, <1>4, <1>6, <1>7 DEF Level, Twin
  <2> HIDE DEF q
  <2>4. y2.health[q] = x2.health[p]
    BY <2>2, <2>3
  <2> QED
    BY <2>4 DEF q
<1>10. y2.cap = x2.cap
  <2>1. /\ x0.cap \in Int /\ x1.cap \in Int /\ x2.cap \in Int
        /\ y0.cap \in Int /\ y1.cap \in Int /\ y2.cap \in Int
    BY <1>2, <1>5, <1>8 DEF Battlefields
  <2>2. /\ y0.cap = x0.cap
        /\ c1 = y0.cap - x1.cap /\ y1.cap = x2.cap + c1
        /\ c2 = y1.cap - x0.cap /\ y2.cap = x1.cap + c2
    BY <1>3, <1>4, <1>6, <1>7 DEF Level, Twin
  <2> QED
    BY <2>1, <2>2
<1>11. ASSUME NEW s \in Places PROVE SameUnit(x2.board[s], y2.board[Across(s)], Zero[s], Zero[s])
  <2>1. \A r \in Places : /\ r \in Dead(f0) => ~Avenges(Unit(f0, r))
                          /\ Across(r) \in Dead(g0) => ~Avenges(Unit(g0, Across(r)))
                          /\ Across(r) \in Dead(g0) <=> r \in Dead(f0)
    BY TwinDead
  <2>2. \A r \in Places : x1.board[r] = IF r = a /\ a \in Dead(f0) THEN NoUnit ELSE x0.board[r]
    BY <1>2, <2>1, DyingQuietly
  <2>3. \A r \in Places : x2.board[r] = IF r = b /\ b \in Dead(f0) THEN NoUnit ELSE x1.board[r]
    BY <1>2, <2>1, DyingQuietly
  <2>4. /\ b \in Dead(g0) => ~Avenges(Unit(g0, b))
        /\ a \in Dead(g0) => ~Avenges(Unit(g0, a))
        /\ b \in Dead(g0) <=> a \in Dead(f0)
        /\ a \in Dead(g0) <=> b \in Dead(f0)
    BY <1>1, <2>1
  <2>5. \A r \in Places : y1.board[r] = IF r = a /\ a \in Dead(g0) THEN NoUnit ELSE y0.board[r]
    <3>1. y1 \in Dying(g0, y0, a)
      BY <1>1, <1>4
    <3> QED
      BY <1>2, <2>4, <3>1, DyingQuietly
  <2>6. \A r \in Places : y2.board[r] = IF r = b /\ b \in Dead(g0) THEN NoUnit ELSE y1.board[r]
    <3>1. y2 \in Dying(g0, y1, b)
      BY <1>1, <1>7
    <3> QED
      BY <1>2, <1>5, <2>4, <3>1, DyingQuietly
  <2>7. /\ Across(s) \in Places
        /\ Across(s) = a <=> s = b
        /\ Across(s) = b <=> s = a
    BY <1>1, AcrossAndBack
  <2>8. SameUnit(x0.board[s], y0.board[Across(s)], Zero[s], Zero[s])
    BY DEF Twin
  <2>9. SameUnit(NoUnit, NoUnit, Zero[s], Zero[s])
    BY DEF SameUnit
  <2>10. x2.board[s] = IF (s = a /\ a \in Dead(f0)) \/ (s = b /\ b \in Dead(f0)) THEN NoUnit ELSE x0.board[s]
    BY <2>2, <2>3
  <2>11. y2.board[Across(s)] =
           IF (s = a /\ a \in Dead(f0)) \/ (s = b /\ b \in Dead(f0)) THEN NoUnit ELSE y0.board[Across(s)]
    BY <2>4, <2>5, <2>6, <2>7
  <2> QED
    BY <2>8, <2>9, <2>10, <2>11
<1>12. Twin(x2, y2, Zero, Zero)
  BY <1>2, <1>8, <1>9, <1>10, <1>11 DEF Twin
<1> QED
  BY <1>1, <1>4, <1>7, <1>12

LEMMA TwinWave ==
  ASSUME NEW f, NEW g, Twin(f, g, Zero, Zero), NEW x \in Wave(f)
  PROVE  \E y \in Wave(g) : Twin(x, y, Zero, Zero)
<1> DEFINE n == 2 * NCols
<1>1. n \in Nat /\ Len(Order) = n + n
  BY OrderInPairs
<1>2. f \in Battlefields /\ g \in Battlefields
  BY DEF Twin
<1>3. PICK h : WaveChain(h, f)
  BY <1>2, WaveTurns
<1>4. PICK k : WaveChain(k, g)
  BY <1>2, WaveTurns
<1> DEFINE S == {i \in 0..n : \A z \in h[2 * i] : \E y \in k[2 * i] : Twin(z, y, Zero, Zero)}
<1>5. 0 \in S
  <2>1. 2 * 0 = 0 /\ h[0] = {f} /\ k[0] = {g} /\ 0 \in 0..n
    BY <1>1, <1>3, <1>4 DEF WaveChain
  <2> HIDE DEF n
  <2> QED
    BY <2>1
<1>6. ASSUME NEW i \in 1..n, i - 1 \in S PROVE i \in S
  <2> DEFINE a == Order[2 * i - 1]
             b == Order[2 * i]
             j == 2 * (i - 1)
  <2>1. a \in Places /\ b \in Places /\ b = Across(a) /\ a # b
    <3>1. 1 \in Players
      BY DEF Players
    <3> QED
      BY <3>1, LeftInPairs
  <2>2. /\ i \in 0..n /\ 2 * i - 1 \in 1..Len(Order) /\ 2 * i \in 1..Len(Order)
        /\ (2 * i - 1) - 1 = j /\ 2 * i - 1 = j + 1 /\ 2 * i = j + 2
    <3> HIDE DEF n
    <3> QED
      BY <1>1
  <2> HIDE DEF n, a, b
  <2>3. /\ \A z : z \in h[2 * i - 1] <=> \E w \in h[j] : z \in Dying(f, w, a)
        /\ \A z : z \in h[2 * i] <=> \E w \in h[2 * i - 1] : z \in Dying(f, w, b)
    BY <1>3, <2>2 DEF WaveChain, a, b
  <2>4. /\ \A z : z \in k[2 * i - 1] <=> \E w \in k[j] : z \in Dying(g, w, a)
        /\ \A z : z \in k[2 * i] <=> \E w \in k[2 * i - 1] : z \in Dying(g, w, b)
    BY <1>4, <2>2 DEF WaveChain, a, b
  <2>5. ASSUME NEW x2 \in h[2 * i] PROVE \E y \in k[2 * i] : Twin(x2, y, Zero, Zero)
    <3>1. PICK x1 \in h[2 * i - 1] : x2 \in Dying(f, x1, b)
      BY <2>3
    <3>2. PICK x0 \in h[j] : x1 \in Dying(f, x0, a)
      BY <2>3
    <3>3. PICK y0 \in k[j] : Twin(x0, y0, Zero, Zero)
      BY <1>6
    <3>4. PICK y1 \in Dying(g, y0, a) : \E y2 \in Dying(g, y1, b) : Twin(x2, y2, Zero, Zero)
      BY <2>1, <3>1, <3>2, <3>3, DyingPair
    <3>5. PICK y2 \in Dying(g, y1, b) : Twin(x2, y2, Zero, Zero)
      BY <3>4
    <3> QED
      BY <2>4, <3>3, <3>4, <3>5
  <2> QED
    BY <2>2, <2>5
<1> HIDE DEF S
<1>7. n \in S
  BY <1>1, <1>5, <1>6, StepByStep
<1>8. h[2 * n] = Wave(f) /\ k[2 * n] = Wave(g)
  <2>1. 2 * n = Len(Order)
    BY <1>1
  <2> QED
    BY <1>3, <1>4, <2>1 DEF WaveChain
<1> HIDE DEF n
<1> QED
  BY <1>7, <1>8 DEF S

(***************************************************************************)
(* The tick, seen from the other side.                                     *)
(***************************************************************************)

LEMMA WaveKeeps ==
  ASSUME NEW f \in Battlefields
  PROVE  Wave(f) \subseteq Battlefields
<1> DEFINE n == Len(Order)
<1>1. PICK h : WaveChain(h, f)
  BY WaveTurns
<1>2. n \in Nat
  BY OrderOfPlaces
<1> DEFINE S == {i \in 0..n : h[i] \subseteq Battlefields}
<1>3. 0 \in S
  BY <1>1, <1>2 DEF WaveChain
<1>4. ASSUME NEW i \in 1..n, i - 1 \in S PROVE i \in S
  <2>1. i \in 0..n /\ Order[i] \in Places
    BY <1>2, OrderOfPlaces
  <2>2. \A x : x \in h[i] <=> \E g \in h[i - 1] : x \in Dying(f, g, Order[i])
    BY <1>1 DEF WaveChain
  <2>3. ASSUME NEW x \in h[i] PROVE x \in Battlefields
    <3>1. PICK g \in h[i - 1] : x \in Dying(f, g, Order[i])
      BY <2>2
    <3>2. g \in Battlefields
      BY <1>4
    <3> QED
      BY <2>1, <3>1, <3>2, DyingKeeps
  <2> QED
    BY <2>1, <2>3
<1> HIDE DEF S
<1>5. n \in S
  BY <1>2, <1>3, <1>4, StepByStep
<1> QED
  BY <1>1, <1>5 DEF S, WaveChain

\* What h keeps for i: what can come of the first i waves.
DeathChain(h, f) ==
  /\ ProcessDeaths(f) = h[MaxWaves]
  /\ h[0] = {f}
  /\ \A i \in 1..MaxWaves : \A x : x \in h[i] <=> \E g \in h[i - 1] : x \in Wave(g)

LEMMA DeathTurns ==
  ASSUME NEW f \in Battlefields, Dead(f) # {}
  PROVE  \E h : DeathChain(h, f)
<1> DEFINE s == [i \in 1..MaxWaves |-> i]
           n == Len(s)
           X == [i \in 0..n |-> Battlefields]
           wave(g, i) == Wave(g)
           step == [i \in 1..n |-> [g \in X[i - 1] |-> wave(g, s[i])]]
           Then(h, i) == UNION {wave(g, s[i]) : g \in h[i - 1]}
           Eq(h) == h = [i \in 0..n |-> IF i = 0 THEN {f} ELSE Then(h, i)]
           after == CHOOSE h : Eq(h)
<1>1. ProcessDeaths(f) = after[n]
  BY DEF ProcessDeaths, InTurn
<1>20. n = MaxWaves /\ n \in Nat
  BY StatsAreNats
<1>2. n \in Nat /\ X[0] = Battlefields /\ f \in X[0]
      /\ \A i \in 1..n : X[i] = Battlefields /\ X[i - 1] = Battlefields
  <2>1. \A i \in 0..n : X[i] = Battlefields
    OBVIOUS
  <2>2. 0 \in 0..n /\ \A i \in 1..n : i \in 0..n /\ i - 1 \in 0..n
    <3> HIDE DEF n, s, X
    <3> QED
      BY <1>20
  <2> HIDE DEF n, s, X
  <2> QED
    BY <1>20, <2>1, <2>2
<1>3. ASSUME NEW i \in 1..n, NEW g \in X[i - 1] PROVE wave(g, s[i]) \subseteq X[i]
  <2>1. g \in Battlefields /\ X[i] = Battlefields
    BY <1>2
  <2> HIDE DEF s, n, X
  <2> QED
    BY <2>1, WaveKeeps
<1> HIDE DEF wave, s, n, X
<1>4. \A i \in 1..n : \A g \in X[i - 1] : step[i][g] = wave(g, s[i])
  OBVIOUS
<1>5. \A i \in 1..n : \A g \in X[i - 1] : step[i][g] \subseteq X[i]
  BY <1>3, <1>4
<1> HIDE DEF step
<1>6. PICK h : Turns(h, X, n, f, step)
  BY <1>2, <1>5, TurnsExist
<1>7. \A i \in 1..n : i \in 0..n /\ i - 1 \in 0..n /\ i # 0
  BY <1>2
<1>8. ASSUME NEW i \in 1..n PROVE h[i] = Then(h, i)
  <2>1. \A g \in h[i - 1] : step[i][g] = wave(g, s[i])
    BY <1>4, <1>6, <1>7 DEF Turns
  <2>2. ASSUME NEW x PROVE x \in h[i] <=> \E g \in h[i - 1] : x \in wave(g, s[i])
    <3>1. x \in h[i] <=> \E g \in h[i - 1] : x \in step[i][g]
      BY <1>6 DEF Turns
    <3> QED
      BY <2>1, <3>1
  <2> QED
    BY <2>2
<1> HIDE DEF Then
<1>12. Eq(h)
  BY <1>2, <1>6, <1>7, <1>8 DEF Turns
<1>13. Eq(after)
  BY <1>12
<1>14. after[0] = {f}
  <2>1. 0 \in 0..n
    BY <1>2
  <2> QED
    BY <2>1, <1>13
<1>15. ASSUME NEW i \in 1..n, NEW x
      PROVE  x \in after[i] <=> \E g \in after[i - 1] : x \in wave(g, s[i])
  <2>1. after[i] = Then(after, i)
    BY <1>7, <1>13
  <2> HIDE DEF after
  <2> QED
    BY <2>1 DEF Then
<1> HIDE DEF after
<1>16. DeathChain(after, f)
  <2>1. \A g, t : wave(g, t) = Wave(g)
    BY DEF wave
  <2> QED
    BY <1>1, <1>14, <1>15, <1>20, <2>1 DEF DeathChain
<1> QED
  BY <1>16

LEMMA TwinDeaths ==
  ASSUME NEW f, NEW g, Twin(f, g, Zero, Zero), NEW x \in ProcessDeaths(f)
  PROVE  \E y \in ProcessDeaths(g) : Twin(x, y, Zero, Zero)
<1>1. f \in Battlefields /\ g \in Battlefields
  BY DEF Twin
<1>2. Dead(f) = {} <=> Dead(g) = {}
  <2>1. \A t \in Places : Across(t) \in Dead(g) <=> t \in Dead(f)
    BY TwinDead
  <2>2. \A t : (t \in Dead(f) => t \in Places) /\ (t \in Dead(g) => t \in Places)
    BY DEF Dead, Standing
  <2> QED
    BY <2>1, <2>2, AcrossAndBack
<1>3. CASE Dead(f) = {}
  BY <1>2, <1>3 DEF ProcessDeaths
<1>4. CASE Dead(f) # {}
  <2>1. PICK h : DeathChain(h, f)
    BY <1>1, <1>4, DeathTurns
  <2>2. PICK k : DeathChain(k, g)
    BY <1>1, <1>2, <1>4, DeathTurns
  <2>3. MaxWaves \in Nat
    BY StatsAreNats
  <2> DEFINE S == {i \in 0..MaxWaves : \A z \in h[i] : \E y \in k[i] : Twin(z, y, Zero, Zero)}
  <2>4. 0 \in S
    BY <2>1, <2>2, <2>3 DEF DeathChain
  <2>5. ASSUME NEW i \in 1..MaxWaves, i - 1 \in S PROVE i \in S
    <3>1. i \in 0..MaxWaves
      BY <2>3
    <3>2. /\ \A z : z \in h[i] <=> \E r \in h[i - 1] : z \in Wave(r)
          /\ \A z : z \in k[i] <=> \E r \in k[i - 1] : z \in Wave(r)
      BY <2>1, <2>2 DEF DeathChain
    <3>3. ASSUME NEW z \in h[i] PROVE \E y \in k[i] : Twin(z, y, Zero, Zero)
      <4>1. PICK r \in h[i - 1] : z \in Wave(r)
        BY <3>2
      <4>2. PICK q \in k[i - 1] : Twin(r, q, Zero, Zero)
        BY <2>5
      <4>3. PICK y \in Wave(q) : Twin(z, y, Zero, Zero)
        BY <4>1, <4>2, TwinWave
      <4> QED
        BY <3>2, <4>2, <4>3
    <3> QED
      BY <3>1, <3>3
  <2> HIDE DEF S
  <2>6. MaxWaves \in S
    BY <2>3, <2>4, <2>5, StepByStep
  <2> QED
    BY <2>1, <2>2, <2>6 DEF S, DeathChain
<1> QED
  BY <1>3, <1>4

LEMMA MirrorOf ==
  ASSUME NEW f, NEW b, NEW h, NEW c, f = [board |-> b, health |-> h, cap |-> c]
  PROVE  Mirror(f) = [board |-> [t \in Places |-> f.board[Across(t)]],
                      health |-> [p \in Players |-> f.health[Opponent(p)]], cap |-> f.cap]
<1> DEFINE B == [t \in Places |-> f.board[Across(t)]]
           H == [p \in Players |-> f.health[Opponent(p)]]
<1>1. Mirror(f) = [f EXCEPT !.board = B, !.health = H]
  BY DEF Mirror, Across
<1> HIDE DEF B, H
<1>2. PICK r : r = [f EXCEPT !.board = B]
  OBVIOUS
<1>3. r = [board |-> B, health |-> h, cap |-> c]
  BY <1>2
<1>5. [r EXCEPT !.health = H] = [board |-> B, health |-> H, cap |-> c]
  BY <1>3
<1>4. [f EXCEPT !.board = B, !.health = H] = [board |-> B, health |-> H, cap |-> c]
  BY <1>2, <1>5, Zenon
<1> QED
  BY <1>1, <1>4 DEF B, H

LEMMA MirrorParts ==
  ASSUME NEW f \in Battlefields
  PROVE  /\ Mirror(f) \in Battlefields /\ Mirror(f).cap = f.cap
         /\ \A t \in Places : Mirror(f).board[t] = f.board[Across(t)]
         /\ \A p \in Players : Mirror(f).health[p] = f.health[Opponent(p)]
         /\ Mirror(Mirror(f)) = f
<1> DEFINE g == Mirror(f)
<1>1. /\ f = [board |-> f.board, health |-> f.health, cap |-> f.cap]
      /\ f.board \in [Places -> Units \cup {NoUnit}] /\ f.health \in [Players -> Int] /\ f.cap \in Nat
  BY DEF Battlefields
<1>2. \A p \in Players : Opponent(p) \in Players /\ Opponent(Opponent(p)) = p
  BY DEF Players, Opponent
<1>3. \A t \in Places : Across(t) \in Places /\ Across(Across(t)) = t
  BY AcrossAndBack
<1>4. /\ g = [board |-> [t \in Places |-> f.board[Across(t)]],
              health |-> [p \in Players |-> f.health[Opponent(p)]], cap |-> f.cap]
  BY <1>1, MirrorOf DEF g
<1> HIDE DEF g
<1>5. /\ g.cap = f.cap
      /\ \A t \in Places : g.board[t] = f.board[Across(t)]
      /\ \A p \in Players : g.health[p] = f.health[Opponent(p)]
  BY <1>4
<1>6. g \in Battlefields
  BY <1>1, <1>2, <1>3, <1>4 DEF Battlefields
<1>7. Mirror(g) = f
  <2>1. Mirror(g) = [board |-> [t \in Places |-> g.board[Across(t)]],
                     health |-> [p \in Players |-> g.health[Opponent(p)]], cap |-> g.cap]
    <3> DEFINE bb == [t \in Places |-> f.board[Across(t)]]
               hh == [p \in Players |-> f.health[Opponent(p)]]
    <3>1. g = [board |-> bb, health |-> hh, cap |-> f.cap]
      BY <1>4
    <3> HIDE DEF bb, hh
    <3> QED
      BY <3>1, MirrorOf
  <2>2. [t \in Places |-> g.board[Across(t)]] = f.board
    <3>1. \A t \in Places : g.board[Across(t)] = f.board[t]
      BY <1>3, <1>5
    <3> QED
      BY <1>1, <3>1
  <2>3. [p \in Players |-> g.health[Opponent(p)]] = f.health
    <3>1. \A p \in Players : g.health[Opponent(p)] = f.health[p]
      BY <1>2, <1>5
    <3> QED
      BY <1>1, <3>1
  <2> QED
    BY <1>1, <1>5, <2>1, <2>2, <2>3
<1> QED
  BY <1>5, <1>6, <1>7 DEF g

\* Battlefields that look the same from the two sides, charges included, are mirror images.
LEMMA TwinIsMirror ==
  ASSUME NEW f, NEW g, Twin(f, g, Zero, Zero)
  PROVE  g = Mirror(f)
<1>1. /\ f \in Battlefields /\ g \in Battlefields /\ g.cap = f.cap
      /\ \A p \in Players : g.health[Opponent(p)] = f.health[p]
  BY DEF Twin
<1>2. ASSUME NEW t \in Places PROVE g.board[t] = f.board[Across(t)]
  <2> DEFINE s == Across(t)
             u == f.board[s]
             v == g.board[t]
  <2>1. s \in Places /\ Across(s) = t /\ Zero[s] = 0
    BY AcrossAndBack DEF Zero
  <2>2. SameUnit(u, v, 0, 0)
    BY <2>1 DEF Twin
  <2> HIDE DEF u, v
  <2>3. ASSUME u = NoUnit PROVE v = u
    BY <2>2, <2>3 DEF SameUnit
  <2>4. ASSUME u # NoUnit PROVE v = u
    <3>1. /\ u \in Units /\ v \in Units
          /\ v.card = u.card /\ v.atk = u.atk /\ v.hp = u.hp /\ v.shield = u.shield /\ v.total = u.total
          /\ v.left = u.left \/ v.left = u.left + 0
      BY <2>2, <2>4 DEF SameUnit
    <3>2. v.left = u.left
      BY <3>1 DEF Units
    <3>3. v = u
      BY <3>1, <3>2 DEF Units
    <3> QED
      BY <3>3
  <2>5. v = u
    BY <2>3, <2>4
  <2> QED
    BY <2>5 DEF u, v
<1>3. /\ Mirror(f) \in Battlefields /\ Mirror(f).cap = f.cap
      /\ \A t \in Places : Mirror(f).board[t] = f.board[Across(t)]
      /\ \A p \in Players : Mirror(f).health[p] = f.health[Opponent(p)]
  BY <1>1, MirrorParts
<1>4. \A p \in Players : Opponent(p) \in Players /\ Opponent(Opponent(p)) = p
  BY DEF Players, Opponent
<1> DEFINE m == Mirror(f)
<1>5. /\ \A t \in Places : g.board[t] = m.board[t]
      /\ \A p \in Players : g.health[p] = m.health[p]
      /\ g.cap = m.cap /\ m \in Battlefields
  BY <1>1, <1>2, <1>3, <1>4
<1> HIDE DEF m
<1>6. g.board = m.board /\ g.health = m.health
  BY <1>1, <1>5 DEF Battlefields
<1>7. g = m
  BY <1>1, <1>5, <1>6 DEF Battlefields
<1> QED
  BY <1>7 DEF m

\* Only plain cards stand on f, and only units of p are about to strike.
OneSided(f, p) ==
  /\ f \in Battlefields /\ ChargesAreFull(f)
  /\ \A t \in Places : f.board[t] # NoUnit =>
       /\ f.board[t].card \in PlainCards
       /\ f.board[t].left = 1 => t[1] = p

LEMMA OneSidedMirror ==
  ASSUME NEW f, NEW p \in Players, OneSided(f, p)
  PROVE  /\ OneSided(Mirror(f), Opponent(p))
         /\ Twin(f, Mirror(f), Zero, Left(p, 0))
<1> DEFINE g == Mirror(f)
<1>1. f \in Battlefields /\ ChargesAreFull(f)
  BY DEF OneSided
<1>2. /\ g \in Battlefields /\ g.cap = f.cap
      /\ \A t \in Places : g.board[t] = f.board[Across(t)]
      /\ \A q \in Players : g.health[q] = f.health[Opponent(q)]
  BY <1>1, MirrorParts
<1> HIDE DEF g
<1>3. \A t \in Places : /\ Across(t) \in Places /\ Across(Across(t)) = t
                        /\ Across(t)[1] = Opponent(t[1]) /\ Opponent(Opponent(t[1])) = t[1]
  BY AcrossAndBack
<1>4. OneSided(g, Opponent(p))
  <2>1. ChargesAreFull(g)
    BY <1>1, <1>2, <1>3 DEF ChargesAreFull
  <2>2. ASSUME NEW t \in Places, g.board[t] # NoUnit
        PROVE  g.board[t].card \in PlainCards /\ (g.board[t].left = 1 => t[1] = Opponent(p))
    BY <1>2, <1>3, <2>2 DEF OneSided
  <2> QED
    BY <1>2, <2>1, <2>2 DEF OneSided
<1>5. \A q \in Players : Opponent(q) \in Players /\ Opponent(Opponent(q)) = q
  BY DEF Players, Opponent
<1>6. ASSUME NEW t \in Places
      PROVE  SameUnit(f.board[t], g.board[Across(t)], Zero[t], Left(p, 0)[t])
  <2> DEFINE u == f.board[t]
  <2>1. g.board[Across(t)] = u /\ Zero[t] = 0
    BY <1>2, <1>3 DEF Zero
  <2>2. Left(p, 0)[t] = IF t[1] = p THEN 1 ELSE 2
    <3>1. 1..(2 * 0) = {}
      OBVIOUS
    <3> QED
      BY <3>1 DEF Left
  <2>3. u # NoUnit => /\ u \in Units /\ u.card \in PlainCards /\ Charged(u)
                      /\ u.left = 1 => t[1] = p
    BY <1>1 DEF OneSided, ChargesAreFull, Battlefields
  <2> HIDE DEF u
  <2>4. u # NoUnit /\ u.total # 0 => u.left \in Nat /\ 1 <= u.left
    BY <2>3 DEF Charged, Units
  <2>5. SameUnit(u, u, 0, Left(p, 0)[t])
    BY <2>2, <2>3, <2>4 DEF SameUnit
  <2> QED
    BY <2>1, <2>5 DEF u
<1>7. Twin(f, g, Zero, Left(p, 0))
  BY <1>1, <1>2, <1>5, <1>6 DEF Twin
<1> QED
  BY <1>4, <1>7 DEF g

\* What a tick does on one side, it does on the other.
LEMMA TickMirrors ==
  ASSUME NEW f, NEW p \in Players, OneSided(f, p), NEW x \in TickBoard(f)
  PROVE  x \in Battlefields /\ Mirror(x) \in TickBoard(Mirror(f))
<1> DEFINE g == Mirror(f)
<1>1. Twin(f, g, Zero, Left(p, 0)) /\ ChargesAreFull(f) /\ ChargesAreFull(g)
  BY OneSidedMirror DEF OneSided
<1> HIDE DEF g
<1>2. PICK r \in InTurn(TickUnit, f, Order) : x \in ProcessDeaths(r)
  BY DEF TickBoard
<1>3. PICK q \in InTurn(TickUnit, g, Order) : Twin(r, q, Zero, Zero)
  BY <1>1, <1>2, TwinTurns
<1>4. PICK y \in ProcessDeaths(q) : Twin(x, y, Zero, Zero)
  BY <1>2, <1>3, TwinDeaths
<1>5. y \in TickBoard(g)
  BY <1>3, <1>4 DEF TickBoard
<1>6. x \in Battlefields /\ y = Mirror(x)
  BY <1>4, TwinIsMirror DEF Twin
<1> QED
  BY <1>5, <1>6 DEF g

LEMMA MirroredTicks ==
  ASSUME NEW f, NEW p \in Players, OneSided(f, p)
  PROVE  {Mirror(h) : h \in TickBoard(f)} = TickBoard(Mirror(f))
<1>1. \A h \in TickBoard(f) : Mirror(h) \in TickBoard(Mirror(f))
  BY TickMirrors
<1>2. ASSUME NEW y \in TickBoard(Mirror(f)) PROVE \E h \in TickBoard(f) : y = Mirror(h)
  <2>1. Opponent(p) \in Players /\ OneSided(Mirror(f), Opponent(p))
    BY OneSidedMirror DEF Players, Opponent
  <2>2. Mirror(Mirror(f)) = f
    BY MirrorParts DEF OneSided
  <2>3. y \in Battlefields /\ Mirror(y) \in TickBoard(f)
    BY <2>1, <2>2, TickMirrors
  <2>4. Mirror(Mirror(y)) = y
    BY <2>3, MirrorParts
  <2> QED
    BY <2>3, <2>4
<1> QED
  BY <1>1, <1>2

(***************************************************************************)
(* The invariant.                                                          *)
(***************************************************************************)

\* ChargesRun, in terms of fields.
LEMMA FieldCharges ==
  TypeOK => (ChargesRun <=> \A c \in Nat : c <= field.cap => field \in Fields(c))
<1> SUFFICES ASSUME TypeOK
             PROVE  ChargesRun <=> \A c \in Nat : c <= field.cap => field \in Fields(c)
  OBVIOUS
<1>1. field \in Battlefields /\ field.cap \in Nat
  BY DEF TypeOK, Battlefields
<1>2. ChargesRun <=> \A t \in Places : field.board[t] # NoUnit => Charged(field.board[t])
  BY DEF ChargesRun, Standing, Unit, Charged
<1>3. \A c \in Nat : field \in Fields(c) <=>
        c <= field.cap /\ \A t \in Places : field.board[t] # NoUnit => Charged(field.board[t])
  BY <1>1 DEF Fields
<1>4. field.cap <= field.cap
  BY <1>1
<1> QED
  BY <1>1, <1>2, <1>3, <1>4

LEMMA InitCombat == Init => CombatInv
<1> SUFFICES ASSUME Init PROVE CombatInv
  OBVIOUS
<1>1. TypeOK
  <2>1. StartingElixirCap \in Nat /\ LeaderHealth \in Int /\ StartingElixir * MilliElixirPerElixir \in Int
    BY StatsAreNats, StartIsWithinCap
  <2>2. field \in Battlefields
    BY <2>1 DEF Init, Battlefields
  <2> QED
    BY <2>1, <2>2, StatsAreNats DEF Init, TypeOK
<1>2. ElixirIsPaid
  <2>1. StartingElixir * MilliElixirPerElixir \in Nat /\ StartingElixirCap * MilliElixirPerElixir \in Nat
    BY StatsAreNats, StartIsWithinCap
  <2>2. StartingElixir * MilliElixirPerElixir <= StartingElixirCap * MilliElixirPerElixir
    BY StatsAreNats, StartIsWithinCap
  <2>3. field.cap = StartingElixirCap
    BY DEF Init
  <2> QED
    BY <2>1, <2>2, <2>3 DEF Init, ElixirIsPaid
<1>3. ChargesRun
  BY DEF Init, ChargesRun, Standing, Unit
<1> QED
  BY <1>1, <1>2, <1>3 DEF CombatInv

\* More cap is room for more elixir.
LEMMA CapsCompare ==
  ASSUME NEW c \in Nat, NEW d \in Nat, c <= d
  PROVE  /\ c * MilliElixirPerElixir \in Nat /\ d * MilliElixirPerElixir \in Nat
         /\ c * MilliElixirPerElixir <= d * MilliElixirPerElixir
BY StatsAreNats

\* A step that leaves the elixir within the old cap and the field a field.
LEMMA FieldStep ==
  ASSUME CombatInv,
         field' \in Fields(field.cap),
         phase' \in {"PRE_TURN", "ACTIVE", "GAME_OVER"},
         \A p \in Players : elixir'[p] \in 0..(field.cap * MilliElixirPerElixir),
         elixir' = [p \in Players |-> elixir'[p]],
         placed' \in 0..MaxPlaced,
         ticks' \in 0..MaxTicks
  PROVE  CombatInv'
<1>1. /\ field' \in Battlefields
      /\ field.cap <= field'.cap
      /\ \A t \in Places : field'.board[t] # NoUnit => Charged(field'.board[t])
  BY DEF Fields
<1>2. field.cap \in Nat /\ field'.cap \in Nat
  BY <1>1 DEF CombatInv, TypeOK, Battlefields
<1>3. \A p \in Players : elixir'[p] \in Int
  BY <1>2, StatsAreNats
<1>4. TypeOK'
  BY <1>1, <1>3 DEF TypeOK
<1>5. ElixirIsPaid'
  <2> DEFINE now == field.cap * MilliElixirPerElixir
             then == field'.cap * MilliElixirPerElixir
  <2>1. now \in Nat /\ then \in Nat /\ now <= then
    BY <1>1, <1>2, CapsCompare
  <2>2. \A p \in Players : elixir'[p] \in 0..now
    OBVIOUS
  <2> HIDE DEF now, then
  <2>3. \A p \in Players : elixir'[p] \in 0..then
    BY <2>1, <2>2
  <2> QED
    BY <2>3 DEF ElixirIsPaid, then
<1>6. ChargesRun'
  BY <1>1 DEF ChargesRun, Standing, Unit, Charged
<1> QED
  BY <1>4, <1>5, <1>6 DEF CombatInv

LEMMA FieldNow ==
  ASSUME CombatInv
  PROVE  /\ field.cap \in Nat
         /\ field \in Fields(field.cap)
         /\ \A p \in Players : elixir[p] \in 0..(field.cap * MilliElixirPerElixir)
         /\ elixir = [p \in Players |-> elixir[p]]
         /\ phase \in {"PRE_TURN", "ACTIVE", "GAME_OVER"}
         /\ placed \in 0..MaxPlaced /\ ticks \in 0..MaxTicks
<1>1. field.cap \in Nat /\ field.cap <= field.cap
  BY DEF CombatInv, TypeOK, Battlefields
<1> QED
  BY <1>1, FieldCharges DEF CombatInv, TypeOK, ElixirIsPaid

\* What TickKeeps says of a field with charged units, when nobody has to be guarded.
LEMMA TickCharges ==
  ASSUME NEW f, f.cap \in Nat, f \in Fields(f.cap), NEW h \in TickBoard(f)
  PROVE  /\ h \in Fields(f.cap)
         /\ Cardinality(Avengers(f)) < MaxWaves => \A t \in Standing(h, Places) : Unit(h, t).hp > 0
<1>1. f \in Battlefields /\ ChargesAreFull(f)
  BY DEF Fields, ChargesAreFull
<1>2. Guards(f, {})
  BY DEF Guards
<1>3. {} \in SUBSET Players
  OBVIOUS
<1>4. h \in Fields(f.cap) /\ (Cardinality(Avengers(f)) < MaxWaves => Dead(h) = {})
  BY <1>1, <1>2, <1>3, TickKeeps
<1>5. h \in Battlefields
  BY <1>4 DEF Fields
<1>6. ASSUME Dead(h) = {}, NEW t \in Standing(h, Places) PROVE Unit(h, t).hp > 0
  <2>1. Unit(h, t).hp \in Int
    BY <1>5, UnitAt
  <2> QED
    BY <1>6, <2>1 DEF Dead
<1> QED
  BY <1>4, <1>6

LEMMA ActiveTickKeeps ==
  ASSUME CombatInv, ActiveTick
  PROVE  CombatInv'
<1>1. field' \in Fields(field.cap)
  BY FieldNow, TickCharges DEF ActiveTick
<1>2. phase' \in {"PRE_TURN", "ACTIVE", "GAME_OVER"}
  BY FieldNow DEF ActiveTick, CheckWin
<1>3. elixir' = [p \in Players |-> elixir'[p]]
  BY DEF ActiveTick, TickElixir
<1>4. ASSUME NEW p \in Players PROVE elixir'[p] \in 0..(field.cap * MilliElixirPerElixir)
  <2> DEFINE most == field.cap * MilliElixirPerElixir
  <2>1. most \in Nat /\ MilliElixirPerTick \in Nat
    BY FieldNow, StatsAreNats
  <2>2. elixir[p] \in 0..most
    BY FieldNow
  <2>3. elixir'[p] = Lesser(most, elixir[p] + MilliElixirPerTick)
    BY DEF ActiveTick, TickElixir
  <2> HIDE DEF most
  <2>4. elixir'[p] \in 0..most
    BY <2>1, <2>2, <2>3 DEF Lesser
  <2> QED
    BY <2>4 DEF most
<1>5. placed' \in 0..MaxPlaced /\ ticks' \in 0..MaxTicks
  BY FieldNow, StatsAreNats DEF ActiveTick
<1> QED
  BY <1>1, <1>2, <1>3, <1>4, <1>5, FieldStep

LEMMA IdleTickKeeps ==
  ASSUME CombatInv, IdleTick
  PROVE  CombatInv'
<1>1. phase' \in {"PRE_TURN", "ACTIVE", "GAME_OVER"}
  BY FieldNow DEF IdleTick, CheckWin
<1> QED
  BY <1>1, FieldNow, FieldStep DEF IdleTick

\* A price is paid from elixir there is.
LEMMA PlayCardKeeps ==
  ASSUME CombatInv, NEW d \in Cards, NEW t \in Places, PlayCard(d, t),
         field' \in Fields(field.cap), phase' = phase, ticks' = ticks
  PROVE  CombatInv'
<1> DEFINE price == Definition[d].cost * MilliElixirPerElixir
<1>1. price \in Nat
  BY CardsHaveStats, StatsAreNats
<1>2. elixir[t[1]] >= price /\ elixir' = [elixir EXCEPT ![t[1]] = @ - price]
      /\ placed < MaxPlaced /\ placed' = placed + 1
  BY DEF PlayCard
<1> HIDE DEF price
<1>3. elixir' = [p \in Players |-> elixir'[p]]
  BY <1>2, FieldNow
<1>4. ASSUME NEW p \in Players PROVE elixir'[p] \in 0..(field.cap * MilliElixirPerElixir)
  <2> DEFINE most == field.cap * MilliElixirPerElixir
  <2>1. most \in Nat /\ elixir[p] \in 0..most
    BY FieldNow, StatsAreNats
  <2>2. elixir'[p] = IF p = t[1] THEN elixir[p] - price ELSE elixir[p]
    BY <1>2, FieldNow
  <2> HIDE DEF most
  <2>3. elixir'[p] \in 0..most
    BY <1>1, <1>2, <2>1, <2>2
  <2> QED
    BY <2>3 DEF most
<1>5. placed' \in 0..MaxPlaced
  BY <1>2, FieldNow, StatsAreNats
<1>6. phase' \in {"PRE_TURN", "ACTIVE", "GAME_OVER"} /\ ticks' \in 0..MaxTicks
  BY FieldNow
<1> QED
  BY <1>3, <1>4, <1>5, <1>6, FieldStep

LEMMA CardPlacedKeeps ==
  ASSUME CombatInv, NEW d \in PlayedCards, NEW t \in Places, CardPlaced(d, t)
  PROVE  CombatInv'
<1> DEFINE g == Put(field, t, NewUnit(d))
<1>1. d \in Cards
  BY CardsAreKnown
<1>2. g \in Fields(field.cap)
  BY <1>1, FieldNow, Placed
<1>3. t \in Standing(g, Places)
  BY <1>1, NewUnitCharges, NoUnitIsNone DEF Standing, Unit, Put
<1>4. \A f \in FireSummons(g, t) : f \in Fields(field.cap)
  <2>1. Unit(g, t).card \in Cards
    BY <1>2, <1>3, UnitAt DEF Fields
  <2> QED
    BY <1>2, <2>1, FieldNow, FireKeeps DEF FireSummons
<1>5. field' \in Fields(field.cap)
  BY <1>4 DEF CardPlaced
<1> QED
  BY <1>1, <1>5, PlayCardKeeps DEF CardPlaced

LEMMA DebugPlaceUnitKeeps ==
  ASSUME CombatInv, NEW d \in DebugUnits, NEW t \in Places, DebugPlaceUnit(d, t)
  PROVE  CombatInv'
<1>1. d \in Cards
  BY CardsAreKnown
<1>2. field' \in Fields(field.cap)
  BY <1>1, FieldNow, Placed DEF DebugPlaceUnit
<1> QED
  BY <1>1, <1>2, PlayCardKeeps DEF DebugPlaceUnit

LEMMA RoundsKeep ==
  ASSUME CombatInv, PreTurnEnd \/ RoundEnd
  PROVE  CombatInv'
<1>1. CASE PreTurnEnd
  BY <1>1, FieldNow, FieldStep DEF PreTurnEnd
<1>2. CASE RoundEnd
  <2>1. [field EXCEPT !.cap = @ + 1] \in Fields(field.cap)
    BY FieldNow, FieldsAreSteady DEF Steady
  <2>2. field' = field \/ field' = [field EXCEPT !.cap = @ + 1]
    <3>1. field = [field EXCEPT !.cap = field.cap]
      BY FieldNow DEF Fields, Battlefields
    <3> QED
      BY <1>2, <3>1 DEF RoundEnd
  <2>3. field' \in Fields(field.cap)
    BY <2>1, <2>2, FieldNow
  <2> QED
    BY <1>2, <2>3, FieldNow, FieldStep DEF RoundEnd
<1> QED
  BY <1>1, <1>2

LEMMA StepCombat == CombatInv /\ [Next]_vars => CombatInv'
<1> SUFFICES ASSUME CombatInv, [Next]_vars PROVE CombatInv'
  OBVIOUS
<1>1. CASE ActiveTick
  BY <1>1, ActiveTickKeeps
<1>2. CASE IdleTick
  BY <1>2, IdleTickKeeps
<1>3. CASE \E d \in PlayedCards, t \in Places : CardPlaced(d, t)
  BY <1>3, CardPlacedKeeps
<1>4. CASE \E d \in DebugUnits, t \in Places : DebugPlaceUnit(d, t)
  BY <1>4, DebugPlaceUnitKeeps
<1>5. CASE PreTurnEnd \/ RoundEnd
  BY <1>5, RoundsKeep
<1>6. CASE UNCHANGED vars
  BY <1>6, FieldNow, FieldStep DEF vars
<1> QED
  BY <1>1, <1>2, <1>3, <1>4, <1>5, <1>6 DEF Next

\* Whatever the cards and their abilities do to each other: no player pays with
\* elixir there is not or keeps more than the cap, and between two ticks every unit
\* that charges has a tick to go (PlayCard, TickElixir, TickBoard).
THEOREM CombatInvariant == Spec => []CombatInv
<1>1. Init => CombatInv
  BY InitCombat
<1>2. CombatInv /\ [Next]_vars => CombatInv'
  BY StepCombat
<1> QED
  BY <1>1, <1>2, PTL DEF Spec

\* No unit stays on a board without hit points after a tick (TickBoard, processDeaths),
\* for any cards: a wave after which somebody is dead has cost a unit that avenges
\* itself, so the waves suffice as long as there are fewer of those.
THEOREM DeadAlwaysLeave == Spec => DeadLeave
<1>1. ASSUME CombatInv, [Next]_vars, ticks' # ticks,
             Cardinality({t \in Standing(field, Places) : Avenges(Unit(field, t))}) < MaxWaves
      PROVE  \A t \in Standing(field', Places) : Unit(field', t).hp > 0
  <2>1. field' \in TickBoard(field)
    BY <1>1 DEF Next, vars, ActiveTick, IdleTick, CardPlaced, DebugPlaceUnit, PreTurnEnd, RoundEnd
  <2>2. Cardinality(Avengers(field)) < MaxWaves
    BY <1>1 DEF Avengers
  <2>3. field.cap \in Nat /\ field \in Fields(field.cap)
    BY <1>1, FieldNow
  <2>4. \A h \in TickBoard(field) : \A t \in Standing(h, Places) : Unit(h, t).hp > 0
    BY <2>2, <2>3, TickCharges
  <2> QED
    BY <2>1, <2>4
<1>2. CombatInv /\ [Next]_vars =>
        [/\ ticks' # ticks
         /\ Cardinality({t \in Standing(field, Places) : Avenges(Unit(field, t))}) < MaxWaves
         => \A t \in Standing(field', Places) : Unit(field', t).hp > 0]_vars
  BY <1>1
<1>3. Spec => [][Next]_vars
  BY PTL DEF Spec
<1> QED
  BY <1>2, <1>3, CombatInvariant, PTL DEF DeadLeave

\* A field where the leader of p has nothing to fear in the coming tick.
LEMMA LeaderIsSafe ==
  ASSUME NEW f, f.cap \in Nat, f \in Fields(f.cap), NEW p \in Players, NEW h \in TickBoard(f),
         \A t \in Standing(f, Side(Opponent(p))) : Unit(f, t).left = 1 =>
           /\ Standing(f, Column(p, t[2][2])) # {}
           /\ Triggers(Unit(f, t), "random_target") = {},
         \A t \in Standing(f, Side(p)) : Triggers(Unit(f, t), "damage_leader") = {}
  PROVE  ~(h.health[p] < f.health[p])
<1>1. f \in Battlefields /\ ChargesAreFull(f)
  BY DEF Fields, ChargesAreFull
<1>2. \A t \in Places : /\ t \in Side(t[1])
                        /\ Opponent(t[1]) = p => t[1] = Opponent(p)
  BY DEF Places, Players, Opponent, Side
<1>3. Guards(f, {p})
  <2>1. ASSUME NEW t \in Standing(f, Places), t[1] \in {p}, Harms(Unit(f, t).card) PROVE FALSE
    <3>1. t \in Standing(f, Side(p))
      BY <1>2, <2>1 DEF Standing
    <3> QED
      BY <2>1, <3>1 DEF Harms, Triggers
  <2>2. ASSUME NEW t \in Standing(f, Places), Opponent(t[1]) \in {p}, Unit(f, t).left = 1
        PROVE  /\ Standing(f, Column(Opponent(t[1]), t[2][2])) # {}
               /\ \A a \in AbilitiesOf(Unit(f, t).card) : a.effect # "random_target"
    <3>1. t \in Standing(f, Side(Opponent(p)))
      BY <1>2, <2>2 DEF Standing
    <3>2. /\ Standing(f, Column(p, t[2][2])) # {}
          /\ Triggers(Unit(f, t), "random_target") = {}
      BY <2>2, <3>1
    <3> QED
      BY <2>2, <3>2 DEF Triggers
  <2> QED
    BY <2>1, <2>2 DEF Guards
<1>4. h \in Battlefields /\ f.health[p] <= h.health[p]
  BY <1>1, <1>3, TickKeeps DEF Fields
<1>5. f.health[p] \in Int /\ h.health[p] \in Int
  BY <1>1, <1>4 DEF Battlefields
<1> QED
  BY <1>4, <1>5

\* A leader is hurt in a tick only by an enemy that ends its charge with nobody in its
\* column, or aims at random, or by an own unit made for it (resolveAttack,
\* getDefaultTarget): who stood in the column before the tick still takes the blow.
THEOREM LeadersAreGuarded == Spec => LeaderIsGuarded
<1>1. ASSUME CombatInv, [Next]_vars, NEW p \in Players,
             ticks' # ticks /\ field'.health[p] < field.health[p]
      PROVE  \/ \E t \in Standing(field, Side(Opponent(p))) :
                  /\ Unit(field, t).left = 1
                  /\ \/ Standing(field, Column(p, t[2][2])) = {}
                     \/ Triggers(Unit(field, t), "random_target") # {}
             \/ \E t \in Standing(field, Side(p)) : Triggers(Unit(field, t), "damage_leader") # {}
  <2>1. field' \in TickBoard(field)
    BY <1>1 DEF Next, vars, ActiveTick, IdleTick, CardPlaced, DebugPlaceUnit, PreTurnEnd, RoundEnd
  <2>2. field.cap \in Nat /\ field \in Fields(field.cap)
    BY <1>1, FieldNow
  <2> SUFFICES ASSUME
                 \A t \in Standing(field, Side(Opponent(p))) : Unit(field, t).left = 1 =>
                   /\ Standing(field, Column(p, t[2][2])) # {}
                   /\ Triggers(Unit(field, t), "random_target") = {},
                 \A t \in Standing(field, Side(p)) : Triggers(Unit(field, t), "damage_leader") = {}
               PROVE  FALSE
    OBVIOUS
  <2>3. \A h \in TickBoard(field) : ~(h.health[p] < field.health[p])
    BY <2>2, LeaderIsSafe
  <2> QED
    BY <1>1, <2>1, <2>3
<1> DEFINE Guarded ==
      \A p \in Players :
        ticks' # ticks /\ field'.health[p] < field.health[p] =>
          \/ \E t \in Standing(field, Side(Opponent(p))) :
               /\ Unit(field, t).left = 1
               /\ \/ Standing(field, Column(p, t[2][2])) = {}
                  \/ Triggers(Unit(field, t), "random_target") # {}
          \/ \E t \in Standing(field, Side(p)) : Triggers(Unit(field, t), "damage_leader") # {}
<1>2. CombatInv /\ [Next]_vars => [Guarded]_vars
  BY <1>1
<1>3. Spec => [][Next]_vars
  BY PTL DEF Spec
<1> QED
  BY <1>2, <1>3, CombatInvariant, PTL DEF LeaderIsGuarded

\* The rules are the same for both players (TickBoard, processDeaths): when the units of
\* one player strike, the mirrored boards have the mirrored ticks, for any cards but those
\* SidesAreEqual excepts, although player 1 comes first at each position.
THEOREM RulesAreFair == Spec => []SidesAreEqual
<1>1. CombatInv => SidesAreEqual
  <2> DEFINE striking == {t \in Standing(field, Places) : Unit(field, t).left = 1}
             ordered(u) == Avenges(u) \/ ~(Triggers(u, "reset_attack") \subseteq {"summon"})
  <2> SUFFICES ASSUME CombatInv, NEW p \in Players, striking \subseteq Side(p),
                      \A t \in Standing(field, Places) : ~ordered(Unit(field, t))
               PROVE  {Mirror(f) : f \in TickBoard(field)} = TickBoard(Mirror(field))
    BY DEF SidesAreEqual
  <2>1. field \in Battlefields /\ ChargesAreFull(field)
    BY FieldNow DEF Fields, ChargesAreFull
  <2>2. ASSUME NEW t \in Places, field.board[t] # NoUnit
        PROVE  /\ field.board[t].card \in PlainCards
               /\ field.board[t].left = 1 => t[1] = p
    <3>1. /\ t \in Standing(field, Places) /\ Unit(field, t) = field.board[t]
          /\ field.board[t].card \in Cards
      BY <2>1, <2>2, UnitAt DEF Standing, Unit
    <3>2. \A a \in AbilitiesOf(field.board[t].card) :
            /\ a.effect = "reset_attack" => a.trigger = "summon"
            /\ a.trigger = "on_death" => a.effect = "damage_leader"
      BY <3>1 DEF Avenges, Triggers
    <3>3. field.board[t].left = 1 => t[1] = p
      BY <3>1 DEF Side
    <3> QED
      BY <3>1, <3>2, <3>3 DEF PlainCards
  <2>3. OneSided(field, p)
    BY <2>1, <2>2 DEF OneSided
  <2> QED
    BY <2>3, MirroredTicks
<1> QED
  BY <1>1, CombatInvariant, PTL

(***************************************************************************)
(* The buffer of snapshots.                                                *)
(***************************************************************************)

USE SizeIsPositive

\* The only values the code applies % to lie below twice the size.
LEMMA Modulo ==
  ASSUME NEW a \in Nat, a < 2 * Size
  PROVE  a % Size = IF a < Size THEN a ELSE a - Size
<1>1. CASE a < Size
  BY <1>1, Z3
<1>2. CASE a >= Size
  BY <1>2, Z3
<1> QED
  BY <1>1, <1>2

LEMMA NextHead ==
  ASSUME NEW h \in 0..Size - 1
  PROVE  (h + 1) % Size = IF h + 1 < Size THEN h + 1 ELSE h + 1 - Size
<1>1. CASE h + 1 < Size
  BY <1>1, Z3
<1>2. CASE h + 1 >= Size
  <2>1. h + 1 = Size
    BY <1>2
  <2>2. Size % Size = 0
    BY Modulo
  <2> QED
    BY <2>1, <2>2
<1> QED
  BY <1>1, <1>2

\* Where the i-th oldest of c entries is when the next write goes to h.
Slot(h, c, i) ==
  LET k == h - c + i - 1 IN
  IF k < 0 THEN k + Size ELSE k

\* The index GetAll computes.
LEMMA SlotOfEntry ==
  ASSUME NEW h \in 0..Size - 1, NEW c \in 0..Size, NEW i \in 1..c
  PROVE  /\ ((IF h - c < 0 THEN h - c + Size ELSE h - c) + i - 1) % Size = Slot(h, c, i)
         /\ Slot(h, c, i) \in 0..Size - 1
<1> DEFINE a == (IF h - c < 0 THEN h - c + Size ELSE h - c) + i - 1
<1>1. a \in Nat /\ a < 2 * Size
  OBVIOUS
<1>2. a % Size = IF a < Size THEN a ELSE a - Size
  BY <1>1, Modulo
<1> QED
  BY <1>2 DEF Slot

\* The two states of a step.
LEMMA GetAllEntries ==
  /\ BufferTypeOK => \A i \in 1..count : GetAll[i] = buffer[Slot(head, count, i)]
  /\ BufferTypeOK' => \A i \in 1..count' : GetAll'[i] = buffer'[Slot(head', count', i)]
<1>1. ASSUME BufferTypeOK, NEW i \in 1..count
      PROVE  GetAll[i] = buffer[Slot(head, count, i)]
  BY <1>1, SlotOfEntry DEF BufferTypeOK, GetAll, Start
<1>2. ASSUME BufferTypeOK', NEW i \in 1..count'
      PROVE  GetAll'[i] = buffer'[Slot(head', count', i)]
  BY <1>2, SlotOfEntry DEF BufferTypeOK, GetAll, Start
<1> QED
  BY <1>1, <1>2

LEMMA GetAllIsSequence ==
  /\ BufferTypeOK /\ InOrder => GetAll \in Seq(Snapshots) /\ Len(GetAll) = count
  /\ BufferTypeOK' /\ InOrder' => GetAll' \in Seq(Snapshots) /\ Len(GetAll') = count'
<1>1. ASSUME BufferTypeOK, InOrder
      PROVE  GetAll \in Seq(Snapshots) /\ Len(GetAll) = count
  <2>1. count \in Nat /\ \A i \in 1..count : GetAll[i] \in Snapshots
    BY <1>1 DEF BufferTypeOK, InOrder
  <2>2. GetAll \in [1..count -> Snapshots]
    BY <2>1 DEF GetAll
  <2> QED
    BY <2>1, <2>2
<1>2. ASSUME BufferTypeOK', InOrder'
      PROVE  GetAll' \in Seq(Snapshots) /\ Len(GetAll') = count'
  <2>1. count' \in Nat /\ \A i \in 1..count' : GetAll'[i] \in Snapshots
    BY <1>2 DEF BufferTypeOK, InOrder
  <2>2. GetAll' \in [1..count' -> Snapshots]
    BY <2>1 DEF GetAll
  <2> QED
    BY <2>1, <2>2
<1> QED
  BY <1>1, <1>2

\* How many entries a push drops: the oldest one of a full buffer.
Gone == IF count < Size THEN 0 ELSE 1

\* A push shifts the entries and puts the new one at the end.
LEMMA PushAppends ==
  ASSUME BufferTypeOK, BufferTypeOK', NEW s \in Snapshots, Push(s)
  PROVE  /\ count' = count - Gone + 1
         /\ GetAll'[count'] = s
         /\ \A i \in 1..count' - 1 : i + Gone \in 1..count /\ GetAll'[i] = GetAll[i + Gone]
<1>1. count' = count - Gone + 1 /\ count' >= 1
  BY DEF BufferTypeOK, Push, Gone
<1>2. head' = IF head + 1 < Size THEN head + 1 ELSE head + 1 - Size
  <2>1. head \in Nat /\ head + 1 \in Nat /\ head + 1 < 2 * Size
    BY DEF BufferTypeOK
  <2>2. (head + 1) % Size = IF head + 1 < Size THEN head + 1 ELSE head + 1 - Size
    BY <2>1, NextHead DEF BufferTypeOK
  <2> QED
    BY <2>2 DEF Push
<1>3. Slot(head', count', count') = head
  BY <1>1, <1>2 DEF Slot, BufferTypeOK, Gone
<1>4. GetAll'[count'] = s
  <2>1. count' \in 1..count'
    BY <1>1 DEF BufferTypeOK
  <2>2. GetAll'[count'] = buffer'[Slot(head', count', count')]
    BY <2>1, GetAllEntries
  <2> QED
    BY <2>2, <1>3 DEF Push, BufferTypeOK
<1>5. ASSUME NEW i \in 1..count' - 1
      PROVE  i + Gone \in 1..count /\ GetAll'[i] = GetAll[i + Gone]
  <2>1. i + Gone \in 1..count /\ i \in 1..count'
    BY <1>1 DEF BufferTypeOK, Gone
  <2>2. Slot(head', count', i) = Slot(head, count, i + Gone)
    BY <1>1, <1>2, <2>1 DEF Slot, BufferTypeOK, Gone
  <2>3. Slot(head, count, i + Gone) # head
    BY <2>1 DEF Slot, BufferTypeOK, Gone
  <2>4. GetAll'[i] = buffer'[Slot(head', count', i)]
    BY <2>1, GetAllEntries
  <2>5. GetAll[i + Gone] = buffer[Slot(head, count, i + Gone)]
    BY <2>1, GetAllEntries
  <2> QED
    BY <2>1, <2>2, <2>3, <2>4, <2>5 DEF Push, BufferTypeOK
<1> QED
  BY <1>1, <1>4, <1>5

----------------------------------------------------------------------------
(* The invariant.                                                          *)

\* What a step does to the entries: a push of a snapshot, or nothing at all.
LEMMA SnapshotTaken ==
  ASSUME BufferTypeOK, NEW p \in Actors, NEW a \in Actions, TakeSnapshot(p, a)
  PROVE  /\ seq' \in [Actors -> 0..MaxSequence]
         /\ \A q \in Actors : seq[q] <= seq'[q]
         /\ [seq |-> seq', action |-> a, actor |-> p] \in Snapshots
         /\ Push([seq |-> seq', action |-> a, actor |-> p])
<1>1. seq' \in [Actors -> 0..MaxSequence] /\ \A q \in Actors : seq[q] <= seq'[q]
  <2>1. CASE a \in Counted
    BY <2>1, MaxSequenceIsNat DEF TakeSnapshot, BufferTypeOK
  <2>2. CASE a \notin Counted
    BY <2>2, MaxSequenceIsNat DEF TakeSnapshot, BufferTypeOK
  <2> QED
    BY <2>1, <2>2
<1> QED
  BY <1>1 DEF TakeSnapshot, Snapshots

LEMMA TypeKept ==
  BufferTypeOK /\ [BufferNext]_bufferVars => BufferTypeOK'
<1> SUFFICES ASSUME BufferTypeOK, [BufferNext]_bufferVars PROVE BufferTypeOK'
  OBVIOUS
<1>1. ASSUME NEW p \in Actors, NEW a \in Actions, TakeSnapshot(p, a)
      PROVE  BufferTypeOK'
  <2> DEFINE s == [seq |-> seq', action |-> a, actor |-> p]
  <2>1. s \in Snapshots /\ seq' \in [Actors -> 0..MaxSequence] /\ Push(s)
    BY <1>1, SnapshotTaken
  <2> HIDE DEF s
  <2>2. buffer' \in [0..Size - 1 -> Snapshots \cup {Nil}]
    BY <2>1 DEF Push, BufferTypeOK
  <2>3. head' \in 0..Size - 1
    BY <2>1, NextHead DEF Push, BufferTypeOK
  <2>4. count' \in 0..Size
    BY <2>1 DEF Push, BufferTypeOK
  <2> QED
    BY <2>1, <2>2, <2>3, <2>4 DEF BufferTypeOK
<1>2. CASE Clear
  BY <1>2 DEF Clear, BufferTypeOK
<1>3. CASE UNCHANGED bufferVars
  BY <1>3 DEF bufferVars, BufferTypeOK
<1> QED
  BY <1>1, <1>2, <1>3 DEF BufferNext

LEMMA BufferKept ==
  BufferInv /\ [BufferNext]_bufferVars => BufferInv'
<1> SUFFICES ASSUME BufferTypeOK, InOrder, [BufferNext]_bufferVars PROVE BufferInv'
  BY DEF BufferInv
<1> USE DEF BufferInv
<1>0. BufferTypeOK'
  BY TypeKept
<1>1. ASSUME NEW p \in Actors, NEW a \in Actions, TakeSnapshot(p, a)
      PROVE  InOrder'
  <2> DEFINE s == [seq |-> seq', action |-> a, actor |-> p]
  <2>1. /\ s \in Snapshots /\ seq' \in [Actors -> 0..MaxSequence] /\ Push(s)
        /\ s.seq = seq' /\ \A q \in Actors : seq[q] <= seq'[q]
    BY <1>1, SnapshotTaken
  <2> HIDE DEF s
  <2>2. /\ count' = count - Gone + 1 /\ GetAll'[count'] = s
        /\ \A i \in 1..count' - 1 : i + Gone \in 1..count /\ GetAll'[i] = GetAll[i + Gone]
    BY <1>0, <2>1, PushAppends
  <2>3. count' \in Nat /\ count \in Nat /\ Gone \in {0, 1}
    BY <1>0 DEF BufferTypeOK, Gone
  <2>4. ASSUME NEW i \in 1..count'
        PROVE  GetAll'[i] \in Snapshots
    <3>1. CASE i = count'
      BY <3>1, <2>1, <2>2
    <3>2. CASE i < count'
      BY <3>2, <2>2, <2>3 DEF InOrder
    <3> QED
      BY <3>1, <3>2, <2>3
  <2>5. ASSUME NEW i \in 1..count', NEW j \in 1..count', i <= j, NEW q \in Actors
        PROVE  GetAll'[i].seq[q] <= GetAll'[j].seq[q] /\ GetAll'[j].seq[q] <= seq'[q]
    <3>1. CASE j < count'
      <4>1. /\ i + Gone \in 1..count /\ j + Gone \in 1..count /\ i + Gone <= j + Gone
            /\ GetAll'[i] = GetAll[i + Gone] /\ GetAll'[j] = GetAll[j + Gone]
        BY <3>1, <2>2, <2>3, <2>5
      <4>2. GetAll[i + Gone].seq[q] <= GetAll[j + Gone].seq[q] /\ GetAll[j + Gone].seq[q] <= seq[q]
        BY <4>1 DEF InOrder
      <4>3. GetAll[j + Gone].seq[q] \in Int /\ seq[q] \in Int /\ seq'[q] \in Int
        BY <4>1, <2>1, MaxSequenceIsNat DEF InOrder, BufferTypeOK, Snapshots
      <4> QED
        BY <4>1, <4>2, <4>3, <2>1
    <3>2. CASE j = count' /\ i < count'
      <4>1. i + Gone \in 1..count /\ GetAll'[i] = GetAll[i + Gone] /\ GetAll'[j] = s
        BY <3>2, <2>2, <2>3
      <4>2. GetAll[i + Gone].seq[q] <= seq[q]
        BY <4>1, <2>3 DEF InOrder
      <4>3. GetAll[i + Gone].seq[q] \in Int /\ seq[q] \in Int /\ seq'[q] \in Int
        BY <4>1, <2>1, MaxSequenceIsNat DEF InOrder, BufferTypeOK, Snapshots
      <4> QED
        BY <4>1, <4>2, <4>3, <2>1
    <3>3. CASE j = count' /\ i = count'
      <4>1. seq'[q] \in Int
        BY <2>1, MaxSequenceIsNat
      <4> QED
        BY <3>3, <4>1, <2>1, <2>2
    <3> QED
      BY <3>1, <3>2, <3>3, <2>3, <2>5
  <2> QED
    BY <2>4, <2>5 DEF InOrder
<1>2. CASE Clear
  <2>1. count' = 0
    BY <1>2 DEF Clear
  <2> QED
    BY <1>0, <2>1 DEF InOrder
<1>3. CASE UNCHANGED bufferVars
  <2>1. GetAll' = GetAll /\ count' = count /\ seq' = seq
    BY <1>3 DEF bufferVars, GetAll, Start
  <2> QED
    BY <1>0, <2>1 DEF InOrder
<1> QED
  BY <1>0, <1>1, <1>2, <1>3 DEF BufferNext

\* Whatever the size of the buffer and however often it wraps, GetAll returns
\* real snapshots whose sequence numbers never fall.
THEOREM BufferInvariant == BufferSpec => []BufferInv
<1>1. BufferInit => BufferInv
  BY MaxSequenceIsNat DEF BufferInit, BufferInv, BufferTypeOK, InOrder
<1> QED
  BY <1>1, BufferKept, PTL DEF BufferSpec

----------------------------------------------------------------------------
(* The readers agree.                                                      *)

LEMMA TailOfAll ==
  BufferInv => LatestAreTheTail
<1> SUFFICES ASSUME BufferTypeOK, InOrder, NEW n \in 0..Size + 1
             PROVE  GetLatest(n) = SubSeq(GetAll, IF n > count THEN 1 ELSE count - n + 1, count)
  BY DEF BufferInv, LatestAreTheTail
<1> DEFINE taken == IF n > count THEN count ELSE n
           Back(i) == IF head - 1 - i < 0 THEN head - 1 - i + Size ELSE head - 1 - i
           first == IF n > count THEN 1 ELSE count - n + 1
           tail == SubSeq(GetAll, first, count)
<1>1. taken \in Nat /\ first \in Nat /\ count \in Nat /\ taken = count - first + 1 /\ first >= 1
  BY DEF BufferTypeOK
<1>2. \A k \in first..count : GetAll[k] \in Snapshots
  BY <1>1 DEF InOrder
<1>3. /\ tail \in Seq(Snapshots) /\ Len(tail) = taken
      /\ \A k \in 1..taken : tail[k] = GetAll[first + k - 1]
  <2> HIDE DEF first, taken
  <2> QED
    BY <1>1, <1>2, SubSeqProperties
<1>4. ASSUME NEW k \in 1..taken
      PROVE  buffer[Back(taken - k)] = tail[k]
  <2>1. first + k - 1 \in 1..count
    BY <1>1
  <2>2. Back(taken - k) = Slot(head, count, first + k - 1)
    BY <1>1 DEF Slot, BufferTypeOK
  <2>3. GetAll[first + k - 1] = buffer[Slot(head, count, first + k - 1)]
    BY <2>1, GetAllEntries
  <2> QED
    BY <2>2, <2>3, <1>3
<1>5. GetLatest(n) = [k \in 1..taken |-> buffer[Back(taken - k)]]
  BY DEF GetLatest
<1> HIDE DEF taken, first, tail, Back
<1>6. GetLatest(n) = [k \in 1..taken |-> tail[k]]
  BY <1>4, <1>5
<1>7. tail = [k \in 1..taken |-> tail[k]]
  BY <1>1, <1>3
<1> QED
  BY <1>6, <1>7 DEF tail, first

\* GetLatest, counting backwards from head, always returns the tail of what
\* GetAll, counting forwards from the oldest entry, returns.
THEOREM ReadersAgree == BufferSpec => []LatestAreTheTail
BY BufferInvariant, TailOfAll, PTL

----------------------------------------------------------------------------
(* The refinement.                                                         *)

LEMMA PushIsRecord ==
  ASSUME BufferInv, BufferInv', NEW s \in Snapshots, Push(s)
  PROVE  Log!Record(s)
<1>1. /\ GetAll \in Seq(Snapshots) /\ Len(GetAll) = count
      /\ GetAll' \in Seq(Snapshots) /\ Len(GetAll') = count'
  BY GetAllIsSequence DEF BufferInv
<1>2. /\ count' = count - Gone + 1 /\ GetAll'[count'] = s
      /\ \A i \in 1..count' - 1 : i + Gone \in 1..count /\ GetAll'[i] = GetAll[i + Gone]
  BY PushAppends DEF BufferInv
<1>3. count \in 0..Size /\ count' \in 0..Size
  BY DEF BufferInv, BufferTypeOK
<1>4. CASE count < Size
  <2> DEFINE after == Append(GetAll, s)
  <2>1. /\ after \in Seq(Snapshots) /\ Len(after) = count + 1
        /\ \A i \in 1..count : after[i] = GetAll[i]
        /\ after[count + 1] = s
    BY <1>1, AppendProperties
  <2>2. \A i \in 1..count + 1 : GetAll'[i] = after[i]
    BY <1>2, <1>3, <1>4, <2>1 DEF Gone
  <2>3. Len(GetAll') = Len(after)
    BY <1>1, <1>2, <1>3, <1>4, <2>1 DEF Gone
  <2> HIDE DEF after
  <2>4. GetAll' = after
    BY <1>1, <2>1, <2>2, <2>3, SeqEqual
  <2> QED
    BY <1>1, <1>4, <2>4 DEF Log!Record, after
<1>5. CASE count = Size
  <2> DEFINE rest == Tail(GetAll)
             after == Append(rest, s)
  <2>0. GetAll # <<>>
    BY <1>1, <1>5
  <2>1. /\ rest \in Seq(Snapshots) /\ Len(rest) = count - 1
        /\ \A i \in 1..count - 1 : rest[i] = GetAll[i + 1]
    BY <1>1, <2>0, HeadTailProperties
  <2> HIDE DEF rest
  <2>2. /\ after \in Seq(Snapshots) /\ Len(after) = count
        /\ \A i \in 1..count - 1 : after[i] = rest[i]
        /\ after[count] = s
    BY <1>3, <2>1, AppendProperties
  <2>3. count' = count /\ Gone = 1
    BY <1>2, <1>3, <1>5 DEF Gone
  <2>4. \A i \in 1..count : GetAll'[i] = after[i]
    BY <1>2, <1>3, <2>1, <2>2, <2>3
  <2> HIDE DEF after
  <2>5. GetAll' = after
    BY <1>1, <2>2, <2>3, <2>4, SeqEqual
  <2> QED
    BY <1>1, <1>5, <1>3, <2>5 DEF Log!Record, after, rest
<1> QED
  BY <1>3, <1>4, <1>5

\* The circular buffer with its wrapping indices implements the log that keeps
\* the last Size snapshots in order.
THEOREM BufferImplementsLog == BufferSpec => RefinesLog
<1>1. BufferInit => Log!Init
  BY DEF BufferInit, Log!Init, GetAll
<1>2. BufferInv /\ BufferInv' /\ [BufferNext]_bufferVars => [Log!Next]_GetAll
  <2> SUFFICES ASSUME BufferInv, BufferInv', [BufferNext]_bufferVars
               PROVE  Log!Next \/ GetAll' = GetAll
    OBVIOUS
  <2>1. ASSUME NEW p \in Actors, NEW a \in Actions, TakeSnapshot(p, a)
        PROVE  Log!Next
    <3>1. PICK s \in Snapshots : Push(s)
      BY <2>1, SnapshotTaken DEF BufferInv
    <3> QED
      BY <3>1, PushIsRecord DEF Log!Next
  <2>2. CASE Clear
    BY <2>2 DEF Clear, GetAll, Log!Next, Log!Forget
  <2>3. CASE UNCHANGED bufferVars
    BY <2>3 DEF bufferVars, GetAll, Start
  <2> QED
    BY <2>1, <2>2, <2>3 DEF BufferNext
<1> QED
  BY <1>1, <1>2, BufferInvariant, PTL DEF BufferSpec, RefinesLog, Log!Spec

----------------------------------------------------------------------------
(* The scan by sequence number.                                            *)

\* The index GetBySequence computes for the i-th entry it looks at.
LEMMA SlotOfScan ==
  ASSUME NEW h \in 0..Size - 1, NEW c \in 0..Size, NEW i \in 0..c - 1
  PROVE  (h - c + i + Size) % Size = Slot(h, c, i + 1)
<1> DEFINE a == h - c + i + Size
<1>1. a \in Nat /\ a < 2 * Size
  OBVIOUS
<1>2. a % Size = IF a < Size THEN a ELSE a - Size
  BY <1>1, Modulo
<1> QED
  BY <1>2 DEF Slot

LEMMA ScanFindsFirst ==
  BufferInv => FirstOfItsNumber
<1> SUFFICES ASSUME BufferTypeOK, InOrder, NEW p \in Actors, NEW n \in 0..MaxSequence
             PROVE  LET s == GetBySequence(p, n) IN
                    IF s = Nil THEN \A i \in 1..count : GetAll[i].seq[p] # n
                    ELSE \E i \in 1..count :
                           /\ GetAll[i] = s /\ s.seq[p] = n
                           /\ \A j \in 1..i - 1 : GetAll[j].seq[p] < n
  BY DEF BufferInv, FirstOfItsNumber
<1> DEFINE Idx(i) == (head - count + i + Size) % Size
           Hits == {i \in 0..count - 1 : buffer[Idx(i)].seq[p] = n}
           least == CHOOSE i \in Hits : \A j \in Hits : i <= j
           s == GetBySequence(p, n)
<1>1. s = IF Hits = {} THEN Nil ELSE buffer[Idx(least)]
  BY DEF GetBySequence
<1>2. count \in Nat /\ n \in Int
  BY MaxSequenceIsNat DEF BufferTypeOK
<1>3. ASSUME NEW i \in 0..count - 1
      PROVE  /\ buffer[Idx(i)] = GetAll[i + 1]
             /\ i \in Hits <=> GetAll[i + 1].seq[p] = n
  <2>1. i + 1 \in 1..count
    BY <1>2
  <2>2. Idx(i) = Slot(head, count, i + 1)
    BY SlotOfScan DEF BufferTypeOK
  <2>3. buffer[Idx(i)] = GetAll[i + 1]
    BY <2>1, <2>2, GetAllEntries
  <2> QED
    BY <2>3
<1>4. Hits \subseteq 0..count - 1
  OBVIOUS
<1> HIDE DEF Hits, Idx, s
<1>5. ASSUME NEW i \in 1..count
      PROVE  i - 1 \in 0..count - 1 /\ (i - 1) + 1 = i
  BY <1>2
<1>6. CASE Hits = {}
  <2>1. s = Nil
    BY <1>1, <1>6
  <2>2. ASSUME NEW i \in 1..count
        PROVE  GetAll[i].seq[p] # n
    BY <1>3, <1>5, <1>6
  <2> QED
    BY <2>1, <2>2 DEF s
<1>7. CASE Hits # {}
  <2>1. least \in Hits /\ \A j \in Hits : least <= j
    <3>1. Hits \in SUBSET Nat
      BY <1>2, <1>4
    <3> QED
      BY <3>1, <1>7, LeastOfNaturals
  <2> HIDE DEF least
  <2>2. least \in 0..count - 1 /\ least + 1 \in 1..count
    BY <1>2, <1>4, <2>1
  <2>3. s = GetAll[least + 1] /\ s.seq[p] = n
    BY <1>1, <1>3, <1>7, <2>1, <2>2
  <2>4. s # Nil
    BY <2>2, <2>3, NilIsNoSnapshot DEF InOrder
  <2>5. ASSUME NEW j \in 1..(least + 1) - 1
        PROVE  GetAll[j].seq[p] < n
    <3>1. j \in 1..count /\ j <= least + 1 /\ j - 1 \in 0..count - 1 /\ (j - 1) + 1 = j /\ j - 1 < least
      BY <1>2, <2>2
    <3>2. GetAll[j].seq[p] <= n
      BY <2>2, <2>3, <3>1 DEF InOrder
    <3>3. j - 1 \notin Hits
      BY <2>1, <2>2, <3>1
    <3>4. GetAll[j].seq[p] # n
      BY <1>3, <3>1, <3>3
    <3>5. GetAll[j].seq[p] \in Int
      BY <3>1, MaxSequenceIsNat DEF InOrder, Snapshots
    <3> QED
      BY <1>2, <3>2, <3>4, <3>5
  <2> QED
    BY <2>2, <2>3, <2>4, <2>5 DEF s
<1> QED
  BY <1>6, <1>7

\* However many actions went uncounted, and wherever the buffer has wrapped, the
\* snapshot found for a sequence number is the first one kept with that number.
THEOREM FirstSnapshotFound == BufferSpec => []FirstOfItsNumber
BY BufferInvariant, ScanFindsFirst, PTL
=============================================================================
